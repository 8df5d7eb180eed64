-------------------------------- MODULE Files --------------------------------
(***************************************************************************)
(* The file system of the script: the spiffs calls of                      *)
(* port/luat_fs_idf5.c, made by the Lua task one at a time.                *)
(*                                                                         *)
(* spiffs is external: it has descriptors for MaxFiles open files, lists   *)
(* its files in an order of its own that a new file may change, and may    *)
(* refuse any call that writes.  What a file holds is left out.            *)
(***************************************************************************)
EXTENDS SequencesExt

CONSTANTS
  Names,     \* names the script uses
  LongNames, \* those among them of more than 240 characters
  MaxFiles,  \* spiffs_conf.max_files
  PageLen    \* entries the script asks luat_vfs_spiffs_lsdir for at a time

ASSUME FilesAssumption == /\ LongNames \subseteq Names
                          /\ MaxFiles \in Nat \ {0} /\ PageLen \in Nat \ {0}

VARIABLES
  dir,      \* the files, in the order of readdir
  used,     \* descriptors spiffs has in use
  held,     \* the files the script holds open
  last,     \* the last query: call, name, result
  listing   \* the paged listing: entries so far, whether it goes on, whether
            \* the directory changed since its first page

filesVars == <<dir, used, held, last, listing>>

Existing   == ToSet(dir)
NoListing  == [names |-> <<>>, more |-> FALSE, stable |-> TRUE]
NoQuery    == [call |-> "none"]
Reachable(f) == f \in Existing \ LongNames /\ used < MaxFiles

FilesInit == /\ dir = <<>> /\ used = 0 /\ held = {}
             /\ last = NoQuery /\ listing = NoListing

Query(call, f, ret) == last' = [call |-> call, name |-> f, ret |-> ret]

\* The directory changes under a listing that goes on.
DirBecomes(d) == /\ dir' = d
                 /\ listing' = [listing EXCEPT !.stable = FALSE]

-----------------------------------------------------------------------------

\* luat_vfs_spiffs_fopen for reading, one handle per file; and fclose.
FopenRead(f) == /\ f \notin held
                /\ Query("fopen", f, Reachable(f))
                /\ IF Reachable(f)
                   THEN used' = used + 1 /\ held' = held \cup {f}
                   ELSE UNCHANGED <<used, held>>
                /\ UNCHANGED <<dir, listing>>

\* luat_vfs_spiffs_fopen for writing makes the file.
FopenWrite(f) == /\ f \notin held /\ f \notin LongNames /\ used < MaxFiles
                 /\ used' = used + 1 /\ held' = held \cup {f}
                 /\ IF f \in Existing THEN UNCHANGED <<dir, listing>>
                    ELSE \E i \in 1..Len(dir) + 1 : DirBecomes(InsertAt(dir, i, f))
                 /\ last' = NoQuery

Fclose(f) == /\ f \in held
             /\ used' = used - 1 /\ held' = held \ {f}
             /\ last' = NoQuery
             /\ UNCHANGED <<dir, listing>>

\* What a query leaves of the descriptors; the first form does not close.
QueryKeeps(f)  == IF Reachable(f) THEN used + 1 ELSE used
QueryCloses(f) == used

\* luat_vfs_spiffs_fexist and luat_vfs_spiffs_fsize open the file and close it.
FexistFsize(f) == /\ Query("fsize", f, Reachable(f))
                  /\ used' = QueryCloses(f)
                  /\ UNCHANGED <<dir, held, listing>>

\* luat_vfs_spiffs_remove, and rmdir, which removes too; a long name is left
\* alone.  The script removes no file it holds open.
RemoveFile(f) == /\ f \notin held
                 /\ IF f \in Existing \ LongNames
                    THEN \E i \in 1..Len(dir) : dir[i] = f /\ DirBecomes(RemoveAt(dir, i))
                    ELSE UNCHANGED <<dir, listing>>
                 /\ last' = NoQuery
                 /\ UNCHANGED <<used, held>>

\* luat_vfs_spiffs_rename; spiffs refuses a name that is taken.
Rename(f, g) == /\ f \in Existing \ held /\ {f, g} \cap LongNames = {}
                /\ g \notin Existing
                /\ DirBecomes([i \in DOMAIN dir |-> IF dir[i] = f THEN g ELSE dir[i]])
                /\ last' = NoQuery
                /\ UNCHANGED <<used, held>>

-----------------------------------------------------------------------------
(* luat_vfs_spiffs_lsdir: the loop over readdir, and the script's paging.  *)

\* One entry in the loop: skipped, taken or past the end of the page.
Takes(s) == s.len > 0

Entry(s, f) == IF s.offset > 0 THEN [s EXCEPT !.offset = @ - 1]
               ELSE IF Takes(s) THEN [s EXCEPT !.ents = Append(@, f), !.len = @ - 1]
               ELSE s

\* The loop: what it holds after n entries of readdir.
Scan(offset, len) ==
  LET s[n \in 0..Len(dir)] ==
        IF n = 0 THEN [offset |-> offset, len |-> len, ents |-> <<>>]
        ELSE Entry(s[n - 1], dir[n])
  IN  s

Lsdir(offset, len) == Scan(offset, len)[Len(dir)].ents

\* The script asks for the next page until one is short.
ListFrom(start) ==
  LET page == Lsdir(Len(start.names), PageLen)
  IN  listing' = [start EXCEPT !.names = @ \o page, !.more = Len(page) >= PageLen]

List == /\ ListFrom(IF listing.more THEN listing ELSE NoListing)
        /\ last' = NoQuery
        /\ UNCHANGED <<dir, used, held>>

FilesNext == \/ \E f \in Names : \/ FopenRead(f) \/ FopenWrite(f) \/ Fclose(f)
                                 \/ FexistFsize(f) \/ RemoveFile(f)
             \/ \E f \in Names, g \in Names : Rename(f, g)
             \/ List

FilesSpec == FilesInit /\ [][FilesNext]_filesVars

-----------------------------------------------------------------------------

\* luat_vfs_spiffs_lsdir in pages: when the directory did not change since
\* the first page, the pages are the files in order, each once, and when the
\* last page came they are all of them.
EveryFileListed ==
  listing.stable =>
    /\ IsPrefix(listing.names, dir)
    /\ ~listing.more /\ listing # NoListing => listing.names = dir

\* fopen, fexist and fsize find a file unless the script itself holds
\* max_files files open: the queries, which borrow a descriptor, always give
\* it back.
FoundWhileRoom ==
  last # NoQuery /\ last.name \in Existing \ LongNames /\ ~last.ret
    => Cardinality(held) = MaxFiles

\* What the script is told of its files is so, in listings and in queries.
FilesAnswerTrue == EveryFileListed /\ FoundWhileRoom
=============================================================================
