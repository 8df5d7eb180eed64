-------------------------------- MODULE Flash --------------------------------
(***************************************************************************)
(* The script partition: luat_fs_init, which finds and mounts it           *)
(* (port/luat_fs_idf5.c), and the raw calls an update writes it with       *)
(* (port/luat_flash_idf5.c).  The raw calls take absolute addresses, clamp *)
(* the length to the end of the partition with size_t arithmetic, and hand *)
(* an offset to the partition driver.                                      *)
(*                                                                         *)
(* The driver is external: it refuses a range that leaves the partition    *)
(* and an erase off the sector grid, and may fail after a part of the      *)
(* work.  A cell is erased or holds data.                                  *)
(***************************************************************************)
EXTENDS Integers

CONSTANTS
  Word,     \* 2^32: size_t wraps there
  Chip,     \* cells of the flash chip
  Address,  \* the script partition
  Size,
  Sector    \* the grain of an erase

ASSUME FlashAssumption == /\ Word \in Nat /\ Chip \in Nat /\ Chip < Word
                          /\ Address \in Nat /\ Size \in Nat \ {0}
                          /\ Address + Size <= Chip
                          /\ Sector \in Nat \ {0}

VARIABLES
  luadb_partition,  \* FALSE: NULL
  mounted,          \* what "/luadb/" shows: none, romfs or luadb
  fsRet,            \* what luat_fs_init returned, 1 before it ran
  cells,            \* the chip
  believed,         \* the chip as the caller takes it to be from the results
  doubt,            \* cells of calls that reported 0 after the driver began
  got               \* what the last read put in the buffer, by address

flashVars == <<luadb_partition, mounted, fsRet, cells, believed, doubt, got>>

Cells     == 0..Chip - 1
Partition == Address..Address + Size - 1
Contents  == {"erased", "data"}
Nothing   == [c \in {} |-> "erased"]

FlashInit == /\ luadb_partition = FALSE /\ mounted = "none" /\ fsRet = 1
             /\ cells = [c \in Cells |-> "data"]
             /\ believed = cells /\ doubt = {} /\ got = Nothing

\* luat_fs_init: a header names a romfs, anything else is taken for luadb and
\* mapped; a map that fails leaves the partition known but nothing mounted.
FsInit ==
  /\ fsRet = 1
  /\ \/ luadb_partition' = FALSE /\ mounted' = "none" /\ fsRet' = 0
     \/ luadb_partition' = TRUE /\ mounted' \in {"romfs", "luadb"} /\ fsRet' = 0
     \/ luadb_partition' = TRUE /\ mounted' = "none" /\ fsRet' = -1
  /\ UNCHANGED <<cells, believed, doubt, got>>

-----------------------------------------------------------------------------
(* luat_flash_read, luat_flash_write, luat_flash_erase. *)

Wrap(x) == IF x >= Word THEN x - Word ELSE x

\* The length left of a request.
Clamp(addr, len) ==
  IF Wrap(addr + len) > Address + Size THEN Address + Size - addr ELSE len

\* The offset the driver gets, and the cells it then works on; the first form
\* hands it the address.
OffsetNone(addr) == addr
Offset(addr)     == addr - Address
Covered(off, n)  == {c \in Cells : Address + off <= c /\ c < Address + off + n}

Accepted(off, n, grain) == off + n <= Size /\ off % grain = 0 /\ n % grain = 0

Refused(addr) == ~luadb_partition \/ addr < Address \/ addr >= Address + Size

Filled(image, cs, v) == [c \in Cells |-> IF c \in cs THEN v ELSE image[c]]
Asked(addr, n)       == {c \in Cells : addr <= c /\ c < addr + n}

\* No partition, an address outside, or the driver refuses: 0.
FlashRefuses(addr, len, grain) ==
  /\ \/ Refused(addr)
     \/ ~Accepted(Offset(addr), Clamp(addr, len), grain)
  /\ got' = Nothing
  /\ UNCHANGED <<luadb_partition, mounted, fsRet, cells, believed, doubt>>

FlashRead(addr, len) ==
  LET n == Clamp(addr, len)  off == Offset(addr) IN
  /\ ~Refused(addr) /\ Accepted(off, n, 1)
  /\ got' = [c \in Asked(addr, n) |-> cells[Address + off + (c - addr)]]
  /\ UNCHANGED <<luadb_partition, mounted, fsRet, cells, believed, doubt>>

\* A write or an erase of n cells; the driver may stop after k of them.
FlashChanges(addr, len, grain, v) ==
  LET n == Clamp(addr, len)  off == Offset(addr) IN
  /\ ~Refused(addr) /\ Accepted(off, n, grain)
  /\ got' = Nothing
  /\ \/ /\ cells' = Filled(cells, Covered(off, n), v)
        /\ believed' = Filled(believed, Asked(addr, n), v)
        /\ doubt' = doubt \ Asked(addr, n)
     \/ \E k \in 0..n :
          /\ cells' = Filled(cells, Covered(off, k), v)
          /\ doubt' = doubt \cup Asked(addr, k)
          /\ UNCHANGED believed
  /\ UNCHANGED <<luadb_partition, mounted, fsRet>>

FlashNext == \/ FsInit
             \/ \E addr \in 0..Word - 1, len \in 0..Word - 1 :
                  \/ FlashRefuses(addr, len, 1) \/ FlashRefuses(addr, len, Sector)
                  \/ FlashRead(addr, len)
                  \/ FlashChanges(addr, len, 1, "data")
                  \/ FlashChanges(addr, len, Sector, "erased")

FlashSpec == FlashInit /\ [][FlashNext]_flashVars

-----------------------------------------------------------------------------

\* The results of luat_flash_read, luat_flash_write and luat_flash_erase can
\* be relied on: after any sequence of calls, at any address and length, with
\* addr + len wrapping, the chip holds what the results say, what a read gave
\* is what was written, no cell outside the script partition was touched, and
\* only cells inside a request that reported 0 are in doubt.
FlashAsReported ==
  /\ \A c \in Cells \ doubt : cells[c] = believed[c]
  /\ \A c \in DOMAIN got \ doubt : got[c] = believed[c]
  /\ doubt \cup DOMAIN got \subseteq Partition
  /\ \A c \in Cells \ Partition : cells[c] = "data"
=============================================================================
