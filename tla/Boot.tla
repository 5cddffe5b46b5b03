-------------------------------- MODULE Boot --------------------------------
(***************************************************************************)
(* Getting a kernel to run: tools/install_kernel.py puts it into the tail  *)
(* sectors of the disk image, migrating an image whose file system still   *)
(* owns them, and os/boot/loader.c reads it from there, checks it and      *)
(* jumps to it.                                                            *)
(*                                                                         *)
(* The image is the block count in the superblock, the tail of the data    *)
(* bitmap and the tail sectors: sector 0 of the slot for the header, then  *)
(* the payload.  The rest of MiniFS is in module MiniFS.  The tool may be  *)
(* interrupted, a sector read may fail, and one byte of the payload may    *)
(* be damaged after an installation.                                       *)
(***************************************************************************)
EXTENDS Integers, Sequences, SequencesExt, FiniteSetsExt

CONSTANTS SlotSectors,  \* KERNEL_SLOT_SECTORS
          SectorSize,   \* BLOCK_SECTOR_SIZE
          Byte,         \* values of a byte
          Kernels,      \* kernel.bin files: sequences of bytes
          Modulus       \* 2^32, the range of the checksum

KERNEL_SLOT_PAYLOAD_MAX == (SlotSectors - 1) * SectorSize

(* No sum of the bytes of a payload wraps.                                 *)
ASSUME BootAssumption ==
  /\ SlotSectors \in Nat \ {0, 1} /\ SectorSize \in Nat \ {0}
  /\ Byte = 0 .. Max(Byte)
  /\ Kernels \subseteq Seq(Byte)
  /\ KERNEL_SLOT_PAYLOAD_MAX * Max(Byte) < Modulus

VARIABLES disk,       \* disk.img
          tool,       \* install_kernel: the image it has built, by stage
          boot,       \* boot_main: where it is and what it has loaded
          installed,  \* history: << the kernel installed last >>, or << >>
          damaged     \* history: a byte has been changed since

vars == <<disk, tool, boot, installed, damaged>>

Payload == 1 .. SlotSectors - 1
Slot == 0 .. SlotSectors - 1
DEVICE_BLOCK_COUNT == "16384"           \* the two sizes of a MiniFS
MINIFS_BLOCK_COUNT == "15360"

Zeros == [i \in 1 .. SectorSize |-> 0]
Bytes(s) == [magic |-> FALSE, data |-> s]
checksum32(k) == FoldLeft(+, 0, k) % Modulus

Header_ShortSum(k) ==                   \* mutant: the last byte is not summed
  [magic |-> TRUE, data |-> Zeros, size |-> Len(k), entry |-> 0,
   checksum |-> checksum32(Front(k))]

Header(k) == [magic |-> TRUE, data |-> Zeros, size |-> Len(k), entry |-> 0,
              checksum |-> checksum32(k)]

-----------------------------------------------------------------------------
(* install_kernel.py *)

Idle == [at |-> "idle"]

(* migrate_minifs refuses an image whose tail belongs to files.            *)
Migratable_Always(d) == TRUE            \* mutant: the bitmap is not looked at

Migratable(d) == d.blocks = MINIFS_BLOCK_COUNT \/ d.used = {}

Migrated(d) ==
  IF d.blocks = MINIFS_BLOCK_COUNT THEN d
  ELSE [d EXCEPT !.blocks = MINIFS_BLOCK_COUNT, !.used = Slot]

(* The slot is cleared, then header and kernel are put in.                 *)
Image(d, k) ==
  LET byte(s, i) == (s - 1) * SectorSize + i
      sector(s)  == [i \in 1 .. SectorSize |->
                       IF byte(s, i) <= Len(k) THEN k[byte(s, i)] ELSE 0]
  IN  [Migrated(d) EXCEPT
         !.slot = [s \in Slot |-> IF s = 0 THEN Header(k) ELSE Bytes(sector(s))]]

Accepts(k) == k # <<>> /\ Len(k) <= (SlotSectors - 1) * SectorSize

(* The tool reads the image and builds the new one, or gives up.           *)
Build(k) ==
  /\ tool = Idle /\ boot.at = "off"
  /\ Accepts(k) /\ Migratable(disk)
  /\ tool' = [at |-> "built", image |-> Image(disk, k), kernel |-> k]
  /\ UNCHANGED <<disk, boot, installed, damaged>>

(* temporary.replace: the written file takes the place of the image.       *)
Replace ==
  /\ tool.at = "built"
  /\ disk' = tool.image
  /\ installed' = <<tool.kernel>> /\ damaged' = FALSE
  /\ tool' = Idle
  /\ UNCHANGED boot

(* It is interrupted, perhaps while the temporary file is half written.    *)
Interrupted ==
  /\ tool.at = "built"
  /\ tool' = Idle
  /\ UNCHANGED <<disk, boot, installed, damaged>>

(* One byte of the kernel on the disk changes.                             *)
Damage(s, i, b) ==
  /\ boot.at = "off" /\ tool = Idle
  /\ installed # <<>> /\ ~damaged
  /\ (s - 1) * SectorSize + i <= Len(installed[1])
  /\ disk.slot[s].data[i] # b
  /\ disk' = [disk EXCEPT !.slot[s].data[i] = b]
  /\ damaged' = TRUE
  /\ UNCHANGED <<tool, boot, installed>>

-----------------------------------------------------------------------------
(* loader.c *)

Off == [at |-> "off"]
Failed(why) == [at |-> "failed", why |-> why]

PowerOn ==
  /\ boot.at \in {"off", "failed", "jumped"} /\ tool = Idle
  /\ boot' = IF boot.at = "off" THEN [at |-> "header"] ELSE Off
  /\ UNCHANGED <<disk, tool, installed, damaged>>

(* block_read and the checks of the header                                 *)
ReadHeader(ok) ==
  LET h == disk.slot[0] IN
  /\ boot.at = "header"
  /\ boot' = IF ~ok THEN Failed("read")
             ELSE IF ~h.magic THEN Failed("magic")
             ELSE IF h.size = 0 \/ h.size > KERNEL_SLOT_PAYLOAD_MAX THEN Failed("size")
             ELSE IF h.entry >= h.size THEN Failed("entry")
             ELSE [at |-> "load", size |-> h.size, expected |-> h.checksum,
                   sector |-> 1, sum |-> 0, memory |-> <<>>]
  /\ UNCHANGED <<disk, tool, installed, damaged>>

(* One turn of the loop: a sector, or what is left of the kernel in it     *)
ReadSector(ok) ==
  LET chunk == Min({boot.size - Len(boot.memory), SectorSize})
      bytes == SubSeq(disk.slot[boot.sector].data, 1, chunk)
  IN  /\ boot.at = "load" /\ Len(boot.memory) < boot.size
      /\ boot' = IF ~ok THEN Failed("read")
                 ELSE [boot EXCEPT !.sector = @ + 1, !.memory = @ \o bytes,
                                   !.sum = FoldLeft(+, @, bytes) % Modulus]
      /\ UNCHANGED <<disk, tool, installed, damaged>>

Jump_Unchecked ==                       \* mutant: the checksum is not compared
  /\ boot.at = "load" /\ Len(boot.memory) = boot.size
  /\ boot' = [boot EXCEPT !.at = "jumped"]
  /\ UNCHANGED <<disk, tool, installed, damaged>>

Jump ==
  /\ boot.at = "load" /\ Len(boot.memory) = boot.size
  /\ boot' = IF boot.sum # boot.expected THEN Failed("checksum")
             ELSE [boot EXCEPT !.at = "jumped"]
  /\ UNCHANGED <<disk, tool, installed, damaged>>

-----------------------------------------------------------------------------
(* An image of mkfs_minifs.py, with the tail reserved, or one from before  *)
(* there was a kernel slot, whose tail sectors files may use.              *)
Init ==
  /\ \E old \in BOOLEAN, files \in SUBSET Slot, b \in Byte :
       disk = [blocks |-> IF old THEN DEVICE_BLOCK_COUNT ELSE MINIFS_BLOCK_COUNT,
               used   |-> IF old THEN files ELSE Slot,
               slot   |-> [s \in Slot |-> IF old /\ s \in files
                             THEN Bytes([i \in 1 .. SectorSize |-> b]) ELSE Bytes(Zeros)]]
  /\ tool = Idle /\ boot = Off
  /\ installed = <<>> /\ damaged = FALSE

Next ==
  \/ \E k \in Kernels : Build(k)
  \/ Replace
  \/ Interrupted
  \/ \E s \in Payload, i \in 1 .. SectorSize, b \in Byte : Damage(s, i, b)
  \/ PowerOn
  \/ \E ok \in BOOLEAN : ReadHeader(ok) \/ ReadSector(ok)
  \/ Jump

Spec == Init /\ [][Next]_vars

-----------------------------------------------------------------------------
(* Properties *)

TypeOK ==
  /\ disk.blocks \in {DEVICE_BLOCK_COUNT, MINIFS_BLOCK_COUNT} /\ disk.used \subseteq Slot
  /\ DOMAIN disk.slot = Slot
  /\ \A s \in Slot : disk.slot[s].data \in [1 .. SectorSize -> Byte]
  /\ boot.at = "load" => boot.sector \in 1 .. SlotSectors /\ boot.sum < Modulus
  /\ installed # <<>> => Len(installed[1]) \in 1 .. KERNEL_SLOT_PAYLOAD_MAX

(* The loader jumps only into the whole kernel that was installed last: a  *)
(* partial copy or a kernel with one damaged byte is refused               *)
(* (docs/01_design/bootloader.md:136).                                     *)
JumpsToWholeKernel == boot.at = "jumped" => installed = <<boot.memory>>

(* The loader accepts what the tool writes: it fails only if a sector      *)
(* cannot be read, the kernel is damaged or none was installed.  The       *)
(* limits, the header and the two checksums, in Python and in C, agree.    *)
InstalledKernelBoots ==
  boot.at = "failed" => boot.why = "read" \/ damaged \/ installed = <<>>

(* Installing never touches the sectors of files: while the tail belongs   *)
(* to a file of an old image its sectors keep their contents.              *)
FilesKept ==
  [][disk.blocks = DEVICE_BLOCK_COUNT =>
       \A s \in disk.used : disk.slot'[s] = disk.slot[s]]_vars
=============================================================================
