------------------------------ MODULE CardFile ------------------------------
(***************************************************************************)
(* The wave file between the player and a card that fails: wavPlayer.c on  *)
(* FatFs on the driver of SDCard.  The calls are synchronous: `at` is the  *)
(* place the program has reached in ram_wav_update or below, and a request *)
(* to the driver is over when sdpc is "idle" again.  The refill interrupt, *)
(* which is what calls ram_wav_update, is in WavePlayback, where the card  *)
(* never fails.                                                            *)
(*                                                                         *)
(* Contents are byte positions on the card, in sectors of SS bytes.  The   *)
(* file lies in one piece from FirstSector on; its directory entry is in   *)
(* the last of DirSectors, so that f_open reads them all.                  *)
(***************************************************************************)
EXTENDS SDCard

CONSTANTS
  SS,           \* bytes in a sector (FF_MAX_SS, 512)
  ClusterSize,  \* sectors in a cluster (fs->csize)
  BootSector, FatSector, DirSectors, FirstSector,   \* where things are
  FileSize,     \* bytes in the file (objsize)
  DataOffset,   \* 44 .. 80: first byte of the samples (waveHeader.dataOffset)
  DataLength,   \* bytes of samples (waveHeader.dataLength)
  Format        \* "8bit", "mono" or "stereo"

\* fmt chunks of 16, 18 or 40 bytes, with or without a fact chunk
HeaderLengths == {44, 46, 68, 56, 58, 80}

ASSUME CardFileAssumption ==
  /\ SS \in Nat \ {0} /\ ClusterSize \in Nat \ {0}
  /\ BootSector \in Nat /\ FatSector \in Nat /\ FirstSector \in Nat
  /\ DirSectors \in Seq(Nat) /\ DirSectors # <<>>
  /\ FileSize \in Nat /\ DataOffset \in Nat /\ DataLength \in Nat
  /\ DataOffset % SS # 0        \* as for every header:
  /\ \A n \in HeaderLengths : n % 512 # 0
  /\ Format \in {"8bit", "mono", "stereo"}

VARIABLES
  at,
  \* FatFs
  mounted,      \* fs->fs_type # 0
  window,       \* fs->win: [sect, data]
  fp,           \* the player's FIL: [valid, err, fptr, sect, data]
  caller,       \* who called f_open or f_lseek: "header", "play", "rewind"
  entry,        \* next directory sector of follow_path
  \* wavPlayer.c
  isFileValid, isOpen, endOfFile,
  call,         \* number of ramUpdate's current f_read
  btr, rbuff,   \* f_read: bytes to go, next byte of the buffer
  buffer,       \* ramUpdate's buffer on the stack
  start,        \* where in the file the buffer begins (history)
  half          \* what the halves were last filled with, and from where

fatVars    == <<mounted, window, fp, caller, entry>>
playerVars == <<isFileValid, isOpen, endOfFile>>
bufVars    == <<call, btr, rbuff, buffer, half, start>>
vars       == <<sdVars, at, fatVars, playerVars, bufVars>>

NoSector == Nothing

ReadSizeAtOnce == 4 * SS              \* mutant: the stereo buffer in one call

\* ramUpdate reads so many bytes, in one call of f_read or two.
ReadSize  == IF Format = "8bit" THEN SS ELSE 2 * SS
ReadCount == IF Format = "stereo" THEN 2 ELSE 1
Buffer    == 0 .. ReadSize * ReadCount - 1

SectorAt(fptr) == FirstSector + fptr \div SS     \* clst2sect + csect
ByteOf(sector, n) == IF sector \in Nat THEN sector * SS + n ELSE Garbage
Least(a, b) == IF a < b THEN a ELSE b

FileInit ==
  /\ SDInit /\ at = "idle"
  /\ mounted = FALSE /\ window = [sect |-> NoSector, data |-> Garbage]
  /\ fp = [valid |-> FALSE, err |-> FALSE, fptr |-> 0, sect |-> NoSector,
           data |-> Garbage]
  /\ caller = "header" /\ entry = 1
  /\ isFileValid = FALSE /\ isOpen = FALSE /\ endOfFile = FALSE
  /\ call = 1 /\ btr = 0 /\ rbuff = 0 /\ start = 0
  /\ buffer = [i \in Buffer |-> Garbage] /\ half = <<>>

-----------------------------------------------------------------------------
(* FatFs: requests to the card *)

Returned(label) == at = label /\ sdpc = "idle"

\* disk_read(sector, count); the program goes on at `label`.
DiskRead(sector, count, label) == ReadCommand(sector, count) /\ at' = label

\* move_window(sector): nothing to do when the window holds it.
MoveWindow(sector, label) ==
  IF window.sect = sector
  THEN at' = label /\ UNCHANGED <<window, sdVars>>
  ELSE /\ DiskRead(sector, 1, label)
       /\ window' = [window EXCEPT !.sect = NoSector]

\* The window after it
Moved(sector) ==
  CASE window.sect = sector -> window
    [] reply = <<>>         -> window
    [] OTHER                -> [sect |-> sector, data |-> reply[1]]

\* The window holds the sector's contents.
Finds(sector) == Moved(sector).sect = sector /\ Moved(sector).data = sector

\* validate(&fp)
FpValid == fp.valid /\ mounted /\ sdStatus = 0

-----------------------------------------------------------------------------
(* f_open: find_volume, follow_path *)

\* f_open returns to the player.
Opened(ok) ==
  /\ IF caller = "header"
     THEN /\ at' = IF ok THEN "header" ELSE "noHeader"
          /\ UNCHANGED fp
     ELSE /\ at' = "seek"
          /\ fp' = IF ok THEN [valid |-> TRUE, err |-> FALSE, fptr |-> 0,
                               sect |-> NoSector, data |-> fp.data]
                         ELSE [fp EXCEPT !.valid = FALSE]
  /\ UNCHANGED <<caller, isFileValid, isOpen, endOfFile, bufVars>>

\* find_volume: mounted and initialized, or disk_initialize
FindVolume ==
  /\ at = "open" /\ entry' = 1
  /\ IF mounted /\ sdStatus = 0
     THEN at' = "path" /\ UNCHANGED <<mounted, sdVars>>
     ELSE at' = "initialize" /\ mounted' = FALSE /\ StartInit
  /\ UNCHANGED <<window, fp, caller, playerVars, bufVars>>

\* disk_initialize failed, or check_fs reads the boot sector.
CheckFs ==
  /\ Returned("initialize")
  /\ \/ /\ sdStatus # 0 /\ Opened(FALSE)
        /\ UNCHANGED <<window, sdVars>>
     \/ /\ sdStatus = 0 /\ DiskRead(BootSector, 1, "boot")
        /\ window' = [window EXCEPT !.sect = NoSector]
        /\ UNCHANGED <<fp, caller, playerVars, bufVars>>
  /\ UNCHANGED <<mounted, entry>>

\* fs_type is set when the boot sector is one.
Mount ==
  /\ Returned("boot") /\ window' = Moved(BootSector)
  /\ \/ /\ ~Finds(BootSector) /\ Opened(FALSE) /\ UNCHANGED mounted
     \/ /\ Finds(BootSector) /\ mounted' = TRUE /\ at' = "path"
        /\ UNCHANGED <<fp, caller, playerVars, bufVars>>
  /\ UNCHANGED <<entry, sdVars>>

\* follow_path, dir_find: one directory sector after the other
FollowPath ==
  /\ at = "path" /\ MoveWindow(DirSectors[entry], "entry")
  /\ UNCHANGED <<mounted, fp, caller, entry, playerVars, bufVars>>

FindEntry ==
  /\ Returned("entry") /\ window' = Moved(DirSectors[entry])
  /\ \/ ~Finds(DirSectors[entry]) /\ Opened(FALSE) /\ UNCHANGED entry
     \/ /\ Finds(DirSectors[entry]) /\ entry < Len(DirSectors)
        /\ entry' = entry + 1 /\ at' = "path"
        /\ UNCHANGED <<fp, caller, playerVars, bufVars>>
     \/ /\ Finds(DirSectors[entry]) /\ entry = Len(DirSectors)
        /\ Opened(TRUE) /\ UNCHANGED entry
  /\ UNCHANGED <<mounted, sdVars>>

Open == FindVolume \/ CheckFs \/ Mount \/ FollowPath \/ FindEntry

-----------------------------------------------------------------------------
(* wave_ReadHeader *)

\* The first f_read brings the sector with all of the header.
ReadHeader ==
  /\ at = "header" /\ DiskRead(FirstSector, 1, "headerRead")
  /\ UNCHANGED <<fatVars, playerVars, bufVars>>

\* The fields match: f_open(&fp).
HeaderRead ==
  /\ Returned("headerRead") /\ reply = <<FirstSector>>
  /\ at' = "open" /\ caller' = "play"
  /\ UNCHANGED <<mounted, window, fp, entry, playerVars, bufVars, sdVars>>

\* No header: ram_wav_update gives the file up.
NoHeader ==
  /\ \/ at = "noHeader"
     \/ Returned("headerRead") /\ reply # <<FirstSector>>
  /\ endOfFile' = FALSE /\ isFileValid' = FALSE /\ isOpen' = FALSE
  /\ at' = "idle"
  /\ UNCHANGED <<fatVars, bufVars, sdVars>>

-----------------------------------------------------------------------------
(* f_lseek(&fp, dataOffset); its result is ignored by both callers. *)

\* After f_open the file counts as open, whatever f_open said; after the last
\* chunk there is nothing more to do.
SeekReturns ==
  /\ IF caller = "play" THEN at' = "fill" /\ isOpen' = TRUE /\ UNCHANGED endOfFile
                        ELSE at' = "idle" /\ endOfFile' = FALSE /\ UNCHANGED isOpen
  /\ UNCHANGED <<mounted, window, caller, entry, isFileValid, bufVars>>

FirstPlace == Least(DataOffset, FileSize)

\* Nothing to seek, or the sector is in fp's buffer, or it is read.
Seek ==
  /\ at = "seek"
  /\ \/ (~FpValid \/ fp.err) /\ SeekReturns /\ UNCHANGED <<fp, sdVars>>
     \/ /\ FpValid /\ ~fp.err
        /\ fp' = [fp EXCEPT !.fptr = FirstPlace]
        /\ \/ /\ fp.sect = SectorAt(fp'.fptr)
              /\ SeekReturns /\ UNCHANGED sdVars
           \/ /\ fp.sect # SectorAt(fp'.fptr)
              /\ DiskRead(SectorAt(fp'.fptr), 1, "seekRead")
              /\ UNCHANGED <<mounted, window, caller, entry, playerVars, bufVars>>

\* disk_read(fp->buf) returned: an error stays with the file (ABORT).
Buffered == IF reply = <<>> THEN [fp EXCEPT !.err = TRUE]
            ELSE [fp EXCEPT !.sect = SectorAt(fp.fptr), !.data = reply[1]]

SeekRead ==
  /\ Returned("seekRead") /\ fp' = Buffered /\ SeekReturns /\ UNCHANGED sdVars

-----------------------------------------------------------------------------
(* ramUpdate: f_read, once or twice, into a buffer nobody cleared *)

Fill ==
  /\ at = "fill" /\ at' = "call" /\ call' = 1
  /\ buffer' = [i \in Buffer |-> Garbage] /\ start' = fp.fptr
  /\ UNCHANGED <<btr, rbuff, half, fatVars, playerVars, sdVars>>

\* f_read returns, its result and the number of bytes are ignored.
ReadReturns ==
  /\ IF call < ReadCount THEN call' = call + 1 /\ at' = "call"
                         ELSE at' = "store" /\ UNCHANGED call
  /\ UNCHANGED <<half, start, isFileValid, isOpen, endOfFile, mounted, caller, entry>>

\* f_read: a file in error is not read; the rest of the file may be shorter.
Read ==
  /\ at = "call"
  /\ IF FpValid /\ ~fp.err
     THEN /\ at' = "read" /\ btr' = Least(ReadSize, FileSize - fp.fptr)
          /\ rbuff' = ReadSize * (call - 1)
          /\ UNCHANGED <<call, half, start, playerVars, mounted, caller, entry>>
     ELSE ReadReturns /\ UNCHANGED <<btr, rbuff>>
  /\ UNCHANGED <<window, fp, buffer, sdVars>>

\* `count` bytes go to the caller's buffer.
Take(count, bytes) ==
  /\ buffer' = [i \in Buffer |->
       IF i \in rbuff .. rbuff + count - 1 THEN bytes[i - rbuff] ELSE buffer[i]]
  /\ rbuff' = rbuff + count /\ btr' = btr - count
  /\ fp' = [fp EXCEPT !.fptr = @ + count]

\* The part of the sector in fp's buffer that is asked for
Copy ==
  LET offset == fp.fptr % SS
  IN  /\ Take(Least(SS - offset, btr),
              [i \in 0 .. SS - 1 |-> ByteOf(fp.data, offset + i)])
      /\ at' = "read"
      /\ UNCHANGED <<call, half, start, playerVars, mounted, window, caller, entry, sdVars>>

\* The loop: done, within a sector, at the first of a cluster or of a sector
ReadLoop ==
  /\ at = "read"
  /\ \/ /\ btr = 0 /\ ReadReturns
        /\ UNCHANGED <<window, fp, btr, rbuff, buffer, sdVars>>
     \/ btr # 0 /\ fp.fptr % SS # 0 /\ Copy
     \/ /\ btr # 0 /\ fp.fptr % SS = 0
        /\ IF fp.fptr # 0 /\ (fp.fptr \div SS) % ClusterSize = 0
           THEN MoveWindow(FatSector, "fat")
           ELSE at' = "sector" /\ UNCHANGED <<window, sdVars>>
        /\ UNCHANGED <<mounted, fp, caller, entry, playerVars, bufVars>>

\* get_fat: the cluster chain ends in an error unless the FAT was read.
FollowChain ==
  /\ Returned("fat") /\ window' = Moved(FatSector)
  /\ IF Finds(FatSector)
     THEN /\ at' = "sector"
          /\ UNCHANGED <<fp, call, half, start, playerVars, mounted, caller, entry>>
     ELSE fp' = [fp EXCEPT !.err = TRUE] /\ ReadReturns
  /\ UNCHANGED <<btr, rbuff, buffer, sdVars>>

\* Sectors f_read asks for at once: whole ones, within the cluster
WholeSectors ==
  Least(btr \div SS, ClusterSize - ((fp.fptr \div SS) % ClusterSize))

\* Whole sectors go straight to the caller's buffer, a part of one through fp's.
ReadSector ==
  /\ at = "sector"
  /\ \/ /\ WholeSectors > 0
        /\ DiskRead(SectorAt(fp.fptr), WholeSectors, "direct")
        /\ UNCHANGED <<fatVars, playerVars, bufVars>>
     \/ /\ WholeSectors = 0 /\ fp.sect # SectorAt(fp.fptr)
        /\ DiskRead(SectorAt(fp.fptr), 1, "buffered")
        /\ UNCHANGED <<fatVars, playerVars, bufVars>>
     \/ WholeSectors = 0 /\ fp.sect = SectorAt(fp.fptr) /\ Copy

DirectRead ==
  /\ Returned("direct")
  /\ IF reply = <<>>
     THEN /\ fp' = [fp EXCEPT !.err = TRUE] /\ ReadReturns
          /\ UNCHANGED <<btr, rbuff, buffer>>
     ELSE /\ Take(SS * Len(reply), [i \in 0 .. SS * Len(reply) - 1 |->
                                       ByteOf(reply[i \div SS + 1], i % SS)])
          /\ at' = "read"
          /\ UNCHANGED <<call, half, start, playerVars, mounted, caller, entry>>
  /\ UNCHANGED <<window, sdVars>>

BufferRead ==
  /\ Returned("buffered") /\ fp' = Buffered
  /\ IF reply = <<>>
     THEN ReadReturns
     ELSE /\ at' = "sector"
          /\ UNCHANGED <<call, half, start, playerVars, mounted, caller, entry>>
  /\ UNCHANGED <<window, btr, rbuff, buffer, sdVars>>

IsOverBehind == fp.fptr > DataOffset + DataLength      \* mutant: a byte too late
IsOver       == fp.fptr >= DataOffset + DataLength

\* The samples go to the half; f_tell says whether the file is over.
Store ==
  /\ at = "store" /\ at' = "finish" /\ half' = [from |-> start, bytes |-> buffer]
  /\ endOfFile' = (endOfFile \/ IsOver)
  /\ UNCHANGED <<call, btr, rbuff, buffer, start, isFileValid, isOpen, fatVars, sdVars>>

RamUpdate ==
  \/ Fill \/ Read \/ ReadLoop \/ FollowChain \/ ReadSector \/ DirectRead
  \/ BufferRead \/ Store

-----------------------------------------------------------------------------
(* ram_wav_update, and the SD page *)

Update ==
  /\ at = "idle" /\ sdpc = "idle"
  /\ at' = CASE ~isFileValid          -> "finish"
             [] isFileValid /\ isOpen -> "fill"
             [] OTHER                 -> "open"
  /\ caller' = "header"
  /\ UNCHANGED <<mounted, window, fp, entry, playerVars, bufVars, sdVars>>

\* mutant: isOpen stays when the file is closed
FinishForgetsOpen ==
  /\ at = "finish"
  /\ \/ ~endOfFile /\ at' = "idle" /\ UNCHANGED <<fp, caller, half>>
     \/ /\ endOfFile /\ isOpen /\ ~isFileValid
        /\ half' = <<>> /\ fp' = [fp EXCEPT !.valid = @ /\ ~FpValid]
        /\ at' = "idle" /\ UNCHANGED caller
     \/ /\ endOfFile /\ ~(isOpen /\ ~isFileValid)
        /\ at' = "seek" /\ caller' = "rewind" /\ UNCHANGED <<fp, half>>
  /\ UNCHANGED <<mounted, window, entry, isFileValid, isOpen, endOfFile, call, btr, rbuff,
                 buffer, start, sdVars>>

\* mutant: the rewind comes first
FinishRewinds ==
  /\ at = "finish"
  /\ \/ ~endOfFile /\ at' = "idle" /\ UNCHANGED caller
     \/ endOfFile /\ at' = "seek" /\ caller' = "rewind"
  /\ UNCHANGED <<fp, half, mounted, window, entry, isFileValid, isOpen, endOfFile, call,
                 btr, rbuff, buffer, start, sdVars>>

\* At the end of the file: close it when it was stopped, else start again.
Finish ==
  /\ at = "finish"
  /\ \/ /\ ~endOfFile /\ at' = "idle"
        /\ UNCHANGED <<fp, caller, isOpen, half>>
     \/ /\ endOfFile /\ isOpen /\ ~isFileValid
        /\ half' = <<>>             \* 512 zeros
        /\ fp' = [fp EXCEPT !.valid = @ /\ ~FpValid]
        /\ isOpen' = FALSE /\ at' = "idle" /\ UNCHANGED caller
     \/ /\ endOfFile /\ ~(isOpen /\ ~isFileValid)
        /\ at' = "seek" /\ caller' = "rewind" /\ UNCHANGED <<fp, isOpen, half>>
  /\ UNCHANGED <<mounted, window, entry, isFileValid, endOfFile, call, btr, rbuff, buffer,
                 start, sdVars>>

\* OK on a file (processOkButton) and LEFT (btn_display)
LoadFile ==
  /\ at = "idle" /\ isFileValid' = TRUE /\ endOfFile' = FALSE
  /\ UNCHANGED <<isOpen, at, fatVars, bufVars, sdVars>>

StopFile ==
  /\ at = "idle" /\ isFileValid' = FALSE /\ endOfFile' = TRUE
  /\ UNCHANGED <<isOpen, at, fatVars, bufVars, sdVars>>

-----------------------------------------------------------------------------
Card   == (Remove \/ Insert) /\ UNCHANGED <<at, fatVars, playerVars, bufVars>>
Driver == SDStep /\ UNCHANGED <<at, fatVars, playerVars, bufVars>>

Player ==
  \/ Open \/ ReadHeader \/ HeaderRead \/ NoHeader \/ Seek \/ SeekRead
  \/ RamUpdate \/ Finish

FileNext == Card \/ Driver \/ Player \/ Update \/ LoadFile \/ StopFile

\* The program is one sequential call and the refills never cease.
FileSpec ==
  /\ FileInit /\ [][FileNext]_vars
  /\ WF_vars(Driver \/ Player) /\ WF_vars(Update)

-----------------------------------------------------------------------------
(* Properties *)

Places == {"idle", "open", "initialize", "boot", "path", "entry", "header",
           "noHeader", "headerRead", "seek", "seekRead", "fill", "call", "read",
           "fat", "sector", "direct", "buffered", "store", "finish"}

\* The types, and that the driver works only for a request of FatFs.
FileTypeOK ==
  /\ SDTypeOK /\ at \in Places
  /\ mounted \in BOOLEAN
  /\ window \in [sect : Nat \cup {NoSector}, data : Nat \cup {Garbage}]
  /\ fp \in [valid : BOOLEAN, err : BOOLEAN, fptr : Nat,
             sect : Nat \cup {NoSector}, data : Nat \cup {Garbage}]
  /\ caller \in {"header", "play", "rewind"} /\ entry \in 1 .. Len(DirSectors)
  /\ isFileValid \in BOOLEAN /\ isOpen \in BOOLEAN /\ endOfFile \in BOOLEAN
  /\ call \in 1 .. ReadCount /\ btr \in Nat /\ rbuff \in Nat /\ start \in Nat
  /\ buffer \in [Buffer -> Nat \cup {Garbage}]
  /\ half \in {<<>>} \cup [from : Nat, bytes : [Buffer -> Nat \cup {Garbage}]]
  /\ sdpc # "idle" => at \in {"initialize", "boot", "entry", "headerRead",
                              "seekRead", "fat", "direct", "buffered"}

\* SD_ReadMultipleBlocks, which does not wait for the tokens after the first
\* (SD.c:407), is never called while a file plays: no header is a multiple of
\* a sector long, so 1024 bytes hold at most one whole sector.  The 2048 bytes
\* of stereo are read in two calls (wavPlayer.c:204).
OneSectorAtATime == sdpc \in {"token", "data"} => asked[2] = 1

\* The file from place p on - and, behind the end of the file, what was on the
\* stack, since the number of bytes read is ignored (wavPlayer.c:179)
After(p)  == Least(p + ReadSize * ReadCount, FileSize)
Stored(p) == [i \in Buffer |-> IF p + i < FileSize THEN FirstSector * SS + p + i
                                                  ELSE Garbage]

\* Where the next chunk is, between two calls of ramUpdate and during one
Refilling == {"call", "read", "fat", "sector", "direct", "buffered", "store"}
Place ==
  CASE ~trusted \/ ~isOpen \/ (isFileValid /\ endOfFile) -> FirstPlace
    [] OTHER -> IF at \in Refilling THEN start ELSE fp.fptr

\* The player keeps the promise of a stream: as long as the card can be trusted,
\* every half gets the bytes that follow those of the half before, wherever
\* sectors, clusters and calls of f_read begin, and those of the header's end
\* behind the last; and no half is filled from a file that was stopped or not
\* opened, whatever the card does (wavPlayer.c:243-299).
Stream == INSTANCE WaveStream WITH
  wanted <- isFileValid, open <- isOpen, place <- Place, First <- FirstPlace,
  End <- DataOffset + DataLength, Bytes <- Stored
ImplementsStream == Stream!Spec

\* The player takes no file for open that FatFs can not read from
\* (wavPlayer.c:260) - unless the card was late or taken out.
OpenIsReadable ==
  isOpen /\ trusted => FpValid /\ ~fp.err

\* Whatever the card does, ram_wav_update returns.
UpdateReturns == at # "idle" ~> at = "idle"

\* Whatever the card does, LEFT closes the file and silences the half.
StopCloses ==
  isOpen /\ ~isFileValid /\ endOfFile ~> isFileValid \/ (~isOpen /\ half = <<>>)
=============================================================================
