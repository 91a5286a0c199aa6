--------------------------- MODULE CardFileProofs ---------------------------
(***************************************************************************)
(* What the player gets from a card that fails: that the types hold, that  *)
(* FatFs asks for one sector at a time while a file plays, that an open    *)
(* file can be read, and that the player is the stream of WaveStream - for *)
(* every place of the file on the card, every length, every sector and     *)
(* cluster size and every format.  Then that each update comes nearer to   *)
(* its return with every step, and that FatFs uses the driver as SDCard    *)
(* says it is used.                                                        *)
(***************************************************************************)
EXTENDS CardFile, SDCardProofs

-----------------------------------------------------------------------------
(* The invariant *)

OpenPlaces == {"open", "initialize", "boot", "path", "entry", "header", "noHeader",
               "headerRead"}
FillPlaces == {"fill", "call", "read", "fat", "sector", "direct", "buffered", "store"}
LoopPlaces == {"read", "fat", "sector", "direct", "buffered"}
ReadPlaces == {"boot", "entry", "headerRead", "seekRead", "fat", "direct", "buffered"}

\* Where the calls are, and what FatFs has found out by then
Control ==
  /\ at \in OpenPlaces => ~isOpen
  /\ at \in FillPlaces => isOpen
  /\ half # <<>> => isOpen
  /\ sdpc \in Initializing => at = "initialize"
  /\ sdpc \in {"token", "data"} => at \in ReadPlaces
  /\ at \in {"path", "entry", "header", "headerRead"} => mounted /\ sdStatus = 0
  /\ at = "boot" => sdStatus = 0
  /\ at \in {"initialize", "boot"} => ~mounted
  /\ at = "open" /\ caller # "header" => mounted /\ sdStatus = 0
  /\ at \in {"initialize", "boot", "header", "headerRead"} => caller = "header"
  /\ at \in LoopPlaces => FpValid /\ ~fp.err

\* The sector of the request, unless the window had it
Wanted ==
  CASE at = "boot"       -> BootSector
    [] at = "entry"      -> DirSectors[entry]
    [] at = "headerRead" -> FirstSector
    [] at = "fat"        -> FatSector
    [] OTHER             -> SectorAt(fp.fptr)

InWindow == at \in {"entry", "fat"} /\ window.sect = Wanted

\* What the driver is asked for, and what it answered
Requests ==
  /\ at \in ReadPlaces /\ ~InWindow =>
       /\ asked[1] = Wanted
       /\ asked[2] = IF at = "direct" THEN WholeSectors ELSE 1
       /\ sdpc = "idle" => IF reply = <<>> THEN ~trusted
                           ELSE /\ Len(reply) = asked[2]
                                /\ trusted => reply[1] = Wanted
  /\ InWindow => sdpc = "idle"
  /\ at = "boot" => window.sect = NoSector

\* The player has a file, or is about to.
Playing == isOpen \/ (at \in {"seek", "seekRead"} /\ caller = "play")

\* FatFs' buffers hold the sectors they are said to hold.
Buffers ==
  trusted =>
    /\ mounted /\ window.sect # NoSector => window.data = window.sect
    /\ Playing =>
         /\ FpValid /\ ~fp.err
         /\ fp.sect # NoSector => fp.data = fp.sect
         /\ at # "seekRead" /\ fp.fptr % SS # 0 => fp.sect = SectorAt(fp.fptr)

\* The file is over, or the position lies as far in a sector as the samples'.
Aligned(x) == x <= FileSize /\ (x = FileSize \/ x % SS = DataOffset % SS)

\* Between two calls of f_read the position is aligned, and each call ends so.
Positions ==
  /\ at \in LoopPlaces =>
       /\ Aligned(fp.fptr + btr) /\ btr <= 2 * SS
       /\ fp.fptr % SS = 0 => btr < 2 * SS
  /\ at \in {"fat", "sector", "direct", "buffered"} => btr # 0 /\ fp.fptr % SS = 0
  /\ at = "direct" => WholeSectors = 1
  /\ (isOpen \/ (at = "seekRead" /\ caller = "play")) /\ at \notin LoopPlaces /\ FpValid /\ ~fp.err
       => Aligned(fp.fptr)

\* After k calls of f_read the position is e, unless the file ended before.
Got(k, e) ==
  e = start + ReadSize * k \/ (e = FileSize /\ e <= start + ReadSize * k)

\* The buffer holds what was read since the first call began.
Contents ==
  trusted =>
    /\ at \in FillPlaces \ {"fill"} =>
         /\ start <= fp.fptr
         /\ \A i \in Buffer :
              buffer[i] = IF i < fp.fptr - start THEN FirstSector * SS + start + i
                          ELSE Garbage
    /\ at \in LoopPlaces => /\ Got(call, fp.fptr + btr)
                            /\ btr # 0 => rbuff = fp.fptr - start
    /\ at = "call"  => Got(call - 1, fp.fptr)
    /\ at = "store" => Got(ReadCount, fp.fptr)

FileInv ==
  /\ FileTypeOK /\ HonestCard /\ InitializedCard
  /\ Control /\ Requests /\ Buffers /\ Positions /\ Contents

-----------------------------------------------------------------------------
(* Sizes *)

LEMMA SizesNat ==
  /\ SS \in Nat /\ SS > 0 /\ ClusterSize \in Nat /\ ClusterSize > 0
  /\ BootSector \in Nat /\ FatSector \in Nat /\ FirstSector \in Nat
  /\ FileSize \in Nat /\ DataOffset \in Nat /\ DataLength \in Nat
  /\ DataOffset % SS # 0
<1>1. SS \in Nat \ {0} /\ ClusterSize \in Nat \ {0}
  BY CardFileAssumption
<1> QED
  BY <1>1, CardFileAssumption

LEMMA ReadSizes ==
  /\ ReadSize \in Nat /\ (ReadSize = SS \/ ReadSize = 2 * SS)
  /\ ReadCount \in 1 .. 2
  BY SizesNat DEF ReadSize, ReadCount

LEMMA DirectorySectors ==
  /\ Len(DirSectors) \in Nat /\ Len(DirSectors) > 0
  /\ \A i \in 1 .. Len(DirSectors) : DirSectors[i] \in Nat
  BY CardFileAssumption

LEMMA LeastNat ==
  ASSUME NEW a \in Nat, NEW b \in Nat
  PROVE  Least(a, b) \in Nat /\ Least(a, b) <= a /\ Least(a, b) <= b
         /\ (Least(a, b) = a \/ Least(a, b) = b)
  BY DEF Least

\* A position is in one sector, at one place.
LEMMA Position ==
  ASSUME NEW x \in Nat
  PROVE  /\ x \div SS \in Nat /\ x % SS \in Nat /\ x % SS < SS
         /\ x = (x \div SS) * SS + (x % SS) /\ SectorAt(x) \in Nat
<1>1. /\ x \div SS \in Nat /\ x % SS \in Nat /\ x % SS < SS
      /\ x % SS = x - (x \div SS) * SS
  BY SizesNat
<1>2. (x \div SS) * SS \in Nat
  BY <1>1, SizesNat
<1>3. x = (x \div SS) * SS + (x % SS)
  BY <1>1, <1>2
<1> QED
  BY <1>1, <1>3, SizesNat DEF SectorAt

LEMMA WholeSectorsType ==
  ASSUME NEW x \in Nat, NEW y \in Nat
  PROVE  /\ Least(y \div SS, ClusterSize - ((x \div SS) % ClusterSize)) \in Nat
         /\ Least(y \div SS, ClusterSize - ((x \div SS) % ClusterSize)) <= y \div SS
         /\ Least(y \div SS, ClusterSize - ((x \div SS) % ClusterSize)) = 0 => y \div SS = 0
<1>1. x \div SS \in Nat /\ y \div SS \in Nat
  BY Position
<1>2. \A q \in Nat, c \in Nat : c > 0 => c - (q % c) \in Nat /\ c - (q % c) > 0
  OBVIOUS
<1>3. ClusterSize - ((x \div SS) % ClusterSize) \in Nat
      /\ ClusterSize - ((x \div SS) % ClusterSize) > 0
  BY <1>1, <1>2, SizesNat
<1> QED
  BY <1>1, <1>3, LeastNat

-----------------------------------------------------------------------------
(* Types *)

\* FatFs asks for sectors of the card, one or some at a time.
LEMMA StepsOfDriver == FileTypeOK /\ [FileNext]_vars => [AnyStep]_sdVars
<1> SUFFICES ASSUME FileTypeOK, [FileNext]_vars PROVE [AnyStep]_sdVars
  OBVIOUS
<1>1. ASSUME NEW s \in Nat, NEW n \in Nat \ {0}, ReadCommand(s, n) PROVE AnyStep
  BY <1>1 DEF AnyStep
<1>2. ASSUME NEW s \in Nat, NEW n \in Nat \ {0}, NEW l, DiskRead(s, n, l) PROVE AnyStep
  BY <1>1, <1>2 DEF DiskRead
<1>3. ASSUME NEW s \in Nat, NEW l, MoveWindow(s, l) PROVE [AnyStep]_sdVars
  <2>1. 1 \in Nat \ {0}
    OBVIOUS
  <2> QED BY <1>2, <1>3, <2>1 DEF MoveWindow
<1>4. 1 \in Nat \ {0} /\ fp.fptr \in Nat /\ btr \in Nat
  BY DEF FileTypeOK
<1>5. CASE Card \/ Driver
  BY <1>5 DEF Card, Driver, AnyStep
<1>6. CASE Open
  <2>1. CASE FindVolume
    BY <2>1 DEF FindVolume, AnyStep
  <2>2. CASE CheckFs
    BY <1>2, <1>4, <2>2, SizesNat DEF CheckFs
  <2>3. CASE Mount
    BY <2>3 DEF Mount
  <2>4. CASE FollowPath
    <3>1. DirSectors[entry] \in Nat
      BY DirectorySectors DEF FileTypeOK
    <3> QED BY <1>3, <2>4, <3>1 DEF FollowPath
  <2>5. CASE FindEntry
    BY <2>5 DEF FindEntry
  <2> QED BY <1>6, <2>1, <2>2, <2>3, <2>4, <2>5 DEF Open
<1>7. CASE ReadHeader \/ HeaderRead \/ NoHeader
  BY <1>2, <1>4, <1>7, SizesNat DEF ReadHeader, HeaderRead, NoHeader
<1>8. CASE Seek
  <2>1. CASE UNCHANGED sdVars
    BY <2>1
  <2>2. CASE ~UNCHANGED sdVars
    <3>1. fp' = [fp EXCEPT !.fptr = Least(DataOffset, FileSize)]
          /\ DiskRead(SectorAt(fp'.fptr), 1, "seekRead")
      BY <1>8, <2>2 DEF FirstPlace, Seek
    <3>2. fp'.fptr = Least(DataOffset, FileSize)
      BY <3>1 DEF FileTypeOK
    <3>3. SectorAt(fp'.fptr) \in Nat
      BY <3>2, LeastNat, Position, SizesNat
    <3> QED BY <1>2, <1>4, <3>1, <3>3
  <2> QED BY <2>1, <2>2
<1>9. CASE SeekRead \/ Fill \/ Read \/ DirectRead \/ BufferRead \/ Store \/ FollowChain
  BY <1>9 DEF SeekRead, Fill, Read, DirectRead, BufferRead, Store, FollowChain
<1>10. CASE ReadLoop
  BY <1>3, <1>10, SizesNat DEF ReadLoop, Copy
<1>11. CASE ReadSector
  <2>1. WholeSectors \in Nat /\ SectorAt(fp.fptr) \in Nat
    BY <1>4, WholeSectorsType, Position DEF WholeSectors
  <2>2. WholeSectors > 0 => WholeSectors \in Nat \ {0}
    BY <2>1
  <2> QED BY <1>2, <1>4, <1>11, <2>1, <2>2 DEF ReadSector, Copy
<1>12. CASE Finish \/ Update \/ LoadFile \/ StopFile
  BY <1>12 DEF Finish, Update, LoadFile, StopFile, sdVars, cardVars, driverVars
<1>13. CASE UNCHANGED vars
  BY <1>13 DEF vars
<1> QED
  BY <1>5, <1>6, <1>7, <1>8, <1>9, <1>10, <1>11, <1>12, <1>13
  DEF FileNext, Player, RamUpdate

Windows  == [sect : Nat \cup {NoSector}, data : Nat \cup {Garbage}]
Files    == [valid : BOOLEAN, err : BOOLEAN, fptr : Nat,
             sect : Nat \cup {NoSector}, data : Nat \cup {Garbage}]
Chunks  == [Buffer -> Nat \cup {Garbage}]

\* The types of the variables that are not the driver's
FatTypeOK ==
  /\ mounted \in BOOLEAN /\ window \in Windows /\ fp \in Files
  /\ caller \in {"header", "play", "rewind"} /\ entry \in 1 .. Len(DirSectors)
PlayerTypeOK ==
  /\ isFileValid \in BOOLEAN /\ isOpen \in BOOLEAN /\ endOfFile \in BOOLEAN
BufTypeOK ==
  /\ call \in 1 .. ReadCount /\ btr \in Nat /\ rbuff \in Nat /\ start \in Nat
  /\ buffer \in Chunks
  /\ half \in {<<>>} \cup [from : Nat, bytes : Chunks]
AtTypeOK ==
  /\ at \in Places
  /\ sdpc # "idle" => at \in {"initialize", "boot", "entry", "headerRead",
                              "seekRead", "fat", "direct", "buffered"}

LEMMA FileTypeParts ==
  FileTypeOK <=> SDTypeOK /\ FatTypeOK /\ PlayerTypeOK /\ BufTypeOK /\ AtTypeOK
  BY DEF FileTypeOK, FatTypeOK, PlayerTypeOK, BufTypeOK, AtTypeOK, Windows, Files, Chunks

LEMMA MovedType ==
  ASSUME FileTypeOK, NEW sector \in Nat
  PROVE  Moved(sector) \in Windows
<1>1. reply # <<>> => reply[1] \in Nat \cup {Garbage}
  BY DEF FileTypeOK, SDTypeOK
<1>2. reply # <<>> => [sect |-> sector, data |-> reply[1]] \in Windows
  BY <1>1 DEF Windows
<1>3. window \in Windows
  BY DEF FileTypeOK, Windows
<1> QED BY <1>2, <1>3 DEF Moved

LEMMA BufferedType ==
  ASSUME FileTypeOK
  PROVE  Buffered \in Files
<1>1. reply # <<>> => reply[1] \in Nat \cup {Garbage}
  BY DEF FileTypeOK, SDTypeOK
<1>2. fp \in Files /\ SectorAt(fp.fptr) \in Nat
  BY Position DEF FileTypeOK, Files
<1>3. reply # <<>> =>
        [fp EXCEPT !.sect = SectorAt(fp.fptr), !.data = reply[1]] \in Files
  BY <1>1, <1>2 DEF Files
<1>4. [fp EXCEPT !.err = TRUE] \in Files
  BY <1>2 DEF Files
<1> QED BY <1>3, <1>4 DEF Buffered

\* Bytes that go to the buffer are bytes.
LEMMA TakeType ==
  ASSUME FileTypeOK, NEW count \in Nat, count <= btr, NEW bytes,
         \A i \in 0 .. count - 1 : bytes[i] \in Nat \cup {Garbage},
         Take(count, bytes)
  PROVE  /\ buffer' \in Chunks /\ rbuff' \in Nat /\ btr' \in Nat /\ fp' \in Files
         /\ rbuff' = rbuff + count /\ btr' = btr - count
         /\ fp' = [fp EXCEPT !.fptr = fp.fptr + count]
<1>1. btr \in Nat /\ rbuff \in Nat /\ fp \in Files /\ buffer \in Chunks
  BY DEF FileTypeOK, Files, Chunks
<1>2. /\ rbuff' = rbuff + count /\ btr' = btr - count
      /\ fp' = [fp EXCEPT !.fptr = fp.fptr + count]
  BY DEF Take
<1>3. buffer' = [i \in Buffer |->
        IF i \in rbuff .. rbuff + count - 1 THEN bytes[i - rbuff] ELSE buffer[i]]
  BY DEF Take
<1>4. ASSUME NEW i \in Buffer
      PROVE  (IF i \in rbuff .. rbuff + count - 1 THEN bytes[i - rbuff] ELSE buffer[i])
               \in Nat \cup {Garbage}
  <2>1. CASE i \in rbuff .. rbuff + count - 1
    <3>1. i - rbuff \in 0 .. count - 1
      BY <1>1, <2>1
    <3> QED BY <2>1, <3>1
  <2>2. CASE i \notin rbuff .. rbuff + count - 1
    BY <1>1, <2>2 DEF Chunks
  <2> QED BY <2>1, <2>2
<1>5. buffer' \in Chunks
  BY <1>3, <1>4 DEF Chunks
<1>6. fp' \in Files
  BY <1>1, <1>2 DEF Files
<1> QED BY <1>1, <1>2, <1>5, <1>6

LEMMA ByteType ==
  ASSUME NEW sector, NEW n \in Nat
  PROVE  ByteOf(sector, n) \in Nat \cup {Garbage}
<1>1. sector \in Nat => sector * SS + n \in Nat
  BY SizesNat
<1> QED BY <1>1 DEF ByteOf

\* The part of a sector that f_read copies
LEMMA CopyTakes ==
  ASSUME FileTypeOK, Copy
  PROVE  \E count \in Nat :
           /\ count = Least(SS - (fp.fptr % SS), btr)
           /\ count <= btr /\ count <= SS - (fp.fptr % SS)
           /\ Take(count, [i \in 0 .. SS - 1 |-> ByteOf(fp.data, (fp.fptr % SS) + i)])
           /\ \A i \in 0 .. count - 1 :
                [j \in 0 .. SS - 1 |-> ByteOf(fp.data, (fp.fptr % SS) + j)][i]
                  \in Nat \cup {Garbage}
<1>1. fp.fptr \in Nat /\ btr \in Nat
  BY DEF FileTypeOK
<1>2. fp.fptr % SS \in Nat /\ SS - (fp.fptr % SS) \in Nat
  BY <1>1, Position, SizesNat
<1> DEFINE count == Least(SS - (fp.fptr % SS), btr)
<1>3. count \in Nat /\ count <= btr /\ count <= SS - (fp.fptr % SS)
  BY <1>1, <1>2, LeastNat
<1>4. Take(count, [i \in 0 .. SS - 1 |-> ByteOf(fp.data, (fp.fptr % SS) + i)])
  BY DEF Copy
<1>5. ASSUME NEW i \in 0 .. count - 1
      PROVE  [j \in 0 .. SS - 1 |-> ByteOf(fp.data, (fp.fptr % SS) + j)][i]
               \in Nat \cup {Garbage}
  <2>1. i \in 0 .. SS - 1 /\ (fp.fptr % SS) + i \in Nat
    BY <1>2, <1>3, SizesNat
  <2> QED BY <2>1, ByteType
<1> QED BY <1>3, <1>4, <1>5

\* The sectors that go straight to the buffer
LEMMA DirectTakes ==
  ASSUME FileTypeOK, DirectRead, reply # <<>>, Len(reply) * SS <= btr
  PROVE  \E count \in Nat :
           /\ count = SS * Len(reply) /\ count <= btr
           /\ Take(count, [i \in 0 .. SS * Len(reply) - 1 |->
                             ByteOf(reply[i \div SS + 1], i % SS)])
           /\ \A i \in 0 .. count - 1 :
                [j \in 0 .. SS * Len(reply) - 1 |->
                   ByteOf(reply[j \div SS + 1], j % SS)][i] \in Nat \cup {Garbage}
<1>1. Len(reply) \in Nat /\ btr \in Nat
  BY DEF FileTypeOK, SDTypeOK
<1> DEFINE count == SS * Len(reply)
<1>2. count \in Nat /\ count <= btr
  BY <1>1, SizesNat
<1>3. Take(count, [i \in 0 .. SS * Len(reply) - 1 |-> ByteOf(reply[i \div SS + 1], i % SS)])
  BY DEF DirectRead
<1>4. ASSUME NEW i \in 0 .. count - 1
      PROVE  [j \in 0 .. SS * Len(reply) - 1 |-> ByteOf(reply[j \div SS + 1], j % SS)][i]
               \in Nat \cup {Garbage}
  <2>1. i \in Nat /\ i % SS \in Nat
    BY Position
  <2> QED BY <2>1, ByteType
<1> QED BY <1>2, <1>3, <1>4

\* A whole sector is asked for where one is wanted.
LEMMA DirectAnswer ==
  ASSUME FileInv, DirectRead, reply # <<>>
  PROVE  Len(reply) = 1 /\ SS <= btr /\ (trusted => reply[1] = SectorAt(fp.fptr))
<1>1. at = "direct" /\ sdpc = "idle" /\ fp.fptr \in Nat /\ btr \in Nat
  BY DEF DirectRead, Returned, FileInv, FileTypeOK
<1>2. asked[2] = 1 /\ Len(reply) = asked[2] /\ (trusted => reply[1] = SectorAt(fp.fptr))
  BY <1>1 DEF FileInv, Requests, Positions, ReadPlaces, InWindow, Wanted
<1>3. WholeSectors = 1
  BY <1>1 DEF FileInv, Positions
<1>4. 1 <= btr \div SS
  BY <1>1, <1>3, WholeSectorsType DEF WholeSectors
<1>5. btr \div SS \in Nat /\ btr % SS \in Nat /\ btr = (btr \div SS) * SS + (btr % SS)
  BY <1>1, Position
<1>6. SS <= btr
  BY <1>1, <1>4, <1>5, SizesNat
<1> QED BY <1>2, <1>6

LEMMA FatTypeStep == FileInv /\ [FileNext]_vars => FatTypeOK' /\ PlayerTypeOK'
<1> SUFFICES ASSUME FileInv, [FileNext]_vars PROVE FatTypeOK' /\ PlayerTypeOK'
  OBVIOUS
<1>0. FileTypeOK /\ FatTypeOK /\ PlayerTypeOK /\ at \in Places
  BY FileTypeParts DEF FileInv, FileTypeOK
<1> USE <1>0 DEF FatTypeOK, PlayerTypeOK
<1>1. ASSUME UNCHANGED <<fatVars, playerVars>> PROVE FatTypeOK' /\ PlayerTypeOK'
  BY <1>1 DEF fatVars, playerVars
<1>2. ASSUME NEW ok \in BOOLEAN, Opened(ok)
      PROVE  fp' \in Files /\ UNCHANGED <<caller, isFileValid, isOpen, endOfFile>>
  <2>1. [valid |-> TRUE, err |-> FALSE, fptr |-> 0, sect |-> NoSector, data |-> fp.data]
          \in Files
    BY DEF Files
  <2>2. [fp EXCEPT !.valid = FALSE] \in Files
    BY DEF Files
  <2> QED BY <1>2, <2>1, <2>2 DEF Opened
<1>3. CASE Card \/ Driver
  BY <1>1, <1>3 DEF Card, Driver
<1>4. CASE FindVolume
  <2>1. 1 \in 1 .. Len(DirSectors)
    BY DirectorySectors
  <2>2. mounted' \in BOOLEAN /\ entry' = 1
    BY <1>4 DEF FindVolume
  <2> QED BY <1>4, <2>1, <2>2 DEF FindVolume, playerVars
<1>5. CASE CheckFs
  <2>1. window' \in Windows
    BY <1>5 DEF CheckFs, Windows
  <2>2. fp' \in Files /\ UNCHANGED <<caller, isFileValid, isOpen, endOfFile>>
    BY <1>2, <1>5 DEF CheckFs, playerVars
  <2> QED BY <1>5, <2>1, <2>2 DEF CheckFs
<1>6. CASE Mount
  <2>1. window' \in Windows
    BY <1>6, MovedType, SizesNat DEF Mount
  <2>2. fp' \in Files /\ UNCHANGED <<caller, isFileValid, isOpen, endOfFile>>
    BY <1>2, <1>6 DEF Mount, playerVars
  <2>3. mounted' \in BOOLEAN /\ entry' = entry
    BY <1>6 DEF Mount
  <2> QED BY <2>1, <2>2, <2>3
<1>7. ASSUME NEW s \in Nat, NEW l, MoveWindow(s, l) PROVE window' \in Windows
  BY <1>7 DEF MoveWindow, Windows
<1>8. CASE FollowPath
  <2>1. DirSectors[entry] \in Nat
    BY DirectorySectors
  <2> QED BY <1>7, <1>8, <2>1 DEF FollowPath, playerVars
<1>9. CASE FindEntry
  <2>1. window' \in Windows
    BY <1>9, MovedType, DirectorySectors DEF FindEntry
  <2>2. fp' \in Files /\ UNCHANGED <<caller, isFileValid, isOpen, endOfFile>>
    BY <1>2, <1>9 DEF FindEntry, playerVars
  <2>3. entry' \in 1 .. Len(DirSectors) /\ mounted' = mounted
    <3>1. entry < Len(DirSectors) => entry + 1 \in 1 .. Len(DirSectors)
      BY DirectorySectors
    <3> QED BY <1>9, <3>1 DEF FindEntry
  <2> QED BY <2>1, <2>2, <2>3
<1>10. CASE ReadHeader
  BY <1>1, <1>10 DEF ReadHeader
<1>11. CASE HeaderRead \/ NoHeader
  BY <1>11 DEF HeaderRead, NoHeader, fatVars, playerVars
<1>12. CASE Seek \/ SeekRead
  <2>1. fp' \in Files
    <3>1. Least(DataOffset, FileSize) \in Nat
      BY LeastNat, SizesNat
    <3>2. [fp EXCEPT !.fptr = Least(DataOffset, FileSize)] \in Files
      BY <3>1 DEF Files
    <3> QED BY <1>12, <3>2, BufferedType DEF FirstPlace, Seek, SeekRead
  <2>2. UNCHANGED <<mounted, window, caller, entry, isFileValid>>
    BY <1>12 DEF Seek, SeekRead, SeekReturns, playerVars
  <2>3. isOpen' \in BOOLEAN /\ endOfFile' \in BOOLEAN
    BY <1>12 DEF Seek, SeekRead, SeekReturns, playerVars
  <2> QED BY <2>1, <2>2, <2>3
<1>13. CASE Fill
  BY <1>1, <1>13 DEF Fill
<1>14. ASSUME ReadReturns
       PROVE  UNCHANGED <<isFileValid, isOpen, endOfFile, mounted, caller, entry>>
  BY <1>14 DEF ReadReturns
<1>15. CASE Read
  BY <1>14, <1>15 DEF Read, playerVars
<1>16. ASSUME Copy PROVE FatTypeOK' /\ PlayerTypeOK'
  <2>1. fp' \in Files
    BY <1>16, CopyTakes, TakeType
  <2> QED BY <1>16, <2>1 DEF Copy, playerVars
<1>17. CASE ReadLoop
  <2>1. CASE btr = 0
    BY <1>14, <1>17, <2>1 DEF ReadLoop
  <2>2. CASE btr # 0 /\ fp.fptr % SS # 0
    BY <1>16, <1>17, <2>2 DEF ReadLoop
  <2>3. CASE btr # 0 /\ fp.fptr % SS = 0
    <3>1. window' \in Windows
      BY <1>7, <1>17, <2>3, SizesNat DEF ReadLoop
    <3> QED BY <1>17, <2>3, <3>1 DEF ReadLoop, playerVars
  <2> QED BY <2>1, <2>2, <2>3
<1>18. CASE FollowChain
  <2>1. window' \in Windows
    BY <1>18, MovedType, SizesNat DEF FollowChain
  <2>2. fp' \in Files
    BY <1>18 DEF FollowChain, Files
  <2> QED BY <1>14, <1>18, <2>1, <2>2 DEF FollowChain, playerVars
<1>19. CASE ReadSector
  <2>1. CASE Copy
    BY <1>16, <2>1
  <2>2. CASE ~Copy
    BY <1>1, <1>19, <2>2 DEF ReadSector
  <2> QED BY <2>1, <2>2
<1>20. CASE DirectRead
  <2>1. CASE reply = <<>>
    <3>1. fp' \in Files
      BY <1>20, <2>1 DEF DirectRead, Files
    <3> QED BY <1>14, <1>20, <2>1, <3>1 DEF DirectRead
  <2>2. CASE reply # <<>>
    <3>1. Len(reply) * SS <= btr
      <4>1. Len(reply) = 1 /\ SS <= btr
        BY <1>20, <2>2, DirectAnswer
      <4> QED BY <4>1, SizesNat
    <3>2. fp' \in Files
      BY <1>20, <2>2, <3>1, DirectTakes, TakeType
    <3> QED BY <1>20, <2>2, <3>2 DEF DirectRead, playerVars
  <2> QED BY <2>1, <2>2
<1>21. CASE BufferRead
  <2>1. fp' \in Files
    BY <1>21, BufferedType DEF BufferRead
  <2> QED BY <1>14, <1>21, <2>1 DEF BufferRead, playerVars
<1>22. CASE Store
  BY <1>22 DEF Store, fatVars, FileTypeOK
<1>23. CASE Finish
  <2>1. fp' \in Files
    BY <1>23 DEF Finish, Files, FpValid
  <2> QED BY <1>23, <2>1 DEF Finish
<1>24. CASE Update \/ LoadFile \/ StopFile
  BY <1>24 DEF Update, LoadFile, StopFile, fatVars, playerVars
<1>25. CASE UNCHANGED vars
  BY <1>1, <1>25 DEF vars
<1> QED
  BY <1>3, <1>4, <1>5, <1>6, <1>8, <1>9, <1>10, <1>11, <1>12, <1>13, <1>15, <1>17, <1>18,
     <1>19, <1>20, <1>21, <1>22, <1>23, <1>24, <1>25
  DEF FileNext, Player, Open, RamUpdate

LEMMA BufTypeStep == FileInv /\ [FileNext]_vars => BufTypeOK'
<1> SUFFICES ASSUME FileInv, [FileNext]_vars PROVE BufTypeOK'
  OBVIOUS
<1>0. FileTypeOK /\ BufTypeOK /\ fp.fptr \in Nat
  BY FileTypeParts DEF FileInv, FileTypeOK
<1> USE <1>0 DEF BufTypeOK
<1>1. ASSUME UNCHANGED bufVars PROVE BufTypeOK'
  BY <1>1 DEF bufVars
<1>2. CASE Card \/ Driver \/ Open
  BY <1>1, <1>2 DEF Card, Driver, Open, FindVolume, CheckFs, Mount, FollowPath, FindEntry,
     Opened
<1>3. CASE ReadHeader \/ HeaderRead \/ NoHeader \/ Seek \/ SeekRead \/ Update
           \/ LoadFile \/ StopFile
  BY <1>1, <1>3 DEF ReadHeader, HeaderRead, NoHeader, Seek, SeekRead, SeekReturns, Update,
     LoadFile, StopFile
<1>4. CASE Fill
  <2>1. [i \in Buffer |-> Garbage] \in Chunks
    BY DEF Chunks
  <2>2. 1 \in 1 .. ReadCount
    BY ReadSizes
  <2> QED BY <1>4, <2>1, <2>2 DEF Fill
<1>5. ASSUME ReadReturns PROVE call' \in 1 .. ReadCount /\ UNCHANGED <<half, start>>
  <2>1. call < ReadCount => call + 1 \in 1 .. ReadCount
    BY ReadSizes
  <2> QED BY <1>5, <2>1 DEF ReadReturns
<1>6. CASE Read
  <2>1. CASE FpValid /\ ~fp.err
    <3>1. Aligned(fp.fptr)
      BY <1>6, <2>1 DEF FileInv, Positions, Control, Read, FillPlaces, LoopPlaces
    <3>2. FileSize - fp.fptr \in Nat /\ ReadSize \in Nat
      BY <3>1, ReadSizes, SizesNat DEF Aligned
    <3>3. btr' \in Nat
      BY <1>6, <2>1, <3>2, LeastNat DEF Read
    <3>4. call - 1 \in Nat
      BY ReadSizes
    <3>5. rbuff' \in Nat
      <4>1. rbuff' = ReadSize * (call - 1)
        BY <1>6, <2>1 DEF Read
      <4> QED BY <3>2, <3>4, <4>1
    <3> QED BY <1>6, <2>1, <3>3, <3>5 DEF Read
  <2>2. CASE ~(FpValid /\ ~fp.err)
    BY <1>5, <1>6, <2>2 DEF Read
  <2> QED BY <2>1, <2>2
<1>7. ASSUME Copy PROVE BufTypeOK'
  BY <1>7, CopyTakes, TakeType DEF Copy
<1>8. CASE ReadLoop
  BY <1>1, <1>5, <1>7, <1>8 DEF ReadLoop
<1>9. CASE FollowChain
  BY <1>5, <1>9 DEF FollowChain
<1>10. CASE ReadSector
  BY <1>1, <1>7, <1>10 DEF ReadSector
<1>11. CASE DirectRead
  <2>1. CASE reply = <<>>
    BY <1>5, <1>11, <2>1 DEF DirectRead
  <2>2. CASE reply # <<>>
    <3>1. Len(reply) * SS <= btr
      <4>1. Len(reply) = 1 /\ SS <= btr
        BY <1>11, <2>2, DirectAnswer
      <4> QED BY <4>1, SizesNat
    <3> QED BY <1>11, <2>2, <3>1, DirectTakes, TakeType DEF DirectRead
  <2> QED BY <2>1, <2>2
<1>12. CASE BufferRead
  BY <1>5, <1>12 DEF BufferRead
<1>13. CASE Store
  <2>1. [from |-> start, bytes |-> buffer] \in [from : Nat, bytes : Chunks]
    OBVIOUS
  <2> QED BY <1>13, <2>1 DEF Store
<1>14. CASE Finish
  BY <1>14 DEF Finish
<1>15. CASE UNCHANGED vars
  BY <1>1, <1>15 DEF vars
<1> QED
  BY <1>2, <1>3, <1>4, <1>6, <1>8, <1>9, <1>10, <1>11, <1>12, <1>13, <1>14, <1>15
  DEF FileNext, Player, RamUpdate

\* A request of FatFs takes the driver out of its idle state, nothing else does.
LEMMA AtTypeStep == FileInv /\ [FileNext]_vars => AtTypeOK'
<1> SUFFICES ASSUME FileInv, [FileNext]_vars PROVE AtTypeOK'
  OBVIOUS
<1>0. AtTypeOK
  BY FileTypeParts DEF FileInv
<1> USE <1>0 DEF AtTypeOK, Places
<1> DEFINE Waiting == {"initialize", "boot", "entry", "headerRead", "seekRead", "fat",
                       "direct", "buffered"}
<1>1. ASSUME at' \in Places, at \notin Waiting \/ sdpc = "idle", UNCHANGED sdVars
      PROVE  AtTypeOK'
  BY <1>1 DEF sdVars, driverVars
<1>2. ASSUME at' \in Waiting PROVE AtTypeOK'
  BY <1>2
<1>3. CASE Card
  BY <1>3 DEF Card, Remove, Insert, driverVars
<1>4. CASE Driver
  <2>1. sdpc # "idle" /\ at' = at
    BY <1>4 DEF Driver, SDStep, Initialization, PollReset, CheckInterface, CheckVoltage,
       AcmdReady, AcmdIdle, CheckCapacity, FinishInit, Reading, TokenRead, TokenAwaited,
       ReadData
  <2> QED BY <2>1
<1>5. ASSUME NEW ok \in BOOLEAN, Opened(ok) PROVE at' \in {"header", "noHeader", "seek"}
  BY <1>5 DEF Opened
<1>6. CASE FindVolume
  BY <1>1, <1>2, <1>6 DEF FindVolume
<1>7. CASE CheckFs
  BY <1>1, <1>2, <1>5, <1>7 DEF CheckFs, Returned, DiskRead
<1>8. CASE Mount
  BY <1>1, <1>5, <1>8 DEF Mount, Returned
<1>9. CASE FollowPath
  BY <1>2, <1>9 DEF FollowPath, MoveWindow, DiskRead
<1>10. CASE FindEntry
  BY <1>1, <1>5, <1>10 DEF FindEntry, Returned
<1>11. CASE ReadHeader
  BY <1>2, <1>11 DEF ReadHeader, DiskRead
<1>12. CASE HeaderRead \/ NoHeader
  BY <1>1, <1>12 DEF HeaderRead, NoHeader, Returned
<1>13. ASSUME SeekReturns PROVE at' \in {"fill", "idle"}
  BY <1>13 DEF SeekReturns
<1>14. CASE Seek
  BY <1>1, <1>2, <1>13, <1>14 DEF Seek, DiskRead
<1>15. CASE SeekRead
  BY <1>1, <1>13, <1>15 DEF SeekRead, Returned
<1>16. CASE Fill
  BY <1>1, <1>16 DEF Fill
<1>17. ASSUME ReadReturns PROVE at' \in {"call", "store"}
  BY <1>17 DEF ReadReturns
<1>18. CASE Read
  BY <1>1, <1>17, <1>18 DEF Read
<1>19. CASE ReadLoop
  BY <1>1, <1>2, <1>17, <1>19 DEF ReadLoop, Copy, MoveWindow, DiskRead
<1>20. CASE FollowChain
  BY <1>1, <1>17, <1>20 DEF FollowChain, Returned
<1>21. CASE ReadSector
  BY <1>1, <1>2, <1>21 DEF ReadSector, Copy, DiskRead
<1>22. CASE DirectRead
  BY <1>1, <1>17, <1>22 DEF DirectRead, Returned
<1>23. CASE BufferRead
  BY <1>1, <1>17, <1>23 DEF BufferRead, Returned
<1>24. CASE Store \/ Finish
  BY <1>1, <1>24 DEF Store, Finish
<1>25. CASE Update \/ LoadFile \/ StopFile
  BY <1>1, <1>25 DEF Update, LoadFile, StopFile
<1>26. CASE UNCHANGED vars
  BY <1>26 DEF vars, sdVars, driverVars
<1> QED
  BY <1>3, <1>4, <1>6, <1>7, <1>8, <1>9, <1>10, <1>11, <1>12, <1>14, <1>15, <1>16, <1>18,
     <1>19, <1>20, <1>21, <1>22, <1>23, <1>24, <1>25, <1>26
  DEF FileNext, Player, Open, RamUpdate

LEMMA FileTypeStep == FileInv /\ [FileNext]_vars => FileTypeOK'
<1> SUFFICES ASSUME FileInv, [FileNext]_vars PROVE FileTypeOK'
  OBVIOUS
<1>1. SDTypeOK'
  <2>1. FileTypeOK /\ SDTypeOK
    BY DEF FileInv, FileTypeOK
  <2> QED BY <2>1, StepsOfDriver, SDTypeStep
<1>2. FatTypeOK' /\ PlayerTypeOK' /\ BufTypeOK' /\ AtTypeOK'
  BY FatTypeStep, BufTypeStep, AtTypeStep
<1> QED
  BY <1>1, <1>2 DEF FileTypeOK, FatTypeOK, PlayerTypeOK, BufTypeOK, AtTypeOK, Windows, Files,
     Chunks

-----------------------------------------------------------------------------
(* What the card and the driver do behind FatFs' back *)

LEMMA CardEffect ==
  ASSUME Card
  PROVE  /\ UNCHANGED <<at, mounted, window, fp, caller, entry, isFileValid, isOpen, endOfFile,
                        call, btr, rbuff, buffer, half, start>>
         /\ UNCHANGED <<sdpc, sdStatus, asked, reply>> /\ (trusted' => trusted)
  BY DEF Card, Remove, Insert, fatVars, playerVars, bufVars, driverVars

\* An initialization goes on or is over; a request waits, fails - the card is
\* not trusted any more - or is answered, by a trusted card with the sector.
LEMMA DriverEffect ==
  ASSUME FileInv, Driver
  PROVE  /\ UNCHANGED <<at, mounted, window, fp, caller, entry, isFileValid, isOpen, endOfFile,
                        call, btr, rbuff, buffer, half, start>>
         /\ asked' = asked
         /\ \/ /\ sdpc \in Initializing /\ sdpc' \in Initializing \cup {"idle"}
               /\ UNCHANGED reply /\ (trusted' => trusted)
            \/ /\ sdpc \in {"token", "data"} /\ sdpc' \in {"token", "data"}
               /\ UNCHANGED <<sdStatus, reply, trusted>>
            \/ /\ sdpc \in {"token", "data"} /\ sdpc' = "idle" /\ sdStatus' = sdStatus
               /\ \/ reply' = <<>> /\ ~trusted'
                  \/ /\ reply' # <<>> /\ Len(reply') = asked[2] /\ trusted' = trusted
                     /\ trusted => reply'[1] = asked[1]
<1>1. UNCHANGED <<at, mounted, window, fp, caller, entry, isFileValid, isOpen, endOfFile,
                  call, btr, rbuff, buffer, half, start>>
  BY DEF Driver, fatVars, playerVars, bufVars
<1> USE DEF Goto, cardVars, Initializing
<1>2. CASE Initialization
  <2>1. CASE FailInit
    BY <1>1, <1>2, <2>1 DEF FailInit, Initialization, PollReset, CheckInterface, CheckVoltage,
       AcmdReady, AcmdIdle, CheckCapacity, FinishInit
  <2>2. CASE CheckCapacity
    <3>1. /\ sdpc \in Initializing /\ sdpc' \in Initializing
          /\ UNCHANGED <<asked, reply>> /\ (trusted' => trusted)
      BY <2>2 DEF CheckCapacity
    <3> QED
      BY <1>1, <3>1
  <2>3. CASE ~FailInit /\ ~CheckCapacity
    BY <1>1, <1>2, <2>3 DEF Initialization, PollReset, CheckInterface, CheckVoltage,
       AcmdReady, AcmdIdle, FinishInit
  <2> QED BY <2>1, <2>2, <2>3
<1>3. CASE TokenRead \/ TokenAwaited
  BY <1>1, <1>3 DEF TokenRead, TokenAwaited, GiveUp
<1>4. CASE ReadData
  <2>1. asked[2] \in Nat \ {0} /\ asked[1] \in Nat
    BY DEF FileInv, FileTypeOK, SDTypeOK
  <2>2. reply' = Received(asked[2]) /\ Received(asked[2]) \in [1 .. asked[2] -> Nat \cup {Garbage}]
    BY <1>4, <2>1, ReceivedType DEF ReadData, FileInv, FileTypeOK
  <2>3. Len(reply') = asked[2] /\ reply' # <<>>
    BY <2>1, <2>2
  <2>4. trusted => reply'[1] = asked[1]
    <3>1. reply'[1] = IF sending # Nothing THEN sending ELSE Garbage
      BY <2>1, <2>2 DEF Received
    <3>2. trusted => sending = asked[1]
      BY <1>4 DEF ReadData, FileInv, HonestCard
    <3> QED BY <2>1, <3>1, <3>2, SDCardAssumption
  <2> QED BY <1>1, <1>4, <2>3, <2>4 DEF ReadData
<1> QED BY <1>2, <1>3, <1>4 DEF Driver, SDStep, Reading

LEMMA DiskReadEffect ==
  ASSUME NEW s, NEW n, NEW l, DiskRead(s, n, l)
  PROVE  /\ sdpc = "idle" /\ sdStatus = 0 /\ sdpc' = "token" /\ at' = l
         /\ asked'[1] = s /\ asked'[2] = n /\ UNCHANGED <<sdStatus, reply, trusted>>
  BY DEF DiskRead, ReadCommand, Goto

LEMMA TakeKeeps ==
  ASSUME FileTypeOK, NEW count, NEW bytes, Take(count, bytes)
  PROVE  /\ fp'.valid = fp.valid /\ fp'.err = fp.err
         /\ fp'.sect = fp.sect /\ fp'.data = fp.data /\ fp'.fptr = fp.fptr + count
  BY DEF Take, FileTypeOK

LEMMA CopyKeeps ==
  ASSUME FileTypeOK, Copy
  PROVE  /\ fp'.valid = fp.valid /\ fp'.err = fp.err
         /\ fp'.sect = fp.sect /\ fp'.data = fp.data /\ at' = "read"
         /\ UNCHANGED <<call, half, start, isFileValid, isOpen, endOfFile, mounted, window,
                        caller, entry, sdVars>>
  BY TakeKeeps DEF Copy, playerVars

LEMMA BufferedKeeps ==
  ASSUME FileTypeOK
  PROVE  /\ Buffered.valid = fp.valid /\ Buffered.fptr = fp.fptr
         /\ reply = <<>> => Buffered.err /\ Buffered.sect = fp.sect /\ Buffered.data = fp.data
         /\ reply # <<>> => /\ Buffered.err = fp.err
                            /\ Buffered.sect = SectorAt(fp.fptr) /\ Buffered.data = reply[1]
  BY DEF Buffered, FileTypeOK

-----------------------------------------------------------------------------
(* Where the calls are *)

LEMMA ControlStep == FileInv /\ [FileNext]_vars => Control'
<1> SUFFICES ASSUME FileInv, [FileNext]_vars PROVE Control'
  OBVIOUS
<1>0. Control /\ AtTypeOK /\ FileTypeOK
  BY FileTypeParts DEF FileInv
<1> USE <1>0 DEF AtTypeOK, Control, OpenPlaces, FillPlaces, LoopPlaces, ReadPlaces, Initializing,
        FpValid
<1>1. CASE Card
  BY <1>1, CardEffect
<1>2. CASE Driver
  BY <1>2, DriverEffect
<1>3. CASE FindVolume
  BY <1>3 DEF FindVolume, StartInit, Goto, sdVars, driverVars, playerVars, bufVars
<1>4. CASE CheckFs
  BY <1>4, DiskReadEffect DEF CheckFs, Returned, Opened, sdVars, driverVars, playerVars, bufVars
<1>5. CASE Mount
  BY <1>5 DEF Mount, Returned, Opened, sdVars, driverVars, playerVars, bufVars
<1>6. CASE FollowPath
  BY <1>6, DiskReadEffect DEF FollowPath, MoveWindow, sdVars, driverVars, playerVars, bufVars
<1>7. CASE FindEntry
  BY <1>7 DEF FindEntry, Returned, Opened, sdVars, driverVars, playerVars, bufVars
<1>8. CASE ReadHeader
  BY <1>8, DiskReadEffect DEF ReadHeader, fatVars, playerVars, bufVars
<1>9. CASE HeaderRead
  BY <1>9 DEF HeaderRead, Returned, sdVars, driverVars, playerVars, bufVars
<1>10. CASE NoHeader
  BY <1>10 DEF NoHeader, Returned, sdVars, driverVars, fatVars, bufVars
<1>11. CASE Seek
  BY <1>11, DiskReadEffect DEF Seek, SeekReturns, sdVars, driverVars, playerVars, bufVars
<1>12. CASE SeekRead
  BY <1>12 DEF SeekRead, Returned, SeekReturns, sdVars, driverVars, bufVars
<1>13. CASE Fill
  BY <1>13 DEF Fill, sdVars, driverVars, fatVars, playerVars
<1>14. CASE Read
  BY <1>14 DEF Read, ReadReturns, sdVars, driverVars, playerVars
<1>15. CASE ReadLoop
  <2>1. CASE Copy /\ at = "read"
    BY <2>1, CopyKeeps DEF sdVars, driverVars
  <2>2. CASE ~Copy
    <3>1. /\ at = "read" /\ UNCHANGED fp
          /\ \/ ReadReturns /\ UNCHANGED sdVars
             \/ (MoveWindow(FatSector, "fat") \/ (at' = "sector" /\ UNCHANGED sdVars))
                /\ UNCHANGED <<mounted, caller, entry, playerVars, bufVars>>
      BY <1>15, <2>2, Zenon DEF ReadLoop
    <3>2. CASE ReadReturns /\ UNCHANGED sdVars
      BY <3>1, <3>2 DEF ReadReturns, sdVars, driverVars
    <3>3. CASE at' = "sector" /\ UNCHANGED <<sdVars, mounted, caller, entry, playerVars, bufVars>>
      BY <3>1, <3>3 DEF sdVars, driverVars, playerVars, bufVars
    <3>4. CASE /\ MoveWindow(FatSector, "fat")
               /\ UNCHANGED <<mounted, caller, entry, playerVars, bufVars>>
      BY <3>1, <3>4, DiskReadEffect DEF MoveWindow, sdVars, driverVars, playerVars, bufVars
    <3> QED BY <3>1, <3>2, <3>3, <3>4
  <2> QED BY <1>15, <2>1, <2>2 DEF ReadLoop
<1>16. CASE FollowChain
  BY <1>16 DEF FollowChain, Returned, ReadReturns, sdVars, driverVars, playerVars
<1>17. CASE ReadSector
  <2>1. CASE Copy /\ at = "sector"
    BY <2>1, CopyKeeps DEF sdVars, driverVars
  <2>2. CASE ~Copy
    <3>1. /\ at = "sector" /\ UNCHANGED <<fatVars, playerVars, bufVars>>
          /\ \/ DiskRead(SectorAt(fp.fptr), WholeSectors, "direct")
             \/ DiskRead(SectorAt(fp.fptr), 1, "buffered")
      BY <1>17, <2>2, Zenon DEF ReadSector
    <3> QED BY <3>1, DiskReadEffect DEF fatVars, playerVars, bufVars
  <2> QED BY <1>17, <2>1, <2>2 DEF ReadSector
<1>18. CASE DirectRead
  BY <1>18, TakeKeeps DEF DirectRead, Returned, ReadReturns, sdVars, driverVars, playerVars
<1>19. CASE BufferRead
  BY <1>19, BufferedKeeps DEF BufferRead, Returned, ReadReturns, sdVars, driverVars, playerVars
<1>20. CASE Store
  BY <1>20 DEF Store, sdVars, driverVars, fatVars
<1>21. CASE Finish
  BY <1>21 DEF Finish, sdVars, driverVars
<1>22. CASE Update
  BY <1>22 DEF Update, sdVars, driverVars, playerVars, bufVars
<1>23. CASE LoadFile \/ StopFile
  BY <1>23 DEF LoadFile, StopFile, sdVars, driverVars, fatVars, bufVars
<1>24. CASE UNCHANGED vars
  BY <1>24 DEF vars, sdVars, driverVars, fatVars, playerVars, bufVars
<1> QED
  BY <1>1, <1>2, <1>3, <1>4, <1>5, <1>6, <1>7, <1>8, <1>9, <1>10, <1>11, <1>12, <1>13, <1>14,
     <1>15, <1>16, <1>17, <1>18, <1>19, <1>20, <1>21, <1>22, <1>23, <1>24
  DEF FileNext, Player, Open, RamUpdate

-----------------------------------------------------------------------------
(* Requests *)

LEMMA ReadLoopIs ==
  ASSUME ReadLoop
  PROVE  /\ at = "read"
         /\ \/ /\ btr = 0 /\ ReadReturns
               /\ UNCHANGED <<window, fp, btr, rbuff, buffer, sdVars>>
            \/ btr # 0 /\ fp.fptr % SS # 0 /\ Copy
            \/ /\ btr # 0 /\ fp.fptr % SS = 0
               /\ UNCHANGED <<mounted, fp, caller, entry, playerVars, bufVars>>
               /\ \/ MoveWindow(FatSector, "fat")
                  \/ at' = "sector" /\ UNCHANGED <<window, sdVars>>
  BY Zenon DEF ReadLoop

LEMMA ReadSectorIs ==
  ASSUME ReadSector
  PROVE  /\ at = "sector"
         /\ \/ /\ WholeSectors > 0 /\ DiskRead(SectorAt(fp.fptr), WholeSectors, "direct")
               /\ UNCHANGED <<fatVars, playerVars, bufVars>>
            \/ /\ WholeSectors = 0 /\ DiskRead(SectorAt(fp.fptr), 1, "buffered")
               /\ UNCHANGED <<fatVars, playerVars, bufVars>>
            \/ WholeSectors = 0 /\ fp.sect = SectorAt(fp.fptr) /\ Copy
  BY Zenon DEF ReadSector

LEMMA RequestsStep == FileInv /\ [FileNext]_vars => Requests'
<1> SUFFICES ASSUME FileInv, [FileNext]_vars PROVE Requests'
  OBVIOUS
<1>0. FileTypeOK /\ AtTypeOK /\ Requests /\ Control
  BY FileTypeParts DEF FileInv
<1>1. ASSUME at' \notin ReadPlaces PROVE Requests'
  BY <1>1 DEF Requests, ReadPlaces, InWindow
<1>2. ASSUME NEW s, DiskRead(s, 1, at'), at' # "direct", ~InWindow', Wanted' = s,
             at' = "boot" => window'.sect = NoSector
      PROVE  Requests'
  BY <1>2, DiskReadEffect DEF Requests
<1>3. CASE Card
  <2>1. Wanted' = Wanted /\ WholeSectors' = WholeSectors /\ InWindow' = InWindow
    BY <1>3, CardEffect DEF Wanted, WholeSectors, InWindow
  <2> QED BY <1>0, <1>3, <2>1, CardEffect DEF Requests
<1>4. CASE Driver
  <2>1. Wanted' = Wanted /\ WholeSectors' = WholeSectors /\ InWindow' = InWindow
    BY <1>4, DriverEffect DEF Wanted, WholeSectors, InWindow
  <2>2. at' = at /\ asked' = asked /\ window' = window /\ (sdpc' = "idle" => sdpc # "idle")
    BY <1>4, DriverEffect DEF Initializing
  <2>3. CASE at \in ReadPlaces
    <3>1. sdpc \notin Initializing
      BY <1>0, <2>3 DEF Control, ReadPlaces
    <3>2. ~InWindow
      <4>1. sdpc # "idle"
        BY <1>4, DriverEffect DEF Initializing
      <4> QED BY <1>0, <4>1 DEF Requests
    <3>3. sdpc' = "idle" => IF reply' = <<>> THEN ~trusted'
                            ELSE /\ Len(reply') = asked[2]
                                 /\ trusted' => reply'[1] = asked[1]
      BY <1>4, <3>1, DriverEffect
    <3> QED BY <1>0, <2>1, <2>2, <2>3, <3>2, <3>3 DEF Requests
  <2>4. CASE at \notin ReadPlaces
    BY <1>1, <2>2, <2>4
  <2> QED BY <2>3, <2>4
<1>5. ASSUME NEW s \in Nat, NEW l \in {"entry", "fat"}, MoveWindow(s, l), Wanted' = s,
             sdpc = "idle"
      PROVE  Requests'
  <2>1. CASE window.sect = s
    <3>1. at' = l /\ window' = window /\ sdpc' = sdpc
      BY <1>5, <2>1 DEF MoveWindow, sdVars, driverVars
    <3> QED BY <1>5, <2>1, <3>1 DEF Requests, InWindow
  <2>2. CASE window.sect # s
    <3>1. DiskRead(s, 1, l) /\ window'.sect = NoSector
      BY <1>0, <1>5, <2>2 DEF MoveWindow, FileTypeOK
    <3>2. ~InWindow'
      BY <1>5, <3>1, SDCardAssumption DEF InWindow, NoSector
    <3> QED BY <1>2, <1>5, <3>1, <3>2, DiskReadEffect
  <2> QED BY <2>1, <2>2
<1>6. CASE FindVolume
  BY <1>1, <1>6 DEF FindVolume, ReadPlaces
<1>7. ASSUME NEW ok \in BOOLEAN, Opened(ok) PROVE at' \notin ReadPlaces
  BY <1>7 DEF Opened, ReadPlaces
<1>8. CASE CheckFs
  <2>1. CASE Opened(FALSE)
    BY <1>1, <1>7, <2>1
  <2>2. CASE ~Opened(FALSE)
    <3>1. DiskRead(BootSector, 1, "boot") /\ window'.sect = NoSector /\ at' = "boot"
      BY <1>0, <1>8, <2>2, DiskReadEffect DEF CheckFs, FileTypeOK
    <3>2. ~InWindow' /\ Wanted' = BootSector
      BY <3>1 DEF InWindow, Wanted
    <3> QED BY <1>2, <3>1, <3>2
  <2> QED BY <2>1, <2>2
<1>9. CASE Mount
  BY <1>1, <1>7, <1>9 DEF Mount, ReadPlaces
<1>10. CASE FollowPath
  <2>1. at = "path" /\ MoveWindow(DirSectors[entry], "entry") /\ UNCHANGED entry
    BY <1>10 DEF FollowPath
  <2>2. at' = "entry"
    BY <2>1, DiskReadEffect DEF MoveWindow
  <2>3. Wanted' = DirSectors[entry] /\ DirSectors[entry] \in Nat
    BY <1>0, <2>1, <2>2, DirectorySectors DEF Wanted, FileTypeOK
  <2>4. sdpc = "idle"
    BY <1>0, <2>1 DEF AtTypeOK
  <2> QED BY <1>5, <2>1, <2>3, <2>4
<1>11. CASE FindEntry
  BY <1>1, <1>7, <1>11 DEF FindEntry, ReadPlaces
<1>12. CASE ReadHeader
  <2>1. DiskRead(FirstSector, 1, "headerRead") /\ at' = "headerRead"
    BY <1>12, DiskReadEffect DEF ReadHeader
  <2>2. ~InWindow' /\ Wanted' = FirstSector
    BY <2>1 DEF InWindow, Wanted
  <2> QED BY <1>2, <2>1, <2>2
<1>13. CASE HeaderRead \/ NoHeader \/ Fill \/ Store \/ Finish \/ Update \/ LoadFile \/ StopFile
  BY <1>1, <1>13 DEF HeaderRead, NoHeader, Fill, Store, Finish, Update, LoadFile, StopFile,
     ReadPlaces
<1>14. ASSUME SeekReturns PROVE at' \notin ReadPlaces
  BY <1>14 DEF SeekReturns, ReadPlaces
<1>15. CASE Seek
  <2>1. CASE SeekReturns
    BY <1>1, <1>14, <2>1
  <2>2. CASE ~SeekReturns
    <3>1. DiskRead(SectorAt(fp'.fptr), 1, "seekRead") /\ at' = "seekRead"
      BY <1>15, <2>2, DiskReadEffect DEF Seek
    <3>2. ~InWindow' /\ Wanted' = SectorAt(fp'.fptr)
      BY <3>1 DEF InWindow, Wanted, SectorAt
    <3> QED BY <1>2, <3>1, <3>2
  <2> QED BY <2>1, <2>2
<1>16. CASE SeekRead
  BY <1>1, <1>14, <1>16 DEF SeekRead
<1>17. ASSUME ReadReturns PROVE at' \notin ReadPlaces
  BY <1>17 DEF ReadReturns, ReadPlaces
<1>18. CASE Read \/ FollowChain \/ DirectRead \/ BufferRead
  BY <1>1, <1>17, <1>18 DEF Read, FollowChain, DirectRead, BufferRead, ReadPlaces
<1>19. ASSUME Copy PROVE Requests'
  BY <1>1, <1>19 DEF Copy, ReadPlaces
<1>20. CASE ReadLoop
  <2>1. CASE MoveWindow(FatSector, "fat")
    <3>1. at' = "fat" /\ Wanted' = FatSector
      BY <2>1, DiskReadEffect DEF MoveWindow, Wanted
    <3>2. sdpc = "idle"
      BY <1>0, <1>20, ReadLoopIs DEF AtTypeOK
    <3> QED BY <1>5, <2>1, <3>1, <3>2, SizesNat
  <2>2. CASE ~MoveWindow(FatSector, "fat")
    BY <1>1, <1>17, <1>19, <1>20, <2>2, ReadLoopIs DEF ReadPlaces
  <2> QED BY <2>1, <2>2
<1>21. CASE ReadSector
  <2>1. CASE Copy
    BY <1>19, <2>1
  <2>2. CASE DiskRead(SectorAt(fp.fptr), 1, "buffered") /\ UNCHANGED fatVars
    <3>1. at' = "buffered" /\ fp' = fp
      BY <2>2, DiskReadEffect DEF fatVars
    <3>2. ~InWindow' /\ Wanted' = SectorAt(fp.fptr)
      BY <3>1 DEF InWindow, Wanted, SectorAt
    <3> QED BY <1>2, <2>2, <3>1, <3>2
  <2>3. CASE DiskRead(SectorAt(fp.fptr), WholeSectors, "direct") /\ UNCHANGED <<fatVars, bufVars>>
    <3>1. at' = "direct" /\ fp' = fp /\ btr' = btr
      BY <2>3, DiskReadEffect DEF fatVars, bufVars
    <3>2. ~InWindow' /\ Wanted' = SectorAt(fp.fptr) /\ WholeSectors' = WholeSectors
      BY <3>1 DEF InWindow, Wanted, SectorAt, WholeSectors
    <3> QED BY <2>3, <3>1, <3>2, DiskReadEffect DEF Requests
  <2> QED BY <1>21, <2>1, <2>2, <2>3, ReadSectorIs
<1>22. CASE UNCHANGED vars
  <2>1. UNCHANGED <<at, entry, fp, btr, window, asked, reply, sdpc, trusted>>
    BY <1>22 DEF vars, sdVars, driverVars, fatVars, bufVars
  <2>2. Wanted' = Wanted /\ WholeSectors' = WholeSectors /\ InWindow' = InWindow
    BY <2>1 DEF Wanted, WholeSectors, InWindow
  <2> QED BY <1>0, <2>1, <2>2 DEF Requests
<1> QED
  BY <1>3, <1>4, <1>6, <1>8, <1>9, <1>10, <1>11, <1>12, <1>13, <1>15, <1>16, <1>18, <1>20,
     <1>21, <1>22
  DEF FileNext, Player, Open, RamUpdate

-----------------------------------------------------------------------------
(* FatFs' buffers *)

\* Within the sector, or at the first byte of the next one
LEMMA WithinSector ==
  ASSUME NEW x \in Nat, NEW c \in Nat, c <= SS - (x % SS)
  PROVE  /\ c = SS - (x % SS) => (x + c) % SS = 0
         /\ c < SS - (x % SS) => (x + c) \div SS = x \div SS /\ (x + c) % SS = (x % SS) + c
<1> DEFINE q == x \div SS
           r == x % SS
<1>1. q \in Nat /\ r \in Nat /\ r < SS /\ x = q * SS + r
  BY Position
<1> HIDE DEF q, r
<1>2. ASSUME NEW p \in Nat, NEW y \in Nat, y < SS, x + c = p * SS + y
      PROVE  (x + c) \div SS = p /\ (x + c) % SS = y
  BY <1>2, SizesNat
<1>3. ASSUME c = SS - r PROVE (x + c) % SS = 0
  <2>1. x + c = (q + 1) * SS + 0
    BY <1>1, <1>3, SizesNat
  <2> QED BY <1>1, <1>2, <2>1, SizesNat
<1>4. ASSUME c < SS - r PROVE (x + c) \div SS = q /\ (x + c) % SS = r + c
  <2>1. x + c = q * SS + (r + c) /\ r + c < SS /\ r + c \in Nat
    BY <1>1, <1>4, SizesNat
  <2> QED BY <1>1, <1>2, <2>1
<1> QED BY <1>3, <1>4 DEF q, r

\* A trusted card fills the window with the sector that was wanted.
LEMMA MovedHonest ==
  ASSUME FileInv, trusted, sdpc = "idle", at \in {"boot", "entry", "fat"}
  PROVE  /\ Moved(Wanted) = [sect |-> Wanted, data |-> Wanted]
         /\ Finds(Wanted)
<1>1. Wanted \in Nat
  BY DirectorySectors, SizesNat DEF Wanted, FileInv, FileTypeOK
<1>2. CASE InWindow
  <2>1. at \in {"entry", "fat"} /\ window.sect = Wanted /\ mounted
    BY <1>2 DEF InWindow, FileInv, Control, LoopPlaces, FpValid
  <2>2. window.data = window.sect
    BY <1>1, <2>1, SDCardAssumption DEF FileInv, Buffers, NoSector
  <2>3. window = [sect |-> Wanted, data |-> Wanted]
    BY <2>1, <2>2 DEF FileInv, FileTypeOK
  <2> QED BY <2>1, <2>3 DEF Moved, Finds
<1>3. CASE ~InWindow
  <2>1. window.sect # Wanted
    BY <1>1, <1>3, SDCardAssumption DEF InWindow, FileInv, Requests, NoSector
  <2>2. reply # <<>> /\ reply[1] = Wanted
    BY <1>3 DEF FileInv, Requests, ReadPlaces
  <2>3. Moved(Wanted) = [sect |-> Wanted, data |-> Wanted]
    BY <2>1, <2>2 DEF Moved
  <2> QED BY <2>3 DEF Finds
<1> QED BY <1>2, <1>3

LEMMA BufferedHonest ==
  ASSUME FileInv, trusted, sdpc = "idle", at \in {"seekRead", "buffered"}
  PROVE  /\ reply # <<>> /\ Buffered.err = fp.err /\ Buffered.valid = fp.valid
         /\ Buffered.fptr = fp.fptr
         /\ Buffered.sect = SectorAt(fp.fptr) /\ Buffered.data = SectorAt(fp.fptr)
<1>1. ~InWindow /\ Wanted = SectorAt(fp.fptr) /\ FileTypeOK
  BY DEF InWindow, Wanted, FileInv
<1>2. reply # <<>> /\ reply[1] = SectorAt(fp.fptr)
  BY <1>1 DEF FileInv, Requests, ReadPlaces
<1> QED BY <1>1, <1>2, BufferedKeeps

LEMMA CopyStays ==
  ASSUME FileTypeOK, Copy
  PROVE  fp'.fptr % SS # 0 => SectorAt(fp'.fptr) = SectorAt(fp.fptr)
<1>1. PICK count \in Nat :
        /\ count <= SS - (fp.fptr % SS)
        /\ Take(count, [i \in 0 .. SS - 1 |-> ByteOf(fp.data, (fp.fptr % SS) + i)])
  BY CopyTakes
<1>2. fp'.fptr = fp.fptr + count /\ fp.fptr \in Nat
  BY <1>1, TakeKeeps DEF FileTypeOK
<1>3. fp.fptr % SS \in Nat /\ fp.fptr % SS < SS
  BY <1>2, Position
<1>4. count = SS - (fp.fptr % SS) \/ count < SS - (fp.fptr % SS)
  BY <1>1, <1>3, SizesNat
<1>5. CASE count = SS - (fp.fptr % SS)
  BY <1>1, <1>2, <1>5, WithinSector
<1>6. CASE count < SS - (fp.fptr % SS)
  <2>1. fp'.fptr \div SS = fp.fptr \div SS
    BY <1>1, <1>2, <1>6, WithinSector
  <2> QED BY <2>1 DEF SectorAt
<1> QED BY <1>4, <1>5, <1>6

LEMMA BuffersStep == FileInv /\ [FileNext]_vars => Buffers'
<1> SUFFICES ASSUME FileInv, [FileNext]_vars, trusted'
             PROVE  /\ mounted' /\ window'.sect # NoSector => window'.data = window'.sect
                    /\ Playing' =>
                         /\ FpValid' /\ ~fp'.err
                         /\ fp'.sect # NoSector => fp'.data = fp'.sect
                         /\ at' # "seekRead" /\ fp'.fptr % SS # 0
                              => fp'.sect = SectorAt(fp'.fptr)
  BY DEF Buffers
<1>0. FileTypeOK /\ AtTypeOK /\ Buffers /\ Control
  BY FileTypeParts DEF FileInv
<1> DEFINE WindowOK == mounted' /\ window'.sect # NoSector => window'.data = window'.sect
           FpOK == Playing' =>
                     /\ FpValid' /\ ~fp'.err
                     /\ fp'.sect # NoSector => fp'.data = fp'.sect
                     /\ at' # "seekRead" /\ fp'.fptr % SS # 0 => fp'.sect = SectorAt(fp'.fptr)
<1>1. ASSUME trusted, UNCHANGED mounted, UNCHANGED window \/ window'.sect = NoSector
      PROVE  WindowOK
  BY <1>0, <1>1 DEF Buffers
<1>2. ASSUME trusted, Playing' => Playing, UNCHANGED <<fp, mounted, sdStatus>>,
             at' = "seekRead" \/ at # "seekRead"
      PROVE  FpOK
  BY <1>0, <1>2 DEF Buffers, FpValid
<1>3. ASSUME ~Playing' PROVE FpOK
  BY <1>3
<1>4. ASSUME UNCHANGED <<sdVars, mounted, window, fp>>, at # "seekRead", Playing' => Playing
      PROVE  WindowOK /\ FpOK
  <2>1. trusted /\ UNCHANGED sdStatus
    BY <1>4 DEF sdVars, driverVars
  <2> QED BY <1>1, <1>2, <1>4, <2>1
<1>5. CASE Card
  BY <1>1, <1>2, <1>5, CardEffect DEF Playing
<1>6. CASE Driver
  <2>1. trusted /\ UNCHANGED <<mounted, window, fp, at, isOpen, caller>>
    BY <1>6, DriverEffect
  <2>2. Playing => sdStatus' = sdStatus
    <3>1. Playing => at # "initialize"
      BY <1>0 DEF Playing, Control, OpenPlaces
    <3>2. at # "initialize" => sdpc \notin Initializing
      BY <1>0 DEF Control
    <3> QED BY <1>6, <3>1, <3>2, DriverEffect
  <2> QED BY <1>1, <1>2, <1>3, <2>1, <2>2 DEF Playing
<1>7. CASE FindVolume
  <2>1. CASE mounted /\ sdStatus = 0
    BY <1>4, <1>7, <2>1 DEF FindVolume, Playing, playerVars
  <2>2. CASE ~(mounted /\ sdStatus = 0)
    BY <1>0, <1>7, <2>2 DEF FindVolume, Playing, playerVars, Control, OpenPlaces
  <2> QED BY <2>1, <2>2
<1>8. CASE CheckFs
  <2>1. ~mounted' /\ ~isOpen /\ caller = "header"
    BY <1>0, <1>8 DEF CheckFs, Returned, Control, OpenPlaces
  <2>2. ~Playing'
    BY <1>8, <2>1, DiskReadEffect DEF CheckFs, Opened, Playing, playerVars
  <2> QED BY <2>1, <2>2
<1>9. CASE Mount
  <2>1. at = "boot" /\ ~isOpen /\ caller = "header" /\ sdpc = "idle" /\ trusted
    BY <1>0, <1>9 DEF Mount, Returned, Control, OpenPlaces, sdVars
  <2>2. ~Playing'
    BY <1>9, <2>1 DEF Mount, Opened, Playing, playerVars
  <2>3. Wanted = BootSector
    BY <2>1 DEF Wanted
  <2>4. window' = [sect |-> BootSector, data |-> BootSector]
    BY <1>9, <2>1, <2>3, MovedHonest DEF Mount
  <2> QED BY <2>2, <2>4
<1>10. CASE FollowPath
  <2>1. trusted /\ UNCHANGED <<mounted, fp, isOpen, caller>> /\ at = "path" /\ at' = "entry"
        /\ (UNCHANGED window \/ window'.sect = NoSector)
    BY <1>0, <1>10, DiskReadEffect
    DEF FollowPath, MoveWindow, FileTypeOK, playerVars, sdVars
  <2>2. ~Playing'
    BY <1>0, <2>1 DEF Playing, Control, OpenPlaces
  <2> QED BY <1>1, <1>3, <2>1, <2>2
<1>11. CASE FindEntry
  <2>1. at = "entry" /\ ~isOpen /\ sdpc = "idle" /\ trusted /\ mounted /\ sdStatus = 0
        /\ UNCHANGED <<mounted, sdStatus>>
    BY <1>0, <1>11 DEF FindEntry, Returned, Control, OpenPlaces, sdVars, driverVars
  <2>2. Wanted = DirSectors[entry]
    BY <2>1 DEF Wanted
  <2>3. window' = [sect |-> Wanted, data |-> Wanted] /\ Finds(Wanted)
    BY <1>11, <2>1, <2>2, MovedHonest DEF FindEntry
  <2>4. CASE Opened(TRUE)
    <3>1. isOpen' = isOpen /\ caller' = caller
      BY <2>4 DEF Opened
    <3>2. CASE caller = "header"
      BY <2>1, <2>3, <3>1, <3>2 DEF Playing
    <3>3. CASE caller # "header"
      <4>1. fp'.valid /\ ~fp'.err /\ fp'.sect = NoSector /\ fp'.fptr = 0
        BY <2>4, <3>3 DEF Opened
      <4>2. 0 % SS = 0
        BY SizesNat
      <4> QED BY <2>1, <2>3, <4>1, <4>2 DEF FpValid
    <3> QED BY <3>2, <3>3
  <2>5. CASE ~Opened(TRUE)
    <3>1. at' = "path" /\ UNCHANGED <<fp, isOpen>>
      BY <1>11, <2>2, <2>3, <2>5 DEF FindEntry, playerVars
    <3> QED BY <2>1, <2>3, <3>1 DEF Playing
  <2> QED BY <2>4, <2>5
<1>12. CASE ReadHeader
  <2>1. trusted /\ UNCHANGED <<mounted, window, fp, isOpen>> /\ at = "header" /\ at' = "headerRead"
    BY <1>12, DiskReadEffect DEF ReadHeader, fatVars, playerVars
  <2>2. ~Playing'
    BY <1>0, <2>1 DEF Playing, Control, OpenPlaces
  <2> QED BY <1>1, <2>1, <2>2
<1>13. CASE HeaderRead
  BY <1>4, <1>13 DEF HeaderRead, Returned, Playing, playerVars
<1>14. CASE NoHeader
  BY <1>4, <1>14 DEF NoHeader, Returned, Playing, fatVars
<1>15. ASSUME SeekReturns, at \in {"seek", "seekRead"} PROVE Playing' => Playing
  BY <1>15 DEF SeekReturns, Playing
<1>16. CASE Seek
  <2>1. CASE (~FpValid \/ fp.err) /\ SeekReturns /\ UNCHANGED <<fp, sdVars>>
    BY <1>4, <1>15, <1>16, <2>1 DEF Seek, SeekReturns
  <2>2. CASE ~((~FpValid \/ fp.err) /\ SeekReturns /\ UNCHANGED <<fp, sdVars>>)
    <3> DEFINE p == Least(DataOffset, FileSize)
    <3>1. /\ at = "seek" /\ fp' = [fp EXCEPT !.fptr = p]
          /\ \/ fp.sect = SectorAt(fp'.fptr) /\ SeekReturns /\ UNCHANGED sdVars
             \/ /\ DiskRead(SectorAt(fp'.fptr), 1, "seekRead")
                /\ UNCHANGED <<mounted, window, caller, entry, playerVars, bufVars>>
      BY <1>16, <2>2, Zenon DEF FirstPlace, Seek
    <3>2. fp'.sect = fp.sect /\ fp'.data = fp.data /\ fp'.err = fp.err /\ fp'.valid = fp.valid
      BY <1>0, <3>1 DEF FileTypeOK
    <3>3. trusted /\ UNCHANGED <<mounted, sdStatus, window>>
      BY <3>1, DiskReadEffect DEF SeekReturns, sdVars, driverVars
    <3>4. Playing' => Playing
      BY <1>15, <3>1, DiskReadEffect DEF Playing, playerVars
    <3>5. at' = "seekRead" \/ fp'.sect = SectorAt(fp'.fptr)
      BY <3>1, <3>2, DiskReadEffect
    <3> QED BY <1>0, <1>1, <3>2, <3>3, <3>4, <3>5 DEF Buffers, FpValid
  <2> QED BY <2>1, <2>2
<1>17. CASE SeekRead
  <2>1. at = "seekRead" /\ sdpc = "idle" /\ fp' = Buffered /\ trusted
        /\ UNCHANGED <<mounted, sdStatus, window>> /\ SeekReturns
    BY <1>17 DEF SeekRead, SeekReturns, Returned, sdVars, driverVars
  <2>2. Playing' => Playing
    BY <1>15, <2>1
  <2> QED BY <1>0, <1>1, <2>1, <2>2, BufferedHonest DEF Buffers, FpValid
<1>18. CASE Fill
  BY <1>0, <1>4, <1>18 DEF Fill, Playing, fatVars, playerVars
<1>19. ASSUME ReadReturns, at \in FillPlaces
       PROVE  UNCHANGED mounted /\ (Playing' => Playing)
  BY <1>19 DEF ReadReturns, Playing, FillPlaces
<1>20. CASE Read
  BY <1>4, <1>19, <1>20 DEF Read, FillPlaces, Playing, playerVars
<1>21. ASSUME Copy, at \in {"read", "sector"}, fp.fptr % SS # 0 \/ fp.sect = SectorAt(fp.fptr)
       PROVE  WindowOK /\ FpOK
  <2>1. /\ fp'.valid = fp.valid /\ fp'.err = fp.err /\ fp'.sect = fp.sect /\ fp'.data = fp.data
        /\ at' = "read" /\ UNCHANGED <<isOpen, mounted, window, sdStatus, trusted>>
    BY <1>0, <1>21, CopyKeeps DEF sdVars, driverVars
  <2>2. Playing /\ fp.sect = SectorAt(fp.fptr)
    BY <1>0, <1>21, <2>1 DEF Playing, Control, FillPlaces, Buffers
  <2> QED BY <1>0, <1>1, <1>21, <2>1, <2>2, CopyStays DEF Buffers, FpValid
<1>22. CASE ReadLoop
  <2>1. CASE Copy /\ fp.fptr % SS # 0
    BY <1>21, <1>22, <2>1, ReadLoopIs
  <2>2. CASE ~(Copy /\ fp.fptr % SS # 0)
    <3>1. /\ at = "read" /\ fp' = fp
          /\ \/ ReadReturns /\ UNCHANGED <<window, sdVars>>
             \/ /\ UNCHANGED <<mounted, playerVars>>
                /\ MoveWindow(FatSector, "fat") \/ (at' = "sector" /\ UNCHANGED <<window, sdVars>>)
      BY <1>22, <2>2, ReadLoopIs
    <3>2. at' # "seekRead" /\ UNCHANGED mounted /\ (Playing' => Playing)
      <4>1. CASE ReadReturns
        BY <1>19, <3>1, <4>1 DEF FillPlaces, ReadReturns
      <4>2. CASE ~ReadReturns
        <5>1. at' \in {"fat", "sector"}
          BY <3>1, <4>2, DiskReadEffect DEF MoveWindow
        <5>2. UNCHANGED <<mounted, isOpen>>
          BY <3>1, <4>2 DEF playerVars
        <5> QED BY <5>1, <5>2 DEF Playing
      <4> QED BY <4>1, <4>2
    <3>3. trusted /\ sdStatus' = sdStatus /\ (UNCHANGED window \/ window'.sect = NoSector)
      <4>1. CASE UNCHANGED <<window, sdVars>>
        BY <4>1 DEF sdVars, driverVars
      <4>2. CASE MoveWindow(FatSector, "fat")
        BY <1>0, <4>2, DiskReadEffect DEF MoveWindow, FileTypeOK, sdVars, driverVars
      <4> QED BY <3>1, <4>1, <4>2
    <3> QED BY <1>1, <1>2, <3>1, <3>2, <3>3
  <2> QED BY <2>1, <2>2
<1>23. CASE FollowChain
  <2>1. at = "fat" /\ sdpc = "idle" /\ trusted /\ UNCHANGED sdStatus
    BY <1>23 DEF FollowChain, Returned, sdVars, driverVars
  <2>2. Wanted = FatSector
    BY <2>1 DEF Wanted
  <2>3. window' = [sect |-> Wanted, data |-> Wanted] /\ Finds(FatSector)
    BY <1>23, <2>1, <2>2, MovedHonest DEF FollowChain
  <2>4. at' = "sector" /\ UNCHANGED <<fp, mounted, isOpen>>
    BY <1>23, <2>3 DEF FollowChain, playerVars
  <2> QED BY <1>2, <2>1, <2>3, <2>4 DEF Playing
<1>24. CASE ReadSector
  <2>1. CASE Copy /\ fp.sect = SectorAt(fp.fptr)
    BY <1>21, <1>24, <2>1, ReadSectorIs
  <2>2. CASE ~(Copy /\ fp.sect = SectorAt(fp.fptr))
    <3>1. at = "sector" /\ at' \in {"direct", "buffered"} /\ trusted
          /\ UNCHANGED <<fp, mounted, window, sdStatus, isOpen>>
      BY <1>24, <2>2, ReadSectorIs, DiskReadEffect DEF fatVars, playerVars
    <3> QED BY <1>1, <1>2, <3>1 DEF Playing
  <2> QED BY <2>1, <2>2
<1>25. CASE DirectRead
  <2>1. at = "direct" /\ sdpc = "idle" /\ trusted /\ UNCHANGED <<window, sdStatus>>
    BY <1>25 DEF DirectRead, Returned, sdVars, driverVars
  <2>2. reply # <<>>
    BY <1>0, <2>1 DEF FileInv, Requests, ReadPlaces, InWindow
  <2>3. Len(reply) = 1
    BY <1>25, <2>2, DirectAnswer
  <2>4. /\ fp'.valid = fp.valid /\ fp'.err = fp.err /\ fp'.sect = fp.sect /\ fp'.data = fp.data
        /\ fp'.fptr = fp.fptr + SS * Len(reply)
        /\ at' = "read" /\ UNCHANGED <<isOpen, mounted>>
    BY <1>0, <1>25, <2>2, TakeKeeps DEF DirectRead, playerVars
  <2>5. fp'.fptr % SS = 0
    <3>1. fp.fptr % SS = 0 /\ fp.fptr \in Nat
      BY <2>1 DEF FileInv, Positions, FileTypeOK
    <3>2. fp'.fptr = fp.fptr + SS
      BY <2>3, <2>4, SizesNat
    <3> QED BY <3>1, <3>2, WithinSector, SizesNat
  <2>6. Playing
    BY <1>0, <2>1 DEF Playing, Control, FillPlaces
  <2> QED BY <1>0, <1>1, <2>1, <2>4, <2>5, <2>6 DEF Buffers, FpValid
<1>26. CASE BufferRead
  <2>1. at = "buffered" /\ sdpc = "idle" /\ fp' = Buffered /\ trusted /\ UNCHANGED <<sdStatus, window>>
    BY <1>26 DEF BufferRead, Returned, sdVars, driverVars
  <2>2. /\ reply # <<>> /\ fp'.err = fp.err /\ fp'.valid = fp.valid
        /\ fp'.fptr = fp.fptr
        /\ fp'.sect = SectorAt(fp.fptr) /\ fp'.data = SectorAt(fp.fptr)
    BY <2>1, BufferedHonest
  <2>3. UNCHANGED mounted /\ Playing
    BY <1>0, <1>26, <2>1, <2>2 DEF BufferRead, Playing, Control, FillPlaces
  <2> QED BY <1>0, <1>1, <2>1, <2>2, <2>3 DEF Buffers, FpValid
<1>27. CASE Store
  BY <1>4, <1>27 DEF Store, Playing, fatVars
<1>28. CASE Finish
  <2>1. CASE isOpen' = isOpen /\ fp' = fp
    BY <1>4, <1>28, <2>1 DEF Finish, Playing
  <2>2. CASE ~(isOpen' = isOpen /\ fp' = fp)
    <3>1. at' = "idle" /\ isOpen' = FALSE /\ UNCHANGED <<mounted, window, sdVars>>
      BY <1>28, <2>2 DEF Finish
    <3> QED BY <1>1, <3>1 DEF Playing, sdVars
  <2> QED BY <2>1, <2>2
<1>29. CASE Update \/ LoadFile \/ StopFile
  BY <1>4, <1>29 DEF Update, LoadFile, StopFile, Playing, fatVars, playerVars
<1>30. CASE UNCHANGED vars
  <2>1. trusted /\ UNCHANGED <<mounted, window, fp, sdStatus, at, isOpen, caller>>
    BY <1>30 DEF vars, sdVars, driverVars, fatVars, playerVars
  <2> QED BY <1>1, <1>2, <2>1 DEF Playing
<1> QED
  BY <1>5, <1>6, <1>7, <1>8, <1>9, <1>10, <1>11, <1>12, <1>13, <1>14, <1>16, <1>17, <1>18,
     <1>20, <1>22, <1>23, <1>24, <1>25, <1>26, <1>27, <1>28, <1>29, <1>30
  DEF FileNext, Player, Open, RamUpdate

-----------------------------------------------------------------------------
(* Positions *)

\* A call of f_read leads from one aligned position to another.
LEMMA ReadAligned ==
  ASSUME NEW x \in Nat, Aligned(x)
  PROVE  /\ FileSize - x \in Nat /\ Aligned(x + Least(ReadSize, FileSize - x))
         /\ Least(ReadSize, FileSize - x) \in Nat /\ Least(ReadSize, FileSize - x) <= 2 * SS
         /\ x % SS = 0 => Least(ReadSize, FileSize - x) = 0
<1>1. FileSize - x \in Nat /\ ReadSize \in Nat /\ ReadSize <= 2 * SS /\ ReadSize > 0
  BY ReadSizes, SizesNat DEF Aligned
<1>2. Least(ReadSize, FileSize - x) \in Nat /\ Least(ReadSize, FileSize - x) <= 2 * SS
  BY <1>1, LeastNat, SizesNat
<1>3. x % SS = 0 => x = FileSize
  BY SizesNat DEF Aligned
<1>4. x = FileSize => Least(ReadSize, FileSize - x) = 0
  BY <1>1 DEF Least
<1>5. (x + ReadSize) % SS = x % SS
  <2>1. x \div SS \in Nat /\ x % SS \in Nat /\ x % SS < SS /\ x = (x \div SS) * SS + (x % SS)
    BY Position
  <2> DEFINE q == x \div SS
             r == x % SS
  <2> HIDE DEF q, r
  <2>2. q \in Nat /\ r \in Nat /\ r < SS /\ x = q * SS + r
    BY <2>1 DEF q, r
  <2>3. PICK k \in Nat : ReadSize = k * SS
    <3>1. SS = 1 * SS /\ 1 \in Nat /\ 2 \in Nat
      BY SizesNat
    <3> QED BY <3>1, ReadSizes
  <2>4. x + ReadSize = (q + k) * SS + r
    BY <2>2, <2>3, SizesNat
  <2>5. \A p \in Nat, y \in Nat : y < SS => (p * SS + y) % SS = y
    BY SizesNat
  <2>6. (x + ReadSize) % SS = r
    BY <2>2, <2>4, <2>5
  <2> QED BY <2>6 DEF r
<1>6. CASE Least(ReadSize, FileSize - x) = ReadSize
  <2>1. x # FileSize
    BY <1>1, <1>4, <1>6
  <2>2. x % SS = DataOffset % SS
    BY <2>1 DEF Aligned
  <2>3. x + ReadSize <= FileSize
    BY <1>1, <1>6, LeastNat, SizesNat
  <2> QED BY <1>1, <1>2, <1>3, <1>4, <1>5, <1>6, <2>2, <2>3 DEF Aligned
<1>7. CASE Least(ReadSize, FileSize - x) = FileSize - x
  <2>1. x + (FileSize - x) = FileSize
    BY <1>1, SizesNat
  <2> QED BY <1>1, <1>2, <1>3, <1>4, <1>7, <2>1, SizesNat DEF Aligned
<1> QED BY <1>1, <1>6, <1>7, LeastNat

\* A copy brings the position on, and what is left down to less than two sectors.
LEMMA CopyAdvances ==
  ASSUME FileTypeOK, Copy, btr # 0, btr <= 2 * SS
  PROVE  /\ fp'.fptr \in Nat /\ btr' \in Nat /\ fp'.fptr + btr' = fp.fptr + btr
         /\ btr' < 2 * SS
<1>1. PICK count \in Nat :
        /\ count = Least(SS - (fp.fptr % SS), btr)
        /\ count <= btr /\ count <= SS - (fp.fptr % SS)
        /\ Take(count, [i \in 0 .. SS - 1 |-> ByteOf(fp.data, (fp.fptr % SS) + i)])
  BY CopyTakes
<1>2. fp'.fptr = fp.fptr + count /\ btr' = btr - count /\ fp.fptr \in Nat /\ btr \in Nat
  BY <1>1, TakeKeeps DEF FileTypeOK, Take
<1>3. fp.fptr % SS \in Nat /\ fp.fptr % SS < SS
  BY <1>2, Position
<1>4. count > 0
  BY <1>1, <1>2, <1>3, SizesNat DEF Least
<1>5. fp.fptr + count \in Nat /\ btr - count \in Nat
  BY <1>1, <1>2
<1>6. btr - count < 2 * SS
  BY <1>2, <1>4, SizesNat
<1>7. (fp.fptr + count) + (btr - count) = fp.fptr + btr
  BY <1>2
<1> QED BY <1>2, <1>5, <1>6, <1>7

LEMMA PositionsStep == FileInv /\ [FileNext]_vars => Positions'
<1> SUFFICES ASSUME FileInv, [FileNext]_vars PROVE Positions'
  OBVIOUS
<1>0. FileTypeOK /\ AtTypeOK /\ Positions /\ Control /\ fp.fptr \in Nat /\ btr \in Nat
  BY FileTypeParts DEF FileInv, FileTypeOK
<1> USE DEF LoopPlaces
<1>1. ASSUME UNCHANGED <<at, fp, btr, isOpen, caller, mounted, sdStatus>> PROVE Positions'
  <2>1. WholeSectors' = WholeSectors /\ FpValid' = FpValid
    BY <1>1 DEF WholeSectors, FpValid
  <2> QED BY <1>0, <1>1, <2>1 DEF Positions
<1>2. ASSUME at' \notin LoopPlaces, ~isOpen', ~(at' = "seekRead" /\ caller' = "play")
      PROVE  Positions'
  BY <1>2 DEF Positions
<1>3. ASSUME at' \notin LoopPlaces, at \notin LoopPlaces, at' # "seekRead",
             isOpen' => isOpen, UNCHANGED <<fp, mounted, sdStatus>>
      PROVE  Positions'
  BY <1>0, <1>3 DEF Positions, FpValid
<1>4. CASE Card
  BY <1>1, <1>4, CardEffect
<1>5. CASE Driver
  <2>1. UNCHANGED <<at, fp, btr, isOpen, caller, mounted>>
    BY <1>5, DriverEffect
  <2>2. CASE sdpc \in Initializing
    <3>1. at = "initialize" /\ ~isOpen
      BY <1>0, <2>2 DEF Control, OpenPlaces
    <3> QED BY <1>2, <2>1, <3>1
  <2>3. CASE sdpc \notin Initializing
    BY <1>1, <1>5, <2>1, <2>3, DriverEffect
  <2> QED BY <2>2, <2>3
<1>6. ASSUME NEW ok \in BOOLEAN, Opened(ok)
      PROVE  at' \in {"header", "noHeader", "seek"} /\ isOpen' = isOpen
  BY <1>6 DEF Opened
<1>7. ASSUME UNCHANGED isOpen, at \in OpenPlaces, at' \in OpenPlaces \cup {"idle", "seek"}
      PROVE  Positions'
  BY <1>0, <1>2, <1>7 DEF Control, OpenPlaces
<1>8. CASE FindVolume
  BY <1>7, <1>8 DEF FindVolume, playerVars, OpenPlaces
<1>9. CASE CheckFs
  BY <1>6, <1>7, <1>9, DiskReadEffect DEF CheckFs, Returned, playerVars, OpenPlaces
<1>10. CASE Mount
  BY <1>6, <1>7, <1>10 DEF Mount, Returned, playerVars, OpenPlaces
<1>11. CASE FollowPath
  BY <1>7, <1>11, DiskReadEffect DEF FollowPath, MoveWindow, playerVars, OpenPlaces
<1>12. CASE FindEntry
  BY <1>6, <1>7, <1>12 DEF FindEntry, Returned, playerVars, OpenPlaces
<1>13. CASE ReadHeader \/ HeaderRead
  BY <1>7, <1>13, DiskReadEffect DEF ReadHeader, HeaderRead, Returned, playerVars, OpenPlaces
<1>14. CASE NoHeader
  BY <1>2, <1>14 DEF NoHeader
<1>15. CASE Seek
  <2>1. CASE (~FpValid \/ fp.err) /\ SeekReturns /\ UNCHANGED <<fp, sdVars>>
    <3>1. ~FpValid' \/ fp'.err
      BY <2>1 DEF SeekReturns, FpValid, sdVars, driverVars
    <3>2. at' \notin LoopPlaces
      BY <2>1 DEF SeekReturns
    <3> QED BY <3>1, <3>2 DEF Positions
  <2>2. CASE ~((~FpValid \/ fp.err) /\ SeekReturns /\ UNCHANGED <<fp, sdVars>>)
    <3> DEFINE p == Least(DataOffset, FileSize)
    <3>1. /\ fp' = [fp EXCEPT !.fptr = p]
          /\ SeekReturns \/ DiskRead(SectorAt(fp'.fptr), 1, "seekRead")
      BY <1>15, <2>2, Zenon DEF FirstPlace, Seek
    <3>2. at' \notin LoopPlaces
      BY <3>1, DiskReadEffect DEF SeekReturns
    <3>3. Aligned(p)
      BY LeastNat, SizesNat DEF Aligned
    <3>4. fp'.fptr = p
      BY <1>0, <3>1 DEF FileTypeOK
    <3> HIDE DEF p
    <3> QED BY <3>2, <3>3, <3>4 DEF Positions
  <2> QED BY <2>1, <2>2
<1>16. CASE SeekRead
  <2>1. at = "seekRead" /\ fp' = Buffered /\ at' \in {"idle", "fill"}
        /\ UNCHANGED <<mounted, sdStatus>>
        /\ (isOpen' => isOpen \/ caller = "play")
    BY <1>16 DEF SeekRead, Returned, SeekReturns, sdVars, driverVars
  <2>2. fp'.fptr = fp.fptr /\ fp'.valid = fp.valid /\ (~fp'.err => ~fp.err)
    BY <1>0, <2>1, BufferedKeeps
  <2> QED BY <1>0, <2>1, <2>2 DEF Positions, FpValid
<1>17. CASE Fill
  BY <1>3, <1>17 DEF Fill, sdVars, driverVars, fatVars, playerVars
<1>18. ASSUME ReadReturns, UNCHANGED <<fp, sdStatus>>,
              at \in LoopPlaces => btr = 0 \/ ~FpValid \/ fp.err
       PROVE  Positions'
  <2>1. at' \in {"call", "store"} /\ UNCHANGED <<isOpen, mounted>>
    BY <1>18 DEF ReadReturns
  <2>2. FpValid' = FpValid
    BY <1>18, <2>1 DEF FpValid
  <2>3. CASE at \in LoopPlaces /\ btr = 0
    <3>1. Aligned(fp.fptr)
      <4>1. Aligned(fp.fptr + btr) /\ fp.fptr + btr = fp.fptr
        BY <1>0, <2>3 DEF Positions
      <4> QED BY <4>1
    <3> QED BY <1>18, <2>1, <3>1 DEF Positions
  <2>4. CASE ~FpValid \/ fp.err
    BY <1>18, <2>1, <2>2, <2>4 DEF Positions
  <2>5. CASE at \notin LoopPlaces
    BY <1>3, <1>18, <2>1, <2>5
  <2> QED BY <1>18, <2>3, <2>4, <2>5
<1>19. ASSUME ReadReturns, fp'.err PROVE Positions'
  BY <1>19 DEF ReadReturns, Positions
<1>20. CASE Read
  <2>1. CASE FpValid /\ ~fp.err
    <3>1. /\ at = "call" /\ at' = "read" /\ fp' = fp
          /\ btr' = Least(ReadSize, FileSize - fp.fptr)
      BY <1>20, <2>1 DEF Read
    <3>2. Aligned(fp.fptr)
      BY <1>0, <2>1, <3>1 DEF Positions, Control, FillPlaces
    <3>3. /\ btr' <= 2 * SS /\ (fp.fptr % SS = 0 => btr' = 0) /\ Aligned(fp.fptr + btr')
      BY <1>0, <3>1, <3>2, ReadAligned
    <3>4. fp.fptr % SS = 0 => btr' < 2 * SS
      BY <3>3, SizesNat
    <3> QED BY <3>1, <3>3, <3>4 DEF Positions
  <2>2. CASE ~(FpValid /\ ~fp.err)
    BY <1>18, <1>20, <2>2 DEF Read, sdVars, driverVars
  <2> QED BY <2>1, <2>2
<1>21. ASSUME Copy, at \in {"read", "sector"}, btr # 0 PROVE Positions'
  <2>1. Aligned(fp.fptr + btr) /\ btr <= 2 * SS
    BY <1>0, <1>21 DEF Positions
  <2>2. /\ fp'.fptr + btr' = fp.fptr + btr /\ btr' < 2 * SS /\ btr' \in Nat /\ at' = "read"
    BY <1>0, <1>21, <2>1, CopyAdvances, CopyKeeps
  <2>3. Aligned(fp'.fptr + btr') /\ btr' <= 2 * SS
    BY <2>1, <2>2, SizesNat
  <2> QED BY <2>2, <2>3 DEF Positions
<1>22. ASSUME UNCHANGED <<fp, btr>>, at \in LoopPlaces, btr # 0, fp.fptr % SS = 0,
              at' \in {"fat", "sector", "buffered"}
       PROVE  Positions'
  <2>1. Aligned(fp.fptr + btr) /\ btr < 2 * SS /\ btr <= 2 * SS
    BY <1>0, <1>22, SizesNat DEF Positions
  <2> QED BY <1>22, <2>1 DEF Positions
<1>23. CASE ReadLoop
  <2>1. CASE Copy /\ btr # 0
    BY <1>21, <1>23, <2>1, ReadLoopIs
  <2>2. CASE ReadReturns /\ btr = 0 /\ UNCHANGED <<fp, sdVars>>
    BY <1>18, <2>2 DEF sdVars, driverVars
  <2>3. CASE /\ btr # 0 /\ fp.fptr % SS = 0 /\ UNCHANGED <<fp, bufVars>>
             /\ at' \in {"fat", "sector"}
    BY <1>22, <1>23, <2>3, ReadLoopIs DEF bufVars
  <2> QED
    <3>1. MoveWindow(FatSector, "fat") => at' = "fat"
      BY DiskReadEffect DEF MoveWindow
    <3> QED BY <1>23, <2>1, <2>2, <2>3, <3>1, ReadLoopIs
<1>24. CASE FollowChain
  <2>1. at = "fat" /\ UNCHANGED <<btr, sdVars>>
    BY <1>24 DEF FollowChain, Returned
  <2>2. CASE Finds(FatSector)
    <3>1. at' = "sector" /\ fp' = fp
      BY <1>24, <2>2 DEF FollowChain
    <3> QED BY <1>0, <1>22, <2>1, <3>1 DEF Positions
  <2>3. CASE ~Finds(FatSector)
    <3>1. ReadReturns /\ fp'.err
      BY <1>0, <1>24, <2>3 DEF FollowChain, FileTypeOK
    <3> QED BY <1>19, <3>1
  <2> QED BY <2>2, <2>3
<1>25. CASE ReadSector
  <2>0. at = "sector" /\ btr # 0 /\ fp.fptr % SS = 0
    BY <1>0, <1>25, ReadSectorIs DEF Positions
  <2>1. CASE Copy
    BY <1>21, <2>0, <2>1
  <2>2. CASE DiskRead(SectorAt(fp.fptr), 1, "buffered") /\ UNCHANGED <<fatVars, bufVars>>
    BY <1>22, <2>0, <2>2, DiskReadEffect DEF fatVars, bufVars
  <2>3. CASE /\ DiskRead(SectorAt(fp.fptr), WholeSectors, "direct") /\ WholeSectors > 0
             /\ UNCHANGED <<fatVars, bufVars>>
    <3>1. at' = "direct" /\ fp' = fp /\ btr' = btr
      BY <2>3, DiskReadEffect DEF fatVars, bufVars
    <3>2. WholeSectors' = WholeSectors
      BY <3>1 DEF WholeSectors
    <3>3. Aligned(fp.fptr + btr) /\ btr < 2 * SS /\ btr <= 2 * SS
      BY <1>0, <2>0, SizesNat DEF Positions
    <3>4. WholeSectors \in Nat /\ WholeSectors <= btr \div SS
      BY <1>0, WholeSectorsType DEF WholeSectors
    <3>5. btr \div SS <= 1
      BY <1>0, <3>3, SizesNat
    <3>6. WholeSectors = 1
      BY <1>0, <2>3, <3>4, <3>5, Position
    <3> QED BY <2>0, <3>1, <3>2, <3>3, <3>6 DEF Positions
  <2> QED BY <1>25, <2>1, <2>2, <2>3, ReadSectorIs
<1>26. CASE DirectRead
  <2>1. CASE reply = <<>>
    <3>1. ReadReturns /\ fp'.err
      BY <1>0, <1>26, <2>1 DEF DirectRead, FileTypeOK
    <3> QED BY <1>19, <3>1
  <2>2. CASE reply # <<>>
    <3>1. Len(reply) = 1 /\ SS <= btr
      BY <1>26, <2>2, DirectAnswer
    <3>2. /\ fp'.fptr = fp.fptr + SS * Len(reply) /\ btr' = btr - SS * Len(reply) /\ at' = "read"
      BY <1>0, <1>26, <2>2, TakeKeeps DEF DirectRead, Take
    <3>3. fp'.fptr = fp.fptr + SS /\ btr' = btr - SS
      BY <3>1, <3>2, SizesNat
    <3>4. Aligned(fp.fptr + btr) /\ btr < 2 * SS
      BY <1>0, <1>26 DEF DirectRead, Returned, Positions
    <3>5. fp'.fptr + btr' = fp.fptr + btr /\ btr' < 2 * SS /\ btr' <= 2 * SS
      BY <1>0, <3>1, <3>3, <3>4, SizesNat
    <3> QED BY <3>2, <3>4, <3>5 DEF Positions
  <2> QED BY <2>1, <2>2
<1>27. CASE BufferRead
  <2>1. at = "buffered" /\ fp' = Buffered /\ UNCHANGED btr
    BY <1>27 DEF BufferRead, Returned
  <2>2. CASE reply = <<>>
    BY <1>0, <1>19, <1>27, <2>1, <2>2, BufferedKeeps DEF BufferRead
  <2>3. CASE reply # <<>>
    <3>1. at' = "sector" /\ fp'.fptr = fp.fptr
      BY <1>0, <1>27, <2>1, <2>3, BufferedKeeps DEF BufferRead
    <3>2. Aligned(fp.fptr + btr) /\ btr < 2 * SS /\ btr <= 2 * SS /\ btr # 0 /\ fp.fptr % SS = 0
      BY <1>0, <2>1, SizesNat DEF Positions
    <3> QED BY <2>1, <3>1, <3>2 DEF Positions
  <2> QED BY <2>2, <2>3
<1>28. CASE Store
  BY <1>3, <1>28 DEF Store, fatVars, sdVars, driverVars
<1>29. CASE Finish
  <2>1. CASE isOpen' = isOpen /\ fp' = fp
    BY <1>3, <1>29, <2>1 DEF Finish, sdVars, driverVars
  <2>2. CASE ~(isOpen' = isOpen /\ fp' = fp)
    <3>1. at' = "idle" /\ isOpen' = FALSE
      BY <1>29, <2>2 DEF Finish
    <3> QED BY <1>2, <3>1
  <2> QED BY <2>1, <2>2
<1>30. CASE Update \/ LoadFile \/ StopFile
  BY <1>3, <1>30 DEF Update, LoadFile, StopFile, fatVars, playerVars, sdVars, driverVars
<1>31. CASE UNCHANGED vars
  BY <1>1, <1>31 DEF vars, sdVars, driverVars, fatVars, playerVars, bufVars
<1> QED
  BY <1>4, <1>5, <1>8, <1>9, <1>10, <1>11, <1>12, <1>13, <1>14, <1>15, <1>16, <1>17, <1>20,
     <1>23, <1>24, <1>25, <1>26, <1>27, <1>28, <1>29, <1>30, <1>31
  DEF FileNext, Player, Open, RamUpdate

-----------------------------------------------------------------------------
(* Contents *)

\* Sector by sector the bytes of the file lie one after the other on the card.
LEMMA PlaceOnCard ==
  ASSUME NEW x \in Nat, NEW j \in Nat
  PROVE  ByteOf(SectorAt(x), (x % SS) + j) = FirstSector * SS + x + j
<1> DEFINE q == x \div SS
           r == x % SS
<1>1. q \in Nat /\ r \in Nat /\ x = q * SS + r
  BY Position
<1>2. ByteOf(SectorAt(x), r + j) = (FirstSector + q) * SS + (r + j)
  BY Position DEF ByteOf, SectorAt
<1> HIDE DEF q, r
<1>3. (FirstSector + q) * SS + (r + j) = FirstSector * SS + x + j
  BY <1>1, SizesNat
<1> QED BY <1>2, <1>3 DEF r

\* The bytes a request brings are those of the file.
Fitting(bytes, count) ==
  \A j \in 0 .. count - 1 : bytes[j] = FirstSector * SS + fp.fptr + j

LEMMA CopyFits ==
  ASSUME FileTypeOK, fp.data = SectorAt(fp.fptr), NEW count \in Nat,
         count <= SS - (fp.fptr % SS)
  PROVE  Fitting([i \in 0 .. SS - 1 |-> ByteOf(fp.data, (fp.fptr % SS) + i)], count)
<1>1. fp.fptr \in Nat
  BY DEF FileTypeOK
<1>2. fp.fptr % SS \in Nat
  BY <1>1, Position
<1>3. ASSUME NEW j \in 0 .. count - 1
      PROVE  [i \in 0 .. SS - 1 |-> ByteOf(fp.data, (fp.fptr % SS) + i)][j]
               = FirstSector * SS + fp.fptr + j
  <2>1. j \in 0 .. SS - 1 /\ j \in Nat
    BY <1>2, SizesNat
  <2> QED BY <1>1, <2>1, PlaceOnCard
<1> QED BY <1>3, Zenon DEF Fitting

LEMMA DirectFits ==
  ASSUME FileTypeOK, fp.fptr % SS = 0, Len(reply) = 1, reply[1] = SectorAt(fp.fptr)
  PROVE  Fitting([i \in 0 .. SS * Len(reply) - 1 |-> ByteOf(reply[i \div SS + 1], i % SS)],
                 SS * Len(reply))
<1>1. fp.fptr \in Nat /\ SS * Len(reply) = SS
  BY SizesNat DEF FileTypeOK
<1>2. ASSUME NEW j \in 0 .. SS - 1
      PROVE  ByteOf(reply[j \div SS + 1], j % SS) = FirstSector * SS + fp.fptr + j
  <2>1. j \div SS = 0 /\ j % SS = j /\ j \in Nat
    BY SizesNat
  <2>2. (fp.fptr % SS) + j = j
    BY <2>1
  <2>3. reply[j \div SS + 1] = SectorAt(fp.fptr)
    BY <2>1
  <2> QED BY <1>1, <2>1, <2>2, <2>3, PlaceOnCard
<1> QED BY <1>1, <1>2 DEF Fitting

\* After such a request the buffer holds so much more of the file.
LEMMA TakeContents ==
  ASSUME FileInv, trusted, at \in LoopPlaces, btr # 0,
         NEW count \in Nat, NEW bytes, Take(count, bytes), Fitting(bytes, count),
         UNCHANGED <<start, call>>, at' = "read"
  PROVE  Contents'
<1>1. /\ fp.fptr \in Nat /\ btr \in Nat /\ start \in Nat /\ start <= fp.fptr
      /\ rbuff = fp.fptr - start /\ Got(call, fp.fptr + btr)
  BY DEF FileInv, FileTypeOK, Contents, FillPlaces, LoopPlaces
<1>2. \A i \in Buffer : buffer[i] = IF i < fp.fptr - start THEN FirstSector * SS + start + i
                                    ELSE Garbage
  BY DEF FileInv, Contents, FillPlaces, LoopPlaces
<1>3. /\ fp'.fptr = fp.fptr + count /\ btr' = btr - count /\ rbuff' = rbuff + count
      /\ buffer' = [i \in Buffer |->
           IF i \in rbuff .. rbuff + count - 1 THEN bytes[i - rbuff] ELSE buffer[i]]
  BY TakeKeeps DEF Take, FileInv
<1>4. fp'.fptr + btr' = fp.fptr + btr /\ rbuff' = fp'.fptr - start /\ start <= fp'.fptr
  BY <1>1, <1>3
<1>5. Got(call, fp.fptr + btr)'
  BY <1>1, <1>3, <1>4 DEF Got
<1>6. ASSUME NEW i \in Buffer
      PROVE  buffer'[i] = IF i < fp'.fptr - start THEN FirstSector * SS + start + i
                          ELSE Garbage
  <2>1. i \in Nat
    BY DEF Buffer
  <2>2. CASE i \in rbuff .. rbuff + count - 1
    <3>1. i - rbuff \in 0 .. count - 1
      BY <1>1, <2>1, <2>2
    <3>2. buffer'[i] = FirstSector * SS + fp.fptr + (i - rbuff)
      BY <1>3, <2>2, <3>1 DEF Fitting
    <3>3. FirstSector * SS \in Nat
      BY SizesNat
    <3>4. FirstSector * SS + fp.fptr + (i - rbuff) = FirstSector * SS + start + i
      BY <1>1, <2>1, <3>3
    <3> QED BY <1>1, <1>3, <2>1, <2>2, <3>2, <3>4
  <2>3. CASE i \notin rbuff .. rbuff + count - 1
    <3>1. buffer'[i] = buffer[i]
      BY <1>3, <2>3
    <3>2. (i < fp'.fptr - start) <=> (i < fp.fptr - start)
      BY <1>1, <1>3, <2>1, <2>3
    <3> QED BY <1>2, <3>1, <3>2
  <2> QED BY <2>2, <2>3
<1> QED BY <1>4, <1>5, <1>6, Zenon DEF Contents, FillPlaces, LoopPlaces

\* A call of f_read begins where the last one ended.
LEMMA CallBegins ==
  ASSUME FileInv, trusted, at = "call", Aligned(fp.fptr)
  PROVE  LET n == Least(ReadSize, FileSize - fp.fptr)
         IN  /\ Got(call, fp.fptr + n)
             /\ n # 0 => ReadSize * (call - 1) = fp.fptr - start
<1>1. /\ fp.fptr \in Nat /\ start \in Nat /\ call \in 1 .. ReadCount
      /\ Got(call - 1, fp.fptr) /\ start <= fp.fptr
  BY DEF FileInv, FileTypeOK, Contents, FillPlaces, LoopPlaces
<1> DEFINE n == Least(ReadSize, FileSize - fp.fptr)
           b == ReadSize * (call - 1)
<1>2. FileSize - fp.fptr \in Nat /\ ReadSize \in Nat /\ n \in Nat
      /\ (n = ReadSize \/ n = FileSize - fp.fptr) /\ n <= ReadSize
      /\ (fp.fptr = FileSize => n = 0)
  <2>1. FileSize - fp.fptr \in Nat /\ ReadSize \in Nat
    BY <1>1, ReadAligned, ReadSizes
  <2>2. n \in Nat /\ (n = ReadSize \/ n = FileSize - fp.fptr) /\ n <= ReadSize
        /\ n <= FileSize - fp.fptr
    BY <2>1, LeastNat
  <2>3. fp.fptr = FileSize => n = 0
    <3> HIDE DEF n
    <3> QED BY <1>1, <2>2, SizesNat
  <2> QED BY <2>1, <2>2, <2>3
<1>3. b \in Nat /\ ReadSize * call = b + ReadSize
  <2>1. call = 1 \/ call = 2
    BY <1>1, ReadSizes
  <2>2. ReadSize * 0 = 0 /\ ReadSize * 1 = ReadSize /\ ReadSize * 2 = ReadSize + ReadSize
    BY <1>2
  <2>3. CASE call = 1
    BY <1>2, <2>2, <2>3
  <2>4. CASE call = 2
    BY <1>2, <2>2, <2>4
  <2> QED BY <2>1, <2>3, <2>4
<1>4. fp.fptr = start + b \/ (fp.fptr = FileSize /\ fp.fptr <= start + b)
  BY <1>1 DEF Got
<1> HIDE DEF n, b
<1>5. fp.fptr + n = start + (b + ReadSize)
      \/ (fp.fptr + n = FileSize /\ fp.fptr + n <= start + (b + ReadSize))
  BY <1>1, <1>2, <1>3, <1>4, SizesNat
<1>6. n # 0 => b = fp.fptr - start
  BY <1>1, <1>2, <1>3, <1>4
<1>7. Got(call, fp.fptr + n)
  BY <1>3, <1>5 DEF Got
<1> QED BY <1>6, <1>7 DEF n, b

LEMMA ContentsStep == FileInv /\ [FileNext]_vars => Contents'
<1> SUFFICES ASSUME FileInv, [FileNext]_vars, trusted' PROVE Contents'
  BY DEF Contents
<1>0. FileTypeOK /\ AtTypeOK /\ Contents /\ Control /\ fp.fptr \in Nat /\ btr \in Nat
  BY FileTypeParts DEF FileInv, FileTypeOK
<1> USE DEF LoopPlaces, FillPlaces
<1>1. ASSUME trusted, UNCHANGED <<at, fp, btr, rbuff, buffer, start, call>> PROVE Contents'
  BY <1>0, <1>1 DEF Contents, Got
<1>2. ASSUME at' \notin FillPlaces \ {"fill"} PROVE Contents'
  BY <1>2, Zenon DEF Contents
<1>3. ASSUME trusted, at \in LoopPlaces, at' \in LoopPlaces, fp'.fptr = fp.fptr,
             UNCHANGED <<btr, rbuff, buffer, start, call>>
      PROVE  Contents'
  BY <1>0, <1>3 DEF Contents, Got
<1>4. ASSUME trusted, ReadReturns, at \in LoopPlaces, btr = 0, UNCHANGED <<fp, buffer>>
      PROVE  Contents'
  <2>1. Got(call, fp.fptr)
    <3>1. Got(call, fp.fptr + btr) /\ fp.fptr + btr = fp.fptr
      BY <1>0, <1>4 DEF Contents
    <3> QED BY <3>1
  <2>2. start' = start
    BY <1>4 DEF ReadReturns
  <2>3. /\ start <= fp.fptr
        /\ \A i \in Buffer :
             buffer[i] = IF i < fp.fptr - start THEN FirstSector * SS + start + i
                         ELSE Garbage
    BY <1>0, <1>4 DEF Contents
  <2>4. CASE call < ReadCount
    <3>1. at' = "call" /\ call' = call + 1 /\ call' - 1 = call
      BY <1>0, <1>4, <2>4, ReadSizes DEF ReadReturns, FileTypeOK
    <3>2. Got(call - 1, fp.fptr)'
      BY <1>4, <2>1, <2>2, <3>1 DEF Got
    <3> QED BY <1>4, <2>2, <2>3, <3>1, <3>2 DEF Contents
  <2>5. CASE ~(call < ReadCount)
    <3>1. at' = "store" /\ call = ReadCount
      BY <1>0, <1>4, <2>5, ReadSizes DEF ReadReturns, FileTypeOK
    <3>2. Got(ReadCount, fp.fptr)'
      BY <1>4, <2>1, <2>2, <3>1 DEF Got
    <3> QED BY <1>4, <2>2, <2>3, <3>1, <3>2 DEF Contents
  <2> QED BY <2>4, <2>5
<1>5. at \in FillPlaces /\ trusted => FpValid /\ ~fp.err
  BY <1>0 DEF Control, Playing, FileInv, Buffers
<1>6. CASE Card
  BY <1>1, <1>6, CardEffect
<1>7. CASE Driver
  BY <1>1, <1>7, DriverEffect
<1>8. ASSUME NEW ok \in BOOLEAN, Opened(ok) PROVE at' \notin FillPlaces
  BY <1>8 DEF Opened
<1>9. CASE Open
  <2>1. CASE FindVolume \/ FollowPath
    <3>1. at' \in {"path", "initialize", "entry"}
      BY <2>1, DiskReadEffect DEF FindVolume, FollowPath, MoveWindow
    <3> QED BY <1>2, <3>1
  <2>2. CASE CheckFs \/ Mount \/ FindEntry
    <3>1. at' \notin FillPlaces
      <4>1. CASE CheckFs
        <5>1. CASE Opened(FALSE)
          BY <1>8, <5>1
        <5>2. CASE ~Opened(FALSE)
          <6>1. DiskRead(BootSector, 1, "boot")
            BY <4>1, <5>2, Zenon DEF CheckFs
          <6>2. at' = "boot"
            BY <6>1, DiskReadEffect, Zenon
          <6> QED BY <6>2 DEF FillPlaces
        <5> QED BY <5>1, <5>2
      <4>2. CASE Mount
        BY <1>8, <4>2 DEF Mount
      <4>3. CASE FindEntry
        BY <1>8, <4>3 DEF FindEntry
      <4> QED BY <2>2, <4>1, <4>2, <4>3
    <3> QED BY <1>2, <3>1
  <2> QED BY <1>9, <2>1, <2>2 DEF Open
<1>10. CASE ReadHeader \/ HeaderRead \/ NoHeader
  <2>1. at' \in {"headerRead", "open", "idle"}
    BY <1>10, DiskReadEffect DEF ReadHeader, HeaderRead, NoHeader
  <2> QED BY <1>2, <2>1
<1>11. CASE Seek \/ SeekRead
  BY <1>2, <1>11, DiskReadEffect DEF Seek, SeekRead, SeekReturns
<1>12. CASE Fill
  <2>1. /\ at' = "call" /\ call' = 1 /\ start' = fp.fptr /\ fp' = fp
        /\ buffer' = [i \in Buffer |-> Garbage]
    BY <1>12 DEF Fill, fatVars
  <2>2. Got(call - 1, fp.fptr)'
    <3>1. call' - 1 = 0 /\ ReadSize * 0 = 0
      BY <2>1, ReadSizes
    <3> QED BY <1>0, <2>1, <3>1 DEF Got
  <2>3. \A i \in Buffer : ~(i < fp'.fptr - start')
    BY <1>0, <2>1 DEF Buffer
  <2> QED BY <1>0, <2>1, <2>2, <2>3 DEF Contents
<1>13. CASE Read
  <2>1. at = "call" /\ trusted /\ FpValid /\ ~fp.err
    BY <1>5, <1>13 DEF Read, sdVars
  <2>2. /\ at' = "read" /\ btr' = Least(ReadSize, FileSize - fp.fptr)
        /\ rbuff' = ReadSize * (call - 1)
        /\ UNCHANGED <<call, start, fp, buffer>>
    BY <1>13, <2>1 DEF Read
  <2>3. Aligned(fp.fptr)
    BY <1>0, <2>1 DEF FileInv, Positions, Control
  <2>4. Got(call, fp.fptr + btr') /\ (btr' # 0 => rbuff' = fp.fptr - start)
    BY <2>1, <2>2, <2>3, CallBegins
  <2>5. Got(call, fp.fptr + btr)'
    BY <2>2, <2>4 DEF Got
  <2> QED BY <1>0, <2>1, <2>2, <2>4, <2>5 DEF Contents
<1>14. ASSUME Copy, at \in {"read", "sector"}, btr # 0, trusted,
              fp.fptr % SS # 0 \/ fp.sect = SectorAt(fp.fptr)
       PROVE  Contents'
  <2>1. PICK count \in Nat :
          /\ count <= SS - (fp.fptr % SS)
          /\ Take(count, [i \in 0 .. SS - 1 |-> ByteOf(fp.data, (fp.fptr % SS) + i)])
    BY <1>0, <1>14, CopyTakes
  <2>2. fp.sect = SectorAt(fp.fptr) /\ fp.data = fp.sect
    <3>1. Playing
      BY <1>0, <1>14 DEF Playing, Control
    <3>2. fp.sect = SectorAt(fp.fptr)
      BY <1>14, <3>1 DEF FileInv, Buffers
    <3>3. fp.sect # NoSector
      BY <1>0, <3>2, Position, SDCardAssumption DEF NoSector
    <3> QED BY <1>14, <3>1, <3>2, <3>3 DEF FileInv, Buffers
  <2>3. Fitting([i \in 0 .. SS - 1 |-> ByteOf(fp.data, (fp.fptr % SS) + i)], count)
    BY <1>0, <2>1, <2>2, CopyFits
  <2> QED BY <1>0, <1>14, <2>1, <2>3, CopyKeeps, TakeContents
<1>15. CASE ReadLoop
  <2>0. trusted
    BY <1>0, <1>15, ReadLoopIs, CopyKeeps, DiskReadEffect DEF MoveWindow, sdVars
  <2>1. CASE Copy /\ btr # 0 /\ fp.fptr % SS # 0
    BY <1>14, <1>15, <2>0, <2>1, ReadLoopIs
  <2>2. CASE ReadReturns /\ btr = 0 /\ UNCHANGED <<fp, buffer>>
    BY <1>4, <1>15, <2>0, <2>2, ReadLoopIs
  <2>3. CASE UNCHANGED <<fp, bufVars>> /\ at' \in {"fat", "sector"}
    BY <1>3, <1>15, <2>0, <2>3, ReadLoopIs DEF bufVars
  <2> QED
    <3>1. MoveWindow(FatSector, "fat") => at' = "fat"
      BY DiskReadEffect DEF MoveWindow
    <3> QED BY <1>15, <2>1, <2>2, <2>3, <3>1, ReadLoopIs
<1>16. CASE FollowChain
  <2>1. at = "fat" /\ sdpc = "idle" /\ trusted /\ UNCHANGED <<btr, rbuff, buffer>>
    BY <1>16 DEF FollowChain, Returned, sdVars
  <2>2. Wanted = FatSector
    BY <2>1 DEF Wanted
  <2>3. Finds(FatSector)
    BY <2>1, <2>2, MovedHonest
  <2>4. at' = "sector" /\ UNCHANGED <<fp, call, start>>
    BY <1>16, <2>3 DEF FollowChain
  <2> QED BY <1>3, <2>1, <2>4
<1>17. CASE ReadSector
  <2>0. at = "sector" /\ btr # 0
    BY <1>0, <1>17, ReadSectorIs DEF FileInv, Positions
  <2>1. CASE Copy /\ fp.sect = SectorAt(fp.fptr)
    <3>1. trusted
      BY <1>0, <2>1, CopyKeeps DEF sdVars
    <3> QED BY <1>14, <2>0, <2>1, <3>1
  <2>2. CASE ~(Copy /\ fp.sect = SectorAt(fp.fptr))
    <3>1. at' \in {"direct", "buffered"} /\ trusted /\ UNCHANGED <<fp, btr, rbuff, buffer, start, call>>
      BY <1>17, <2>2, ReadSectorIs, DiskReadEffect DEF fatVars, bufVars
    <3> QED BY <1>3, <2>0, <3>1
  <2> QED BY <2>1, <2>2
<1>18. CASE DirectRead
  <2>1. at = "direct" /\ sdpc = "idle" /\ trusted
    BY <1>18 DEF DirectRead, Returned, sdVars
  <2>2. reply # <<>> /\ btr # 0 /\ fp.fptr % SS = 0
    BY <1>0, <2>1 DEF FileInv, Requests, ReadPlaces, InWindow, Positions
  <2>3. Len(reply) = 1 /\ reply[1] = SectorAt(fp.fptr)
    BY <1>18, <2>1, <2>2, DirectAnswer
  <2>4. /\ Take(SS * Len(reply), [i \in 0 .. SS * Len(reply) - 1 |->
                                    ByteOf(reply[i \div SS + 1], i % SS)])
        /\ at' = "read" /\ UNCHANGED <<call, start>>
    BY <1>18, <2>2 DEF DirectRead
  <2>5. SS * Len(reply) \in Nat
    BY <2>3, SizesNat
  <2> QED BY <1>0, <2>1, <2>2, <2>3, <2>4, <2>5, DirectFits, TakeContents
<1>19. CASE BufferRead
  <2>1. at = "buffered" /\ sdpc = "idle" /\ trusted /\ fp' = Buffered /\ UNCHANGED <<btr, rbuff, buffer>>
    BY <1>19 DEF BufferRead, Returned, sdVars
  <2>2. reply # <<>> /\ fp'.fptr = fp.fptr
    BY <2>1, BufferedHonest
  <2>3. at' = "sector" /\ UNCHANGED <<call, start>>
    BY <1>19, <2>2 DEF BufferRead
  <2> QED BY <1>3, <2>1, <2>2, <2>3
<1>20. CASE Store \/ Finish \/ Update \/ LoadFile \/ StopFile
  BY <1>2, <1>20 DEF Store, Finish, Update, LoadFile, StopFile
<1>21. CASE UNCHANGED vars
  BY <1>1, <1>21 DEF vars, sdVars, fatVars, bufVars
<1> QED
  BY <1>6, <1>7, <1>9, <1>10, <1>11, <1>12, <1>13, <1>15, <1>16, <1>17, <1>18, <1>19, <1>20,
     <1>21
  DEF FileNext, Player, RamUpdate

-----------------------------------------------------------------------------
(* The theorems *)

LEMMA FileInitInv == FileInit => FileInv
<1> SUFFICES ASSUME FileInit PROVE FileInv
  OBVIOUS
<1>1. SDTypeOK /\ HonestCard /\ InitializedCard
  BY SDTypeInit DEF FileInit, SDInit, HonestCard, InitializedCard, Initializing
<1>2. FileTypeOK
  <2>1. FatTypeOK
    <3>1. window \in Windows /\ fp \in Files
      BY DEF FileInit, Windows, Files
    <3>2. 1 \in 1 .. Len(DirSectors)
      BY DirectorySectors
    <3> QED BY <3>1, <3>2 DEF FileInit, FatTypeOK
  <2>2. PlayerTypeOK
    BY DEF FileInit, PlayerTypeOK
  <2>3. BufTypeOK
    <3>1. buffer \in Chunks
      BY DEF FileInit, Chunks
    <3> QED BY <3>1, ReadSizes DEF FileInit, BufTypeOK
  <2>4. AtTypeOK
    BY DEF FileInit, SDInit, AtTypeOK, Places
  <2> QED BY <1>1, <2>1, <2>2, <2>3, <2>4, FileTypeParts
<1>3. /\ at = "idle" /\ sdpc = "idle" /\ isOpen = FALSE /\ half = <<>> /\ trusted = FALSE
  BY DEF FileInit, SDInit
<1>4. Control
  BY <1>3 DEF Control, OpenPlaces, FillPlaces, LoopPlaces, Initializing
<1>5. Requests
  BY <1>3 DEF Requests, ReadPlaces, InWindow
<1>6. Buffers /\ Contents
  BY <1>3 DEF Buffers, Contents
<1>7. Positions
  BY <1>3 DEF Positions, LoopPlaces
<1> QED BY <1>1, <1>2, <1>4, <1>5, <1>6, <1>7 DEF FileInv

LEMMA FileInvStep == FileInv /\ [FileNext]_vars => FileInv'
<1> SUFFICES ASSUME FileInv, [FileNext]_vars PROVE FileInv'
  OBVIOUS
<1>1. SDTypeOK /\ HonestCard /\ InitializedCard /\ [AnyStep]_sdVars
  BY StepsOfDriver DEF FileInv, FileTypeOK
<1>2. HonestCard' /\ InitializedCard'
  BY <1>1, HonestStep, InitializedStep DEF SDInv
<1> QED
  BY <1>2, FileTypeStep, ControlStep, RequestsStep, BuffersStep, PositionsStep, ContentsStep
  DEF FileInv

\* The invariant holds.
THEOREM FileInvariant == FileSpec => []FileInv
  BY FileInitInv, FileInvStep, PTL DEF FileSpec

\* The state of the player and of FatFs keeps its types, for every file, and
\* the driver works only for a request of FatFs.
THEOREM FileTypeCorrect == FileSpec => []FileTypeOK
  BY FileInvariant, PTL DEF FileInv

LEMMA AsksForOne == FileInv => OneSectorAtATime
<1> SUFFICES ASSUME FileInv, sdpc \in {"token", "data"} PROVE asked[2] = 1
  BY DEF OneSectorAtATime
<1>1. at \in ReadPlaces /\ ~InWindow
  BY DEF FileInv, Control, Requests
<1>2. asked[2] = IF at = "direct" THEN WholeSectors ELSE 1
  BY <1>1 DEF FileInv, Requests
<1> QED BY <1>2 DEF FileInv, Positions

\* While a file plays no request is for more than one sector, wherever the
\* samples begin within a sector: SD_ReadMultipleBlocks, which waits for no
\* token but the first (SD.c:407), is not reached.
THEOREM ReadsOneSectorAtATime == FileSpec => []OneSectorAtATime
  BY AsksForOne, FileInvariant, PTL

LEMMA OpenReadable == FileInv => OpenIsReadable
  BY DEF FileInv, Buffers, Playing, OpenIsReadable

\* What the player takes for an open file FatFs can read, and no read of it
\* has failed - as long as the card can be trusted.
THEOREM OpenFileIsReadable == FileSpec => []OpenIsReadable
  BY OpenReadable, FileInvariant, PTL

-----------------------------------------------------------------------------
(* The player implements the stream. *)

\* What is open was wanted when the update began, and after its last chunk the
\* file goes back to the first before anybody stops it.
Selected ==
  /\ at \notin {"idle", "finish"} /\ ~(at \in {"seek", "seekRead"} /\ caller # "play")
       => isFileValid
  /\ at \in {"seek", "seekRead"} /\ caller # "play" => isFileValid \/ ~isOpen
  /\ at \in {"seek", "seekRead"} => caller # "header"
  /\ at \in OpenPlaces => caller # "rewind"
  /\ isFileValid /\ endOfFile => at \in {"finish", "seek", "seekRead"}
  /\ at \in {"seek", "seekRead"} /\ caller # "play" => endOfFile
  /\ at \in {"seek", "seekRead"} /\ caller = "play" => ~isOpen /\ ~endOfFile
  /\ at = "seekRead" /\ trusted => fp.fptr = FirstPlace

LEMMA SelectedStep == FileInv /\ Selected /\ [FileNext]_vars => Selected'
<1> SUFFICES ASSUME FileInv, Selected, [FileNext]_vars PROVE Selected'
  OBVIOUS
<1>0. Control /\ AtTypeOK /\ FileTypeOK
  BY FileTypeParts DEF FileInv
<1>a. caller \in {"header", "play", "rewind"} /\ isFileValid \in BOOLEAN /\ isOpen \in BOOLEAN
      /\ endOfFile \in BOOLEAN /\ at \in Places
  BY <1>0 DEF FileTypeOK
<1> USE <1>0, <1>a DEF Selected
<1>1. ASSUME UNCHANGED <<at, caller, isFileValid, isOpen, endOfFile, fp>>, trusted' => trusted
      PROVE  Selected'
  BY <1>1
<1>2. ASSUME NEW ok \in BOOLEAN, Opened(ok), at \in OpenPlaces
      PROVE  Selected'
<2>1. UNCHANGED <<caller, isFileValid, isOpen, endOfFile>> /\ isFileValid /\ ~endOfFile /\ ~isOpen
  BY <1>2 DEF Opened, Control, OpenPlaces
<2>2. at' \in {"header", "noHeader"} \/ (at' = "seek" /\ caller = "play")
  BY <1>2 DEF Opened
<2> QED BY <1>2, <2>1, <2>2 DEF OpenPlaces
\* Nothing changes that matters, on the way to a place within the update.
<1>3. ASSUME UNCHANGED <<caller, isFileValid, isOpen, endOfFile>>, isFileValid, ~endOfFile,
             at' \notin {"seek", "seekRead"}, at' \in OpenPlaces => at \in OpenPlaces
      PROVE  Selected'
  BY <1>3
<1>4. ASSUME at \in OpenPlaces \cup FillPlaces PROVE isFileValid /\ ~endOfFile
  BY <1>4 DEF OpenPlaces, FillPlaces
<1>5. CASE Card
  BY <1>1, <1>5, CardEffect
<1>6. CASE Driver
  BY <1>1, <1>6, DriverEffect
<1>7. CASE FindVolume
  BY <1>3, <1>4, <1>7 DEF FindVolume, playerVars, OpenPlaces
<1>8. CASE CheckFs
  <2>1. at \in OpenPlaces
    BY <1>8 DEF CheckFs, Returned, OpenPlaces
  <2>2. CASE Opened(FALSE)
    BY <1>2, <2>1, <2>2
  <2>3. CASE ~Opened(FALSE)
    <3>1. DiskRead(BootSector, 1, "boot") /\ UNCHANGED <<caller, playerVars>>
      BY <1>8, <2>3 DEF CheckFs
    <3> QED BY <1>3, <1>4, <2>1, <3>1, DiskReadEffect DEF playerVars
  <2> QED BY <2>2, <2>3
<1>9. CASE Mount
  <2>1. at \in OpenPlaces
    BY <1>9 DEF Mount, Returned, OpenPlaces
  <2> QED BY <1>2, <1>3, <1>4, <1>9, <2>1 DEF Mount, playerVars
<1>10. CASE FollowPath
  <2>1. at \in OpenPlaces /\ at' = "entry"
    BY <1>10, DiskReadEffect DEF FollowPath, MoveWindow, OpenPlaces
  <2> QED BY <1>3, <1>4, <1>10, <2>1 DEF FollowPath, playerVars
<1>11. CASE FindEntry
  <2>1. at \in OpenPlaces
    BY <1>11 DEF FindEntry, Returned, OpenPlaces
  <2> QED BY <1>2, <1>3, <1>4, <1>11, <2>1 DEF FindEntry, playerVars
<1>12. CASE ReadHeader
  BY <1>3, <1>4, <1>12, DiskReadEffect DEF ReadHeader, fatVars, playerVars, OpenPlaces
<1>13. CASE HeaderRead
  BY <1>4, <1>13 DEF HeaderRead, Returned, playerVars, OpenPlaces
<1>14. CASE NoHeader
  BY <1>14 DEF NoHeader, OpenPlaces
<1>15. ASSUME at \in {"seek", "seekRead"}, SeekReturns PROVE Selected'
  BY <1>15 DEF SeekReturns, OpenPlaces
<1>16. CASE Seek
  <2>1. CASE SeekReturns
    BY <1>15, <1>16, <2>1 DEF Seek
  <2>2. CASE ~SeekReturns
    <3>1. fp' = [fp EXCEPT !.fptr = FirstPlace] /\ at = "seek" /\ at' = "seekRead"
          /\ UNCHANGED <<caller, playerVars>>
      BY <1>16, <2>2, DiskReadEffect DEF Seek
    <3>2. fp'.fptr = FirstPlace
      BY <3>1 DEF FileTypeOK
    <3> QED BY <3>1, <3>2 DEF playerVars, OpenPlaces
  <2> QED BY <2>1, <2>2
<1>17. CASE SeekRead
  BY <1>15, <1>17 DEF SeekRead, Returned
<1>18. ASSUME at \in FillPlaces, UNCHANGED playerVars, UNCHANGED caller,
              at' \in FillPlaces
       PROVE  Selected'
  BY <1>3, <1>4, <1>18 DEF playerVars, FillPlaces, OpenPlaces
<1>19. CASE Fill
  BY <1>18, <1>19 DEF Fill, fatVars, FillPlaces
<1>20. ASSUME at \in FillPlaces, ReadReturns PROVE Selected'
  BY <1>18, <1>20 DEF ReadReturns, FillPlaces, playerVars
<1>21. CASE Read
  BY <1>18, <1>20, <1>21 DEF Read, FillPlaces
<1>22. ASSUME at \in FillPlaces, Copy PROVE Selected'
  BY <1>18, <1>22, CopyKeeps DEF FillPlaces, playerVars
<1>23. CASE ReadLoop
  BY <1>18, <1>20, <1>22, <1>23, ReadLoopIs, DiskReadEffect DEF MoveWindow, FillPlaces
<1>24. CASE FollowChain
  BY <1>18, <1>20, <1>24 DEF FollowChain, Returned, FillPlaces
<1>25. CASE ReadSector
  BY <1>18, <1>22, <1>25, ReadSectorIs, DiskReadEffect DEF FillPlaces, fatVars
<1>26. CASE DirectRead
  BY <1>18, <1>20, <1>26 DEF DirectRead, Returned, FillPlaces
<1>27. CASE BufferRead
  BY <1>18, <1>20, <1>27 DEF BufferRead, Returned, FillPlaces
<1>28. CASE Store
  BY <1>28 DEF Store, fatVars, OpenPlaces
<1>29. CASE Finish
  BY <1>29 DEF Finish, OpenPlaces
<1>30. CASE Update
  BY <1>30 DEF Update, playerVars, OpenPlaces
<1>31. CASE LoadFile \/ StopFile
  BY <1>31 DEF LoadFile, StopFile, fatVars, OpenPlaces
<1>32. CASE UNCHANGED vars
  BY <1>1, <1>32 DEF vars, sdVars, fatVars, playerVars
<1> QED
  BY <1>5, <1>6, <1>7, <1>8, <1>9, <1>10, <1>11, <1>12, <1>13, <1>14, <1>16, <1>17, <1>19,
     <1>21, <1>23, <1>24, <1>25, <1>26, <1>27, <1>28, <1>29, <1>30, <1>31, <1>32
  DEF FileNext, Player, Open, RamUpdate

\* A step that the stream does not see
LEMMA StreamStutters ==
  ASSUME UNCHANGED <<isFileValid, isOpen, half, trusted>>, Place' = Place
  PROVE  [Stream!Next]_(Stream!streamVars)
  BY DEF Stream!streamVars

\* The buffer holds what is stored of the file, and the next place is behind it.
LEMMA ChunkRead ==
  ASSUME FileInv, at = "store", trusted
  PROVE  buffer = Stored(start) /\ fp.fptr = After(start)
<1>0. FileTypeOK /\ isOpen
  BY DEF FileInv, Control, FillPlaces
<1>1. Aligned(fp.fptr)
  BY <1>0 DEF FileInv, Buffers, Positions, Playing, LoopPlaces
<1>2. /\ start <= fp.fptr /\ Got(ReadCount, fp.fptr)
      /\ \A i \in Buffer :
           buffer[i] = IF i < fp.fptr - start THEN FirstSector * SS + start + i ELSE Garbage
  BY DEF FileInv, Contents, FillPlaces
<1> DEFINE n == ReadSize * ReadCount
<1>3. n \in Nat /\ \A i \in Buffer : i \in Nat /\ i < n
  BY ReadSizes DEF Buffer
<1>4. /\ fp.fptr <= FileSize
      /\ fp.fptr = start + n \/ (fp.fptr = FileSize /\ FileSize <= start + n)
  BY <1>1, <1>2 DEF Aligned, Got
<1>5. start \in Nat /\ fp.fptr \in Nat /\ buffer \in Chunks
  BY <1>0 DEF FileTypeOK, Chunks
<1>6. After(start) = IF start + n < FileSize THEN start + n ELSE FileSize
  BY DEF After, Least
<1> HIDE DEF n
<1>7. fp.fptr = After(start)
  BY <1>3, <1>4, <1>5, <1>6, SizesNat
<1>8. ASSUME NEW i \in Buffer
      PROVE  buffer[i] = IF start + i < FileSize THEN FirstSector * SS + start + i ELSE Garbage
  <2>1. (i < fp.fptr - start) <=> (start + i < FileSize)
    BY <1>3, <1>4, <1>5, SizesNat
  <2> QED BY <1>2, <2>1
<1>9. buffer = [i \in Buffer |-> buffer[i]]
  BY <1>5 DEF Chunks
<1>10. buffer = Stored(start)
  BY <1>8, <1>9 DEF Stored
<1> QED BY <1>7, <1>10

\* f_lseek has returned, with the file where its samples begin.
LEMMA StreamOpens ==
  ASSUME FileInv, Selected, at \in {"seek", "seekRead"}, SeekReturns, trusted' = trusted,
         half' = half, trusted /\ Playing => fp'.fptr = FirstPlace
  PROVE  [Stream!Next]_(Stream!streamVars)
<1>0. isFileValid \in BOOLEAN /\ isOpen \in BOOLEAN /\ endOfFile \in BOOLEAN
      /\ isFileValid' = isFileValid /\ trusted \in BOOLEAN
  BY DEF SeekReturns, FileInv, FileTypeOK, SDTypeOK
<1>1. CASE caller = "play"
  <2>1. ~isOpen /\ ~endOfFile /\ isFileValid /\ Playing
    BY <1>1 DEF Selected, Playing
  <2>2. at' = "fill" /\ isOpen' = TRUE /\ endOfFile' = endOfFile
    BY <1>1 DEF SeekReturns
  <2>3. Place = FirstPlace /\ Place' = FirstPlace
    BY <1>0, <2>1, <2>2 DEF Place, Refilling
  <2>4. Stream!Open
    BY <1>0, <2>1, <2>2, <2>3 DEF Stream!Open
  <2> QED BY <2>4 DEF Stream!Next
<1>2. CASE caller # "play"
  <2>1. endOfFile /\ (isFileValid \/ ~isOpen)
    BY <1>2 DEF Selected
  <2>2. at' = "idle" /\ isOpen' = isOpen
    BY <1>2 DEF SeekReturns
  <2>3. Place = FirstPlace
    BY <2>1 DEF Place
  <2>4. Place' = FirstPlace
    BY <1>0, <2>1, <2>2 DEF Place, Refilling, Playing
  <2> QED BY <1>0, <2>2, <2>3, <2>4, StreamStutters
<1> QED BY <1>1, <1>2

LEMMA StreamStep == FileInv /\ Selected /\ [FileNext]_vars => [Stream!Next]_(Stream!streamVars)
<1> SUFFICES ASSUME FileInv, Selected, [FileNext]_vars
             PROVE  [Stream!Next]_(Stream!streamVars)
  OBVIOUS
<1>0. /\ FileTypeOK /\ Control /\ trusted \in BOOLEAN /\ isFileValid \in BOOLEAN
      /\ isOpen \in BOOLEAN /\ endOfFile \in BOOLEAN
  BY DEF FileInv, FileTypeOK, SDTypeOK
<1>1. ASSUME UNCHANGED <<isFileValid, isOpen, half, trusted>>, ~isOpen
      PROVE  [Stream!Next]_(Stream!streamVars)
  <2>1. Place = FirstPlace /\ Place' = FirstPlace
    BY <1>1 DEF Place
  <2> QED BY <1>1, <2>1, StreamStutters
<1>2. ASSUME UNCHANGED <<at, isFileValid, isOpen, endOfFile, half, fp, start>>,
             trusted' => trusted
      PROVE  [Stream!Next]_(Stream!streamVars)
  <2>1. CASE trusted' = trusted
    <3>1. Place' = Place
      BY <1>2, <2>1 DEF Place
    <3> QED BY <1>2, <2>1, <3>1, StreamStutters
  <2>2. CASE trusted' # trusted
    <3>1. trusted' = FALSE
      BY <1>0, <1>2, <2>2, StepsOfDriver, SDTypeStep DEF FileTypeOK, SDTypeOK
    <3> QED BY <1>2, <3>1 DEF Stream!Next, Stream!Distrust
  <2> QED BY <2>1, <2>2
<1>3. CASE Card
  BY <1>2, <1>3, CardEffect
<1>4. CASE Driver
  BY <1>2, <1>4, DriverEffect
<1>5. CASE FindVolume
  <2>1. UNCHANGED <<isFileValid, isOpen, half>> /\ ~isOpen
    BY <1>0, <1>5 DEF FindVolume, Control, OpenPlaces, playerVars, bufVars
  <2>2. Place = FirstPlace /\ Place' = FirstPlace
    BY <2>1 DEF Place
  <2>3. trusted' \in BOOLEAN
    BY <1>0, StepsOfDriver, SDTypeStep DEF FileTypeOK, SDTypeOK
  <2> QED BY <2>1, <2>2, <2>3 DEF Stream!Next, Stream!Initialise
<1>6. ASSUME NEW ok \in BOOLEAN, Opened(ok) PROVE UNCHANGED <<isFileValid, isOpen, half>>
  BY <1>6 DEF Opened, bufVars
<1>7. CASE CheckFs
  <2>1. UNCHANGED <<isFileValid, isOpen, half, trusted>> /\ ~isOpen
    BY <1>0, <1>6, <1>7, DiskReadEffect
    DEF CheckFs, Returned, Control, OpenPlaces, playerVars, bufVars, sdVars
  <2> QED BY <1>1, <2>1
<1>8. CASE Mount
  <2>1. UNCHANGED <<isFileValid, isOpen, half, trusted>> /\ ~isOpen
    BY <1>0, <1>6, <1>8 DEF Mount, Returned, Control, OpenPlaces, playerVars, bufVars, sdVars
  <2> QED BY <1>1, <2>1
<1>9. CASE FollowPath
  <2>1. UNCHANGED <<isFileValid, isOpen, half, trusted>> /\ ~isOpen
    BY <1>0, <1>9, DiskReadEffect
    DEF FollowPath, MoveWindow, Control, OpenPlaces, playerVars, bufVars, sdVars
  <2> QED BY <1>1, <2>1
<1>10. CASE FindEntry
  <2>1. UNCHANGED <<isFileValid, isOpen, half, trusted>> /\ ~isOpen
    BY <1>0, <1>6, <1>10 DEF FindEntry, Returned, Control, OpenPlaces, playerVars, bufVars, sdVars
  <2> QED BY <1>1, <2>1
<1>11. CASE ReadHeader \/ HeaderRead
  <2>1. UNCHANGED <<isFileValid, isOpen, half, trusted>> /\ ~isOpen
    BY <1>0, <1>11, DiskReadEffect
    DEF ReadHeader, HeaderRead, Returned, Control, OpenPlaces, playerVars, bufVars, sdVars
  <2> QED BY <1>1, <2>1
<1>12. CASE NoHeader
  <2>1. ~isOpen /\ isOpen' = FALSE /\ isFileValid' = FALSE /\ UNCHANGED <<half, trusted>>
    BY <1>0, <1>12 DEF NoHeader, Returned, Control, OpenPlaces, bufVars, sdVars
  <2>2. Place = FirstPlace /\ Place' = FirstPlace /\ isOpen' = isOpen
    BY <1>0, <2>1 DEF Place
  <2> QED BY <2>1, <2>2 DEF Stream!Next, Stream!Select
<1>13. ASSUME Playing, trusted PROVE FpValid /\ ~fp.err
  BY <1>13 DEF FileInv, Buffers
<1>14. CASE Seek
  <2>1. CASE SeekReturns
    <3>1. at = "seek" /\ trusted' = trusted /\ half' = half
      BY <1>14, <2>1, DiskReadEffect DEF Seek, SeekReturns, bufVars, sdVars
    <3>2. trusted /\ Playing => fp' = [fp EXCEPT !.fptr = FirstPlace]
      BY <1>13, <1>14 DEF Seek
    <3>3. trusted /\ Playing => fp'.fptr = FirstPlace
      BY <1>0, <3>2 DEF FileTypeOK
    <3> QED BY <2>1, <3>1, <3>3, StreamOpens
  <2>2. CASE ~SeekReturns
    <3>1. at = "seek" /\ DiskRead(SectorAt(fp'.fptr), 1, "seekRead")
          /\ UNCHANGED <<playerVars, bufVars>>
      BY <1>14, <2>2 DEF Seek
    <3>2. at' = "seekRead" /\ trusted' = trusted
          /\ UNCHANGED <<isFileValid, isOpen, endOfFile, half>>
      BY <3>1, DiskReadEffect DEF playerVars, bufVars
    <3>3. Place = FirstPlace /\ Place' = FirstPlace
      BY <3>1, <3>2 DEF Place, Selected
    <3> QED BY <3>2, <3>3, StreamStutters
  <2> QED BY <2>1, <2>2
<1>15. CASE SeekRead
  <2>1. at = "seekRead" /\ SeekReturns /\ fp' = Buffered /\ trusted' = trusted /\ half' = half
    BY <1>15 DEF SeekRead, Returned, SeekReturns, bufVars, sdVars
  <2>2. fp'.fptr = fp.fptr
    BY <1>0, <2>1, BufferedKeeps
  <2> QED BY <2>1, <2>2, StreamOpens DEF Selected
\* During an update the place is where the buffer begins.
<1>16. ASSUME at \in Refilling, at' \in Refilling,
              UNCHANGED <<isFileValid, isOpen, endOfFile, half, trusted, start>>
       PROVE  [Stream!Next]_(Stream!streamVars)
  <2>1. Place' = Place
    BY <1>16 DEF Place
  <2> QED BY <1>16, <2>1, StreamStutters
<1>17. CASE Fill
  <2>1. at = "fill" /\ at' = "call" /\ start' = fp.fptr
        /\ UNCHANGED <<isFileValid, isOpen, endOfFile, half, trusted>>
    BY <1>17 DEF Fill, playerVars, sdVars
  <2>2. Place' = Place
    BY <2>1 DEF Place, Refilling
  <2> QED BY <2>1, <2>2, StreamStutters
<1>18. ASSUME ReadReturns, at \in Refilling, trusted' = trusted
       PROVE  [Stream!Next]_(Stream!streamVars)
  BY <1>16, <1>18 DEF ReadReturns, Refilling
<1>19. ASSUME Copy, at \in {"read", "sector"}
       PROVE  [Stream!Next]_(Stream!streamVars)
  BY <1>0, <1>16, <1>19, CopyKeeps DEF Refilling, sdVars
<1>20. CASE Read
  BY <1>16, <1>18, <1>20 DEF Read, Refilling, playerVars, sdVars
<1>21. CASE ReadLoop
  <2>1. CASE ReadReturns /\ UNCHANGED sdVars
    BY <1>18, <1>21, <2>1, ReadLoopIs DEF Refilling, sdVars
  <2>2. CASE Copy
    BY <1>19, <1>21, <2>2, ReadLoopIs
  <2>3. CASE UNCHANGED <<playerVars, bufVars>> /\ MoveWindow(FatSector, "fat")
    BY <1>16, <1>21, <2>3, ReadLoopIs, DiskReadEffect
    DEF MoveWindow, Refilling, playerVars, bufVars, sdVars
  <2>4. CASE UNCHANGED <<playerVars, bufVars, sdVars>> /\ at' = "sector"
    BY <1>16, <1>21, <2>4, ReadLoopIs DEF Refilling, playerVars, bufVars, sdVars
  <2> QED BY <1>21, <2>1, <2>2, <2>3, <2>4, ReadLoopIs
<1>22. CASE FollowChain
  BY <1>16, <1>18, <1>22 DEF FollowChain, Returned, Refilling, playerVars, sdVars
<1>23. CASE ReadSector
  <2>1. CASE Copy
    BY <1>19, <1>23, <2>1, ReadSectorIs
  <2>2. CASE ~Copy
    BY <1>16, <1>23, <2>2, ReadSectorIs, DiskReadEffect DEF Refilling, playerVars, bufVars
  <2> QED BY <2>1, <2>2
<1>24. CASE DirectRead
  BY <1>16, <1>18, <1>24 DEF DirectRead, Returned, Refilling, playerVars, sdVars
<1>25. CASE BufferRead
  BY <1>16, <1>18, <1>25 DEF BufferRead, Returned, Refilling, playerVars, sdVars
<1>26. CASE Store
  <2>1. /\ at = "store" /\ at' = "finish" /\ half' = [from |-> start, bytes |-> buffer]
        /\ endOfFile' = (endOfFile \/ IsOver)
        /\ UNCHANGED <<isFileValid, isOpen, trusted, fp, start>>
    BY <1>26 DEF Store, fatVars, sdVars
  <2>2. isFileValid /\ ~endOfFile /\ isOpen
    BY <1>0, <2>1 DEF Selected, Control, FillPlaces
  <2>3. half' # <<>>
    BY <2>1
  <2>4. ASSUME trusted
        PROVE  /\ half' = [from |-> Place, bytes |-> Stored(Place)]
               /\ Place' = IF After(Place) >= DataOffset + DataLength
                           THEN FirstPlace ELSE After(Place)
    <3>1. Place = start
      BY <2>1, <2>2, <2>4 DEF Place, Refilling
    <3>2. buffer = Stored(start) /\ fp.fptr = After(start)
      BY <2>1, <2>4, ChunkRead
    <3>3. Place' = IF IsOver THEN FirstPlace ELSE fp.fptr
      BY <2>1, <2>2, <2>4 DEF Place, Refilling
    <3> QED BY <2>1, <3>1, <3>2, <3>3 DEF IsOver
  <2> QED BY <2>1, <2>2, <2>3, <2>4 DEF Stream!Next, Stream!Refill
<1>27. CASE Finish
  <2>1. at = "finish" /\ at' \in {"idle", "seek"}
        /\ UNCHANGED <<isFileValid, endOfFile, trusted, start>>
    BY <1>27 DEF Finish, sdVars
  <2>2. CASE UNCHANGED <<fp, isOpen, half>>
    <3>1. Place' = Place
      BY <2>1, <2>2 DEF Place, Refilling
    <3> QED BY <2>1, <2>2, <3>1, StreamStutters
  <2>3. CASE ~UNCHANGED <<fp, isOpen, half>>
    <3>1. isOpen /\ ~isFileValid /\ half' = <<>> /\ isOpen' = FALSE
      BY <1>27, <2>3 DEF Finish
    <3>2. Place' = FirstPlace
      BY <3>1 DEF Place
    <3> QED BY <2>1, <3>1, <3>2 DEF Stream!Next, Stream!Close
  <2> QED BY <2>2, <2>3
<1>28. CASE Update
  <2>1. at = "idle" /\ at' \in {"finish", "fill", "open"}
        /\ UNCHANGED <<isFileValid, isOpen, endOfFile, half, trusted, fp, start>>
    BY <1>28 DEF Update, playerVars, bufVars, sdVars
  <2>2. Place' = Place
    BY <2>1 DEF Place, Refilling
  <2> QED BY <2>1, <2>2, StreamStutters
<1>29. CASE LoadFile \/ StopFile
  <2>1. at = "idle" /\ at' = at /\ UNCHANGED <<isOpen, half, trusted, fp, start>>
        /\ isFileValid' \in BOOLEAN /\ ~(isFileValid' /\ endOfFile')
    BY <1>29 DEF LoadFile, StopFile, fatVars, bufVars, sdVars
  <2>2. ~(isFileValid /\ endOfFile)
    BY <2>1 DEF Selected
  <2>3. Place' = Place
    BY <2>1, <2>2 DEF Place, Refilling
  <2> QED BY <2>1, <2>3 DEF Stream!Next, Stream!Select
<1>30. CASE UNCHANGED vars
  BY <1>2, <1>30 DEF vars, sdVars, fatVars, playerVars, bufVars
<1> QED
  BY <1>3, <1>4, <1>5, <1>7, <1>8, <1>9, <1>10, <1>11, <1>12, <1>14, <1>15, <1>17, <1>20,
     <1>21, <1>22, <1>23, <1>24, <1>25, <1>26, <1>27, <1>28, <1>29, <1>30
  DEF FileNext, Player, Open, RamUpdate

LEMMA StreamStarts == FileInit => Selected /\ Stream!Init
<1> SUFFICES ASSUME FileInit PROVE Selected /\ Stream!Init
  OBVIOUS
<1>1. /\ at = "idle" /\ isFileValid = FALSE /\ isOpen = FALSE /\ half = <<>>
      /\ trusted = FALSE
  BY DEF FileInit, SDInit
<1>2. Place = FirstPlace
  BY <1>1 DEF Place
<1> QED BY <1>1, <1>2 DEF Selected, Stream!Init, OpenPlaces

\* The player implements the stream: from a card that can be trusted each half
\* gets the bytes that follow those of the half before, whatever sectors and
\* clusters they lie in and whether f_read is called once or twice, and those
\* behind the header after the last; whatever the card does, no half is filled
\* from a file that is not open or was stopped.
THEOREM PlayerIsStream == FileSpec => ImplementsStream
  BY StreamStarts, FileInitInv, FileInvStep, SelectedStep, StreamStep, PTL
  DEF FileSpec, ImplementsStream, Stream!Spec

-----------------------------------------------------------------------------
(* ram_wav_update returns: what is left of it, the most significant first *)

CallPlaces == {"call", "read", "fat", "sector", "direct", "buffered"}

\* The places of an update, from the last one up
Stage ==
  CASE at = "open"                -> IF caller = "header" THEN 16 ELSE 10
    [] at = "initialize"          -> 15
    [] at = "boot"                -> 14
    [] at \in {"path", "entry"}   -> IF caller = "header" THEN 13 ELSE 9
    [] at = "header"              -> 12
    [] at = "headerRead"          -> 11
    [] at = "seek"                -> IF caller = "play" THEN 8 ELSE 2
    [] at = "seekRead"            -> IF caller = "play" THEN 7 ELSE 1
    [] at = "fill"                -> 6
    [] at \in CallPlaces                -> 5
    [] at = "store"               -> 4
    [] at = "finish"              -> 3
    [] at = "noHeader"            -> 1
    [] OTHER                      -> 0

\* Directory sectors to search, and calls of f_read to come
Rounds ==
  CASE at \in {"path", "entry"} -> 2 * (Len(DirSectors) - entry) + (IF at = "path" THEN 1 ELSE 0)
    [] at \in CallPlaces              -> 2 * (ReadCount - call) + (IF at = "call" THEN 1 ELSE 0)
    [] OTHER                    -> 0

\* Within one sector: the FAT, the sector, its bytes
SectorSteps ==
  CASE at = "read"                 -> 5
    [] at = "fat"                  -> 4
    [] at = "sector"               -> IF WholeSectors = 0 /\ fp.sect = SectorAt(fp.fptr) THEN 1 ELSE 3
    [] at \in {"direct", "buffered"} -> 2
    [] OTHER                       -> 0

\* The driver's places, and polls it still makes there
DriverStage ==
  CASE sdpc = "reset"                           -> 7
    [] sdpc = "ifCond"                          -> 6
    [] sdpc \in {"ocr1", "ocr2"}                -> 5
    [] sdpc \in {"acmd1", "acmd2"}              -> 4
    [] sdpc = "capacity"                        -> 3
    [] sdpc \in {"block1", "block2", "blockH", "token"}  -> 2
    [] sdpc = "data"                            -> 1
    [] OTHER                                    -> 0

PollsLeft ==
  CASE sdpc \in {"reset", "acmd1", "acmd2"} -> Tries - tries
    [] sdpc = "token"                       -> Polls - tries
    [] OTHER                                -> 0

StepsLeft == <<Stage, Rounds, btr, SectorSteps, DriverStage, PollsLeft>>

\* v comes before w in the order of tuples of six numbers.
Below(v, w) ==
  \E i \in 1 .. 6 : v[i] < w[i] /\ \A j \in 1 .. i - 1 : v[j] = w[j]

\* The polls are counted, and a sector goes through fp's buffer only if less
\* than all of it is wanted.
Counting ==
  /\ sdpc \in {"reset", "acmd1", "acmd2"} => tries < Tries
  /\ sdpc = "token" => tries <= Polls
  /\ at = "buffered" => WholeSectors = 0

\* Whatever the card does, each step of the program inside ram_wav_update
\* leaves less to do, and a card moved meanwhile leaves as much.
GoesOn == at # "idle" => Below(StepsLeft', StepsLeft) \/ (Card /\ StepsLeft' = StepsLeft)
UpdateGoesOn == [][GoesOn]_vars
StepsAreNat == \A i \in 1 .. 6 : StepsLeft[i] \in Nat

\* Less of one thing is left, and as much of what counts more.
LEMMA LessLeft ==
  /\ Stage' < Stage => Below(StepsLeft', StepsLeft)
  /\ Stage' = Stage /\ Rounds' < Rounds => Below(StepsLeft', StepsLeft)
  /\ Stage' = Stage /\ Rounds' = Rounds /\ btr' < btr => Below(StepsLeft', StepsLeft)
  /\ Stage' = Stage /\ Rounds' = Rounds /\ btr' = btr /\ SectorSteps' < SectorSteps
       => Below(StepsLeft', StepsLeft)
  /\ UNCHANGED <<Stage, Rounds, btr, SectorSteps>> /\ DriverStage' < DriverStage
       => Below(StepsLeft', StepsLeft)
  /\ UNCHANGED <<Stage, Rounds, btr, SectorSteps, DriverStage>> /\ PollsLeft' < PollsLeft
       => Below(StepsLeft', StepsLeft)
<1> DEFINE v == StepsLeft'  w == StepsLeft
<1>1. /\ v[1] = Stage' /\ v[2] = Rounds' /\ v[3] = btr' /\ v[4] = SectorSteps'
      /\ v[5] = DriverStage' /\ v[6] = PollsLeft'
  BY DEF StepsLeft
<1>2. /\ w[1] = Stage /\ w[2] = Rounds /\ w[3] = btr /\ w[4] = SectorSteps
      /\ w[5] = DriverStage /\ w[6] = PollsLeft
  BY DEF StepsLeft
<1> HIDE DEF v, w
<1>3. ASSUME NEW i \in 1 .. 6, v[i] < w[i], \A j \in 1 .. i - 1 : v[j] = w[j]
      PROVE  Below(v, w)
  BY <1>3 DEF Below
<1>4. v[1] < w[1] => Below(v, w)
  BY <1>3
<1>5. v[1] = w[1] /\ v[2] < w[2] => Below(v, w)
  BY <1>3
<1>6. v[1] = w[1] /\ v[2] = w[2] /\ v[3] < w[3] => Below(v, w)
  BY <1>3
<1>7. v[1] = w[1] /\ v[2] = w[2] /\ v[3] = w[3] /\ v[4] < w[4] => Below(v, w)
  BY <1>3
<1>8. /\ v[1] = w[1] /\ v[2] = w[2] /\ v[3] = w[3] /\ v[4] = w[4] /\ v[5] < w[5]
      => Below(v, w)
  BY <1>3
<1>9. /\ v[1] = w[1] /\ v[2] = w[2] /\ v[3] = w[3] /\ v[4] = w[4] /\ v[5] = w[5] /\ v[6] < w[6]
      => Below(v, w)
  BY <1>3
<1> QED
  BY <1>1, <1>2, <1>4, <1>5, <1>6, <1>7, <1>8, <1>9 DEF v, w

LEMMA StageIs ==
  /\ at = "open" => Stage = IF caller = "header" THEN 16 ELSE 10
  /\ at = "initialize" => Stage = 15
  /\ at = "boot" => Stage = 14
  /\ at \in {"path", "entry"} => Stage = IF caller = "header" THEN 13 ELSE 9
  /\ at = "header" => Stage = 12
  /\ at = "headerRead" => Stage = 11
  /\ at = "seek" => Stage = IF caller = "play" THEN 8 ELSE 2
  /\ at = "seekRead" => Stage = IF caller = "play" THEN 7 ELSE 1
  /\ at = "fill" => Stage = 6
  /\ at \in CallPlaces => Stage = 5
  /\ at = "store" => Stage = 4
  /\ at = "finish" => Stage = 3
  /\ at = "noHeader" => Stage = 1
  /\ at = "idle" => Stage = 0
  BY DEF Stage, CallPlaces

\* A call of f_read is over.
LEMMA ReturnsLess ==
  ASSUME FileTypeOK, at \in CallPlaces, ReadReturns
  PROVE  Below(StepsLeft', StepsLeft)
<1>1. CASE at' = "store"
  <2>1. Stage' = 4 /\ Stage = 5
    BY <1>1 DEF Stage, CallPlaces
  <2> QED BY <2>1, LessLeft
<1>2. CASE at' # "store"
  <2>1. at' = "call" /\ call' = call + 1 /\ call \in Nat /\ ReadCount \in Nat
    BY <1>2, ReadSizes DEF ReadReturns, FileTypeOK
  <2>2. Stage' = 5 /\ Stage = 5
    BY <2>1 DEF Stage, CallPlaces
  <2>3. Rounds' = 2 * (ReadCount - (call + 1)) + 1
    BY <2>1 DEF Rounds, CallPlaces
  <2>4. Rounds = 2 * (ReadCount - call) + (IF at = "call" THEN 1 ELSE 0)
    BY DEF Rounds, CallPlaces
  <2>5. Rounds' < Rounds
    BY <2>1, <2>3, <2>4
  <2> QED BY <2>2, <2>5, LessLeft
<1> QED BY <1>1, <1>2

\* Bytes have been read.
LEMMA BytesLess ==
  ASSUME FileTypeOK, at \in {"read", "sector", "direct"}, at' = "read", call' = call,
         btr' < btr
  PROVE  Below(StepsLeft', StepsLeft)
<1>1. Stage' = Stage
  BY DEF Stage, CallPlaces
<1>2. Rounds' = Rounds
  BY DEF Rounds, CallPlaces
<1> QED BY <1>1, <1>2, LessLeft

\* A step on within the sector
LEMMA SectorLess ==
  ASSUME at \in LoopPlaces, at' \in LoopPlaces, call' = call, btr' = btr,
         SectorSteps' < SectorSteps
  PROVE  Below(StepsLeft', StepsLeft)
<1>1. Stage' = Stage
  BY DEF Stage, CallPlaces, LoopPlaces
<1>2. Rounds' = Rounds
  BY DEF Rounds, CallPlaces, LoopPlaces
<1> QED BY <1>1, <1>2, LessLeft

\* The driver goes on behind a request.
LEMMA DriverLess ==
  ASSUME FileInv, Counting, Driver
  PROVE  Below(StepsLeft', StepsLeft)
<1>0. /\ tries \in Nat /\ Tries \in Nat \ {0} /\ Polls \in Nat /\ sdpc \in SDpcs
  BY SDCardAssumption DEF FileInv, FileTypeOK, SDTypeOK
<1>1. UNCHANGED <<at, caller, entry, call, btr, fp>>
  BY DriverEffect
<1>2. UNCHANGED <<Stage, Rounds, btr, SectorSteps>>
  BY <1>1, Zenon DEF Stage, Rounds, SectorSteps, WholeSectors
<1>3. DriverStage' < DriverStage \/ (DriverStage' = DriverStage /\ PollsLeft' < PollsLeft)
  <2>1. CASE PollReset
    BY <1>0, <2>1 DEF PollReset, DriverStage, PollsLeft, Goto, Counting
  <2>2. CASE CheckInterface
    BY <2>2 DEF CheckInterface, FailInit, DriverStage, Goto
  <2>3. CASE CheckVoltage
    BY <2>3 DEF CheckVoltage, FailInit, DriverStage, Goto
  <2>4. CASE AcmdReady
    BY <2>4 DEF AcmdReady, DriverStage, Goto
  <2>5. CASE AcmdIdle
    BY <1>0, <2>5 DEF AcmdIdle, FailInit, DriverStage, PollsLeft, Goto, Counting
  <2>6. CASE CheckCapacity
    BY <2>6 DEF CheckCapacity, DriverStage, Goto
  <2>7. CASE FinishInit
    BY <2>7 DEF FinishInit, DriverStage, Goto
  <2>8. CASE TokenRead
    BY <2>8 DEF TokenRead, GiveUp, DriverStage, Goto
  <2>9. CASE TokenAwaited
    BY <1>0, <2>9 DEF TokenAwaited, GiveUp, DriverStage, PollsLeft, Goto, Counting
  <2>10. CASE ReadData
    BY <2>10 DEF ReadData, DriverStage, Goto
  <2> QED BY <2>1, <2>2, <2>3, <2>4, <2>5, <2>6, <2>7, <2>8, <2>9, <2>10
          DEF Driver, SDStep, Initialization, Reading
<1> QED BY <1>2, <1>3, LessLeft

\* f_read copies what there is in the sector, and something of it.
LEMMA CopyLess ==
  ASSUME FileTypeOK, at \in {"read", "sector"}, Copy, btr # 0
  PROVE  Below(StepsLeft', StepsLeft)
<1>1. PICK count \in Nat :
        /\ count = Least(SS - (fp.fptr % SS), btr)
        /\ Take(count, [i \in 0 .. SS - 1 |-> ByteOf(fp.data, (fp.fptr % SS) + i)])
  BY CopyTakes
<1>2. btr' = btr - count /\ fp.fptr \in Nat /\ btr \in Nat
  BY <1>1 DEF FileTypeOK, Take
<1>3. fp.fptr % SS \in Nat /\ fp.fptr % SS < SS
  BY <1>2, Position
<1>4. count > 0
  BY <1>1, <1>2, <1>3, SizesNat DEF Least
<1>5. btr' < btr
  BY <1>2, <1>4
<1> QED BY <1>5, CopyKeeps, BytesLess

LEMMA OpenLess ==
  ASSUME FileInv, Selected, Open
  PROVE  Below(StepsLeft', StepsLeft)
<1>0. FileTypeOK /\ Control
  BY DEF FileInv
<1>1. ASSUME Stage' < Stage PROVE Below(StepsLeft', StepsLeft)
  BY <1>1, LessLeft
<1>2. ASSUME NEW ok \in BOOLEAN, Opened(ok)
      PROVE  IF caller = "header" THEN Stage' \in {12, 1} ELSE Stage' = 8 \/ caller = "rewind"
  <2>1. caller' = caller /\ caller \in {"header", "play", "rewind"}
    BY <1>0, <1>2 DEF Opened, FileTypeOK
  <2>2. CASE caller = "header"
    <3>1. at' \in {"header", "noHeader"}
      BY <1>2, <2>2 DEF Opened
    <3>2. Stage' \in {12, 1}
      BY <3>1 DEF Stage, CallPlaces
    <3> QED BY <2>2, <3>2
  <2>3. CASE caller # "header"
    <3>1. at' = "seek"
      BY <1>2, <2>3 DEF Opened
    <3>2. Stage' = 8 \/ caller = "rewind"
      BY <2>1, <2>3, <3>1 DEF Stage, CallPlaces
    <3> QED BY <2>3, <3>2
  <2> QED BY <2>2, <2>3
<1>3. CASE FindVolume
  <2>1. at = "open" /\ caller' = caller /\ at' \in {"path", "initialize"}
        /\ (at' = "initialize" => caller = "header")
    BY <1>0, <1>3 DEF FindVolume, Control
  <2>2. Stage' < Stage
    BY <2>1 DEF Stage, CallPlaces
  <2> QED BY <1>1, <2>2
<1>4. CASE CheckFs
  <2>1. at = "initialize" /\ caller = "header"
    BY <1>0, <1>4 DEF CheckFs, Returned, Control
  <2>2. CASE Opened(FALSE)
    <3>1. Stage' \in {12, 1}
      BY <1>2, <2>1, <2>2
    <3>2. Stage \in {14, 15}
      BY <2>1, StageIs
    <3> QED BY <1>1, <3>1, <3>2
  <2>3. CASE ~Opened(FALSE)
    <3>1. at' = "boot"
      BY <1>4, <2>3, DiskReadEffect DEF CheckFs
    <3>2. Stage' < Stage
      BY <2>1, <3>1 DEF Stage, CallPlaces
    <3> QED BY <1>1, <3>2
  <2> QED BY <2>2, <2>3
<1>5. CASE Mount
  <2>1. at = "boot" /\ caller = "header"
    BY <1>0, <1>5 DEF Mount, Returned, Control
  <2>2. CASE Opened(FALSE)
    <3>1. Stage' \in {12, 1}
      BY <1>2, <2>1, <2>2
    <3>2. Stage \in {14, 15}
      BY <2>1, StageIs
    <3> QED BY <1>1, <3>1, <3>2
  <2>3. CASE ~Opened(FALSE)
    <3>1. at' = "path" /\ caller' = caller
      BY <1>5, <2>3 DEF Mount
    <3>2. Stage' < Stage
      BY <2>1, <3>1 DEF Stage, CallPlaces
    <3> QED BY <1>1, <3>2
  <2> QED BY <2>2, <2>3
<1>6. entry \in 1 .. Len(DirSectors) /\ Len(DirSectors) \in Nat
  BY <1>0, DirectorySectors DEF FileTypeOK
<1>7. CASE FollowPath
  <2>1. at = "path" /\ at' = "entry" /\ UNCHANGED <<caller, entry>>
    BY <1>7, DiskReadEffect DEF FollowPath, MoveWindow
  <2>2. Stage' = Stage
    BY <2>1 DEF Stage, CallPlaces
  <2>3. Rounds' < Rounds
    BY <1>6, <2>1 DEF Rounds, CallPlaces
  <2> QED BY <2>2, <2>3, LessLeft
<1>8. CASE FindEntry
  <2>1. at = "entry" /\ caller # "rewind"
    BY <1>8 DEF FindEntry, Returned, Selected, OpenPlaces
  <2>2. ASSUME NEW ok \in BOOLEAN, Opened(ok) PROVE Stage' < Stage
    BY <1>2, <2>1, <2>2, StageIs
  <2>3. CASE \E ok \in BOOLEAN : Opened(ok)
    BY <1>1, <2>2, <2>3
  <2>4. CASE ~\E ok \in BOOLEAN : Opened(ok)
    <3>1. at' = "path" /\ caller' = caller /\ entry' = entry + 1
      BY <1>8, <2>4 DEF FindEntry
    <3>2. Stage' = Stage
      BY <2>1, <3>1 DEF Stage, CallPlaces
    <3>3. Rounds = 2 * (Len(DirSectors) - entry)
      BY <1>6, <2>1 DEF Rounds, CallPlaces
    <3>4. Rounds' = 2 * (Len(DirSectors) - (entry + 1)) + 1
      BY <1>6, <3>1 DEF Rounds, CallPlaces
    <3>5. Rounds' < Rounds
      BY <1>6, <3>3, <3>4
    <3> QED BY <3>2, <3>5, LessLeft
  <2> QED BY <2>3, <2>4
<1> QED BY <1>3, <1>4, <1>5, <1>7, <1>8 DEF Open

LEMMA UpdateStep ==
  FileInv /\ Selected /\ Counting /\ [FileNext]_vars => [GoesOn]_vars
<1> SUFFICES ASSUME FileInv, Selected, Counting, FileNext, at # "idle"
             PROVE  Below(StepsLeft', StepsLeft) \/ (Card /\ StepsLeft' = StepsLeft)
  BY DEF GoesOn
<1>0. /\ FileTypeOK /\ Control /\ btr \in Nat /\ fp.fptr \in Nat
      /\ WholeSectors \in Nat
  BY WholeSectorsType DEF FileInv, FileTypeOK, WholeSectors
<1>1. CASE Card
  <2>1. UNCHANGED <<at, caller, entry, call, btr, fp, sdpc, tries>>
    BY <1>1, CardEffect DEF Card, Remove, Insert, driverVars
  <2>2. StepsLeft' = StepsLeft
    BY <2>1, Zenon DEF StepsLeft, Stage, Rounds, SectorSteps, WholeSectors, DriverStage, PollsLeft
  <2> QED BY <1>1, <2>2
<1>2. CASE Driver
  BY <1>2, DriverLess
<1>3. CASE Open
  BY <1>3, OpenLess
<1>4. ASSUME Stage' < Stage PROVE Below(StepsLeft', StepsLeft)
  BY <1>4, LessLeft
<1>5. CASE ReadHeader
  <2>1. at = "header" /\ at' = "headerRead"
    BY <1>5, DiskReadEffect DEF ReadHeader
  <2>2. Stage' < Stage
    BY <2>1 DEF Stage, CallPlaces
  <2> QED BY <1>4, <2>2
<1>6. CASE HeaderRead
  <2>1. at = "headerRead" /\ at' = "open" /\ caller' = "play"
    BY <1>6 DEF HeaderRead, Returned
  <2>2. Stage' < Stage
    BY <2>1 DEF Stage, CallPlaces
  <2> QED BY <1>4, <2>2
<1>7. CASE NoHeader
  <2>1. at \in {"noHeader", "headerRead"} /\ at' = "idle"
    BY <1>7 DEF NoHeader, Returned
  <2>2. Stage' < Stage
    BY <2>1 DEF Stage, CallPlaces
  <2> QED BY <1>4, <2>2
<1>8. ASSUME at \in {"seek", "seekRead"}, SeekReturns PROVE Stage' < Stage
  <2>1. at' = (IF caller = "play" THEN "fill" ELSE "idle") /\ caller' = caller
    BY <1>8 DEF SeekReturns
  <2> QED BY <1>8, <2>1 DEF Stage, CallPlaces
<1>9. CASE Seek
  <2>1. at = "seek"
    BY <1>9 DEF Seek
  <2>2. CASE SeekReturns
    BY <1>4, <1>8, <2>1, <2>2
  <2>3. CASE ~SeekReturns
    <3>1. at' = "seekRead" /\ caller' = caller
      BY <1>9, <2>3, DiskReadEffect DEF Seek
    <3>2. Stage' < Stage
      BY <2>1, <3>1 DEF Stage, CallPlaces
    <3> QED BY <1>4, <3>2
  <2> QED BY <2>2, <2>3
<1>10. CASE SeekRead
  BY <1>4, <1>8, <1>10 DEF SeekRead, Returned
<1>11. CASE Fill
  <2>1. at = "fill" /\ at' = "call"
    BY <1>11 DEF Fill
  <2>2. Stage' < Stage
    BY <2>1 DEF Stage, CallPlaces
  <2> QED BY <1>4, <2>2
<1>12. CASE Read
  <2>1. at = "call"
    BY <1>12 DEF Read
  <2>2. CASE ReadReturns
    BY <1>0, <2>1, <2>2, ReturnsLess DEF CallPlaces
  <2>3. CASE ~ReadReturns
    <3>1. at' = "read" /\ call' = call /\ call \in Nat /\ ReadCount \in Nat
      BY <1>0, <1>12, <2>3, ReadSizes DEF Read, FileTypeOK
    <3>2. Stage' = Stage
      BY <2>1, <3>1 DEF Stage, CallPlaces
    <3>3. Rounds' < Rounds
      BY <2>1, <3>1 DEF Rounds, CallPlaces
    <3> QED BY <3>2, <3>3, LessLeft
  <2> QED BY <2>2, <2>3
<1>13. CASE ReadLoop
  <2>1. at = "read"
    BY <1>13, ReadLoopIs
  <2>2. CASE ReadReturns
    BY <1>0, <2>1, <2>2, ReturnsLess DEF CallPlaces
  <2>3. CASE btr # 0 /\ Copy
    BY <1>0, <2>1, <2>3, CopyLess
  <2>4. CASE UNCHANGED bufVars /\ at' \in {"fat", "sector"}
    <3>1. SectorSteps' < SectorSteps
      BY <2>1, <2>4 DEF SectorSteps
    <3> QED BY <2>1, <2>4, <3>1, SectorLess DEF LoopPlaces, bufVars
  <2> QED
    <3>1. MoveWindow(FatSector, "fat") => at' = "fat"
      BY DiskReadEffect DEF MoveWindow
    <3> QED BY <1>13, <2>2, <2>3, <2>4, <3>1, ReadLoopIs
<1>14. CASE FollowChain
  <2>1. at = "fat" /\ UNCHANGED <<btr, rbuff>>
    BY <1>14 DEF FollowChain, Returned
  <2>2. CASE ReadReturns
    BY <1>0, <2>1, <2>2, ReturnsLess DEF CallPlaces
  <2>3. CASE ~ReadReturns
    <3>1. at' = "sector" /\ call' = call
      BY <1>14, <2>3 DEF FollowChain
    <3>2. SectorSteps' < SectorSteps
      BY <2>1, <3>1 DEF SectorSteps
    <3> QED BY <2>1, <3>1, <3>2, SectorLess DEF LoopPlaces
  <2> QED BY <2>2, <2>3
<1>15. CASE ReadSector
  <2>1. at = "sector" /\ btr # 0
    BY <1>15, ReadSectorIs DEF FileInv, Positions
  <2>2. CASE Copy
    BY <1>0, <2>1, <2>2, CopyLess
  <2>3. CASE ~Copy
    <3>1. at' \in {"direct", "buffered"} /\ UNCHANGED <<call, btr>>
      BY <1>15, <2>3, ReadSectorIs, DiskReadEffect DEF bufVars
    <3>2. ~(WholeSectors = 0 /\ fp.sect = SectorAt(fp.fptr))
      BY <1>0, <1>15, <2>3 DEF ReadSector
    <3>3. SectorSteps' < SectorSteps
      BY <2>1, <3>1, <3>2 DEF SectorSteps
    <3> QED BY <2>1, <3>1, <3>3, SectorLess DEF LoopPlaces
  <2> QED BY <2>2, <2>3
<1>16. CASE DirectRead
  <2>1. at = "direct"
    BY <1>16 DEF DirectRead, Returned
  <2>2. CASE ReadReturns
    BY <1>0, <2>1, <2>2, ReturnsLess DEF CallPlaces
  <2>3. CASE ~ReadReturns
    <3>1. /\ reply # <<>> /\ btr' = btr - SS * Len(reply) /\ at' = "read" /\ call' = call
      BY <1>16, <2>3 DEF DirectRead, Take
    <3>2. Len(reply) = 1
      BY <1>16, <3>1, DirectAnswer
    <3>3. btr' < btr
      BY <1>0, <3>1, <3>2, SizesNat
    <3> QED BY <1>0, <2>1, <3>1, <3>3, BytesLess
  <2> QED BY <2>2, <2>3
<1>17. CASE BufferRead
  <2>1. at = "buffered" /\ fp' = Buffered /\ UNCHANGED <<btr, rbuff>>
    BY <1>17 DEF BufferRead, Returned
  <2>2. CASE ReadReturns
    BY <1>0, <2>1, <2>2, ReturnsLess DEF CallPlaces
  <2>3. CASE ~ReadReturns
    <3>1. reply # <<>> /\ at' = "sector" /\ call' = call
      BY <1>17, <2>3 DEF BufferRead
    <3>2. fp'.fptr = fp.fptr /\ fp'.sect = SectorAt(fp.fptr)
      BY <1>0, <2>1, <3>1, BufferedKeeps
    <3>3. WholeSectors' = 0 /\ fp'.sect = SectorAt(fp'.fptr)
      BY <2>1, <3>2 DEF Counting, WholeSectors
    <3>4. SectorSteps' < SectorSteps
      BY <2>1, <3>1, <3>3 DEF SectorSteps
    <3> QED BY <2>1, <3>1, <3>4, SectorLess DEF LoopPlaces
  <2> QED BY <2>2, <2>3
<1>18. CASE Store
  <2>1. at = "store" /\ at' = "finish"
    BY <1>18 DEF Store
  <2>2. Stage' < Stage
    BY <2>1 DEF Stage, CallPlaces
  <2> QED BY <1>4, <2>2
<1>19. CASE Finish
  <2>1. at = "finish" /\ (at' = "idle" \/ (at' = "seek" /\ caller' = "rewind"))
    BY <1>19 DEF Finish
  <2>2. Stage' < Stage
    BY <2>1 DEF Stage, CallPlaces
  <2> QED BY <1>4, <2>2
<1>20. CASE Update \/ LoadFile \/ StopFile
  BY <1>20 DEF Update, LoadFile, StopFile
<1> QED
  BY <1>1, <1>2, <1>3, <1>5, <1>6, <1>7, <1>9, <1>10, <1>11, <1>12, <1>13, <1>14, <1>15,
     <1>16, <1>17, <1>18, <1>19, <1>20
  DEF FileNext, Player, RamUpdate

LEMMA CountingStep == FileInv /\ Counting /\ [FileNext]_vars => Counting'
<1> SUFFICES ASSUME FileInv, Counting, [FileNext]_vars PROVE Counting'
  OBVIOUS
<1>0. /\ FileTypeOK /\ tries \in Nat /\ Tries \in Nat \ {0} /\ Polls \in Nat
  BY SDCardAssumption DEF FileInv, FileTypeOK, SDTypeOK
<1>1. /\ sdpc' \in {"reset", "acmd1", "acmd2"} => tries' < Tries
      /\ sdpc' = "token" => tries' <= Polls
  <2>1. [AnyStep]_sdVars
    BY <1>0, StepsOfDriver
  <2>2. CASE UNCHANGED sdVars
    BY <2>2 DEF sdVars, driverVars, Counting
  <2>3. CASE AnyStep
    BY <1>0, <2>3 DEF Counting, AnyStep, Remove, Insert, StartInit, SDStep, Initialization, Reading,
       PollReset, CheckInterface, CheckVoltage, AcmdReady, AcmdIdle, CheckCapacity, FinishInit,
       FailInit, TokenRead, TokenAwaited, GiveUp, ReadData, ReadCommand, Goto, driverVars
  <2> QED BY <2>1, <2>2, <2>3
<1>2. ASSUME at' = "buffered" PROVE WholeSectors' = 0
  <2>1. CASE at = "buffered" /\ (Card \/ Driver)
    BY <1>2, <2>1, CardEffect, DriverEffect DEF Counting, WholeSectors
  <2>2. CASE UNCHANGED vars
    BY <1>2, <2>2 DEF vars, fatVars, bufVars, Counting, WholeSectors
  <2>3. CASE ReadSector
    BY <1>0, <1>2, <2>3, ReadSectorIs, DiskReadEffect, CopyKeeps DEF fatVars, bufVars, WholeSectors
  <2>4. CASE Card \/ Driver
    BY <1>2, <2>1, <2>4, CardEffect, DriverEffect
  <2>5. ASSUME NEW ok \in BOOLEAN, Opened(ok) PROVE FALSE
    BY <1>2, <2>5 DEF Opened
  <2>6. ~Open
    <3>1. ~CheckFs
      <4>1. CheckFs => Opened(FALSE) \/ DiskRead(BootSector, 1, "boot")
        BY DEF CheckFs
      <4>2. ~DiskRead(BootSector, 1, "boot")
        BY <1>2, DiskReadEffect
      <4> QED BY <2>5, <4>1, <4>2
    <3>2. ~Mount /\ ~FindEntry
      BY <1>2, <2>5 DEF Mount, FindEntry
    <3>3. ~FindVolume /\ ~FollowPath
      BY <1>2, DiskReadEffect DEF FindVolume, FollowPath, MoveWindow
    <3> QED BY <3>1, <3>2, <3>3 DEF Open
  <2>7. ~ReadHeader /\ ~HeaderRead /\ ~NoHeader /\ ~Seek /\ ~SeekRead /\ ~Fill /\ ~Store
    BY <1>2, DiskReadEffect DEF ReadHeader, HeaderRead, NoHeader, Seek, SeekRead, SeekReturns,
       Fill, Store
  <2>8. ~ReadReturns
    BY <1>2 DEF ReadReturns
  <2>9. ~Read /\ ~FollowChain /\ ~DirectRead /\ ~BufferRead
    BY <1>2, <2>8 DEF Read, FollowChain, DirectRead, BufferRead
  <2>10. ~ReadLoop
    BY <1>0, <1>2, <2>8, ReadLoopIs, CopyKeeps, DiskReadEffect DEF MoveWindow
  <2>11. ~Finish /\ ~Update /\ ~LoadFile /\ ~StopFile
    BY <1>2 DEF Finish, Update, LoadFile, StopFile
  <2> QED BY <2>2, <2>3, <2>4, <2>6, <2>7, <2>9, <2>10, <2>11 DEF FileNext, Player, RamUpdate
<1> QED BY <1>1, <1>2 DEF Counting

LEMMA StepsLeftNat == FileInv /\ Counting => StepsAreNat
<1> SUFFICES ASSUME FileInv, Counting PROVE StepsAreNat
  OBVIOUS
<1>1. /\ tries \in Nat /\ Tries \in Nat \ {0} /\ Polls \in Nat /\ btr \in Nat
      /\ entry \in 1 .. Len(DirSectors) /\ Len(DirSectors) \in Nat
      /\ call \in 1 .. ReadCount /\ ReadCount \in Nat
  BY SDCardAssumption, DirectorySectors, ReadSizes DEF FileInv, FileTypeOK, SDTypeOK
<1>2. Stage \in Nat
  BY DEF Stage
<1>3. Rounds \in Nat
  BY <1>1 DEF Rounds
<1>4. SectorSteps \in Nat
  BY DEF SectorSteps
<1>5. DriverStage \in Nat
  BY DEF DriverStage
<1>6. PollsLeft \in Nat
  BY <1>1 DEF PollsLeft, Counting
<1> QED BY <1>1, <1>2, <1>3, <1>4, <1>5, <1>6 DEF StepsAreNat, StepsLeft

LEMMA CountingStarts == FileInit => Counting
<1>1. FileInit => at = "idle" /\ sdpc = "idle"
  BY DEF FileInit, SDInit
<1> QED BY <1>1 DEF Counting

\* Whatever the card does, when it is taken out or never answers, each step of
\* ram_wav_update and of FatFs and the driver below it brings it nearer to its
\* return, in the order of tuples of numbers: no loop of theirs goes on forever.
THEOREM UpdateIsBounded == FileSpec => []StepsAreNat /\ UpdateGoesOn
  BY StreamStarts, CountingStarts, FileInitInv, FileInvStep, SelectedStep, CountingStep,
     StepsLeftNat, UpdateStep, PTL
  DEF FileSpec, UpdateGoesOn

-----------------------------------------------------------------------------
(* FatFs as the driver's caller *)

FileSectors ==
  {BootSector, FatSector} \cup {DirSectors[i] : i \in 1 .. Len(DirSectors)}
    \cup {SectorAt(p) : p \in 0 .. FileSize}

\* The file, its directory and the FAT lie on the driver's card, and the driver
\* can be asked for single sectors.
AsksForTheFile == FileSectors \subseteq Sectors /\ 1 \in Counts

LEMMA DriverIsAsked == AsksForTheFile /\ FileInv /\ [FileNext]_vars => [SDNext]_sdVars
<1> SUFFICES ASSUME AsksForTheFile, FileInv, [FileNext]_vars PROVE [SDNext]_sdVars
  OBVIOUS
<1>0. FileTypeOK /\ 1 \in Counts /\ FileSize \in Nat
  BY SizesNat DEF FileInv, AsksForTheFile
<1>1. ASSUME NEW s \in FileSectors, NEW l, DiskRead(s, 1, l) PROVE SDNext
  BY <1>1 DEF DiskRead, SDNext, AsksForTheFile
<1>2. ASSUME NEW s \in FileSectors, NEW l, MoveWindow(s, l) PROVE [SDNext]_sdVars
  BY <1>1, <1>2 DEF MoveWindow
<1>3. /\ BootSector \in FileSectors /\ FatSector \in FileSectors
      /\ DirSectors[entry] \in FileSectors
  BY <1>0 DEF FileSectors, FileTypeOK
<1>4. ASSUME NEW p \in Nat, p <= FileSize PROVE SectorAt(p) \in FileSectors
  BY <1>0, <1>4 DEF FileSectors
<1>5. CASE Card \/ Driver
  BY <1>5 DEF Card, Driver, SDNext
<1>6. CASE Open
  <2>1. CASE FindVolume
    BY <2>1 DEF FindVolume, SDNext
  <2>2. CASE CheckFs
    BY <1>1, <1>3, <2>2 DEF CheckFs
  <2>3. CASE FollowPath
    BY <1>2, <1>3, <2>3 DEF FollowPath
  <2>4. CASE Mount \/ FindEntry
    BY <2>4 DEF Mount, FindEntry
  <2> QED BY <1>6, <2>1, <2>2, <2>3, <2>4 DEF Open
<1>7. CASE ReadHeader \/ HeaderRead \/ NoHeader
  <2>1. SectorAt(0) = FirstSector
    BY Position, SizesNat DEF SectorAt
  <2>2. FirstSector \in FileSectors
    BY <1>0, <1>4, <2>1
  <2> QED BY <1>1, <1>7, <2>2 DEF ReadHeader, HeaderRead, NoHeader
<1>8. CASE Seek
  <2>1. CASE UNCHANGED sdVars
    BY <2>1
  <2>2. CASE ~UNCHANGED sdVars
    <3>1. fp' = [fp EXCEPT !.fptr = FirstPlace]
          /\ DiskRead(SectorAt(fp'.fptr), 1, "seekRead")
      BY <1>8, <2>2 DEF Seek
    <3>2. fp'.fptr = FirstPlace
      BY <1>0, <3>1 DEF FileTypeOK
    <3>3. FirstPlace \in Nat /\ FirstPlace <= FileSize
      BY LeastNat, SizesNat DEF FirstPlace
    <3> QED BY <1>1, <1>4, <3>1, <3>2, <3>3
  <2> QED BY <2>1, <2>2
<1>9. CASE SeekRead \/ Fill \/ Read \/ DirectRead \/ BufferRead \/ Store \/ FollowChain
  BY <1>9 DEF SeekRead, Fill, Read, DirectRead, BufferRead, Store, FollowChain
<1>10. CASE ReadLoop
  BY <1>0, <1>2, <1>3, <1>10, ReadLoopIs, CopyKeeps
<1>11. CASE ReadSector
  <2>1. at = "sector" /\ fp.fptr \in Nat /\ btr \in Nat
    BY <1>0, <1>11, ReadSectorIs DEF FileTypeOK
  <2>2. SectorAt(fp.fptr) \in FileSectors
    <3>1. fp.fptr + btr <= FileSize
      BY <2>1 DEF FileInv, Positions, Aligned, LoopPlaces
    <3> QED BY <1>0, <1>4, <2>1, <3>1
  <2>3. CASE DiskRead(SectorAt(fp.fptr), WholeSectors, "direct") /\ UNCHANGED <<fatVars, bufVars>>
    <3>1. at' = "direct" /\ WholeSectors' = WholeSectors
      BY <2>3, DiskReadEffect DEF WholeSectors, fatVars, bufVars
    <3>2. WholeSectors = 1
      BY <3>1, PositionsStep DEF Positions
    <3> QED BY <1>1, <2>2, <2>3, <3>2
  <2>4. CASE DiskRead(SectorAt(fp.fptr), 1, "buffered")
    BY <1>1, <2>2, <2>4
  <2>5. CASE Copy
    BY <1>0, <2>5, CopyKeeps
  <2> QED BY <1>11, <2>3, <2>4, <2>5, ReadSectorIs
<1>12. CASE Finish \/ Update \/ LoadFile \/ StopFile
  BY <1>12 DEF Finish, Update, LoadFile, StopFile, sdVars, cardVars, driverVars
<1>13. CASE UNCHANGED vars
  BY <1>13 DEF vars
<1> QED
  BY <1>5, <1>6, <1>7, <1>8, <1>9, <1>10, <1>11, <1>12, <1>13
  DEF FileNext, Player, RamUpdate

\* FatFs uses the driver as the driver expects it - one request at a time, for
\* sectors of the file, one by one, and none of a device that is not
\* initialized: what is proved of the driver holds below the player.
THEOREM DriverServesFatFs ==
  ASSUME AsksForTheFile
  PROVE  FileSpec => SDSpec
<1>1. FileInv /\ [FileNext]_vars => [SDNext]_sdVars
  BY DriverIsAsked
<1>2. FileInit => SDInit
  BY DEF FileInit
<1> QED
  BY <1>1, <1>2, FileInitInv, FileInvStep, PTL DEF FileSpec, SDSpec
=============================================================================
