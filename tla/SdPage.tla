------------------------------- MODULE SdPage -------------------------------
(***************************************************************************)
(* The list of files on the SD page (menu_sd.c): cursor, directory and the *)
(* file under the cursor.  The list is read anew at every redraw, the      *)
(* inputs of a pass are handled before it: what they go by is what the     *)
(* last redraw left.  When a file is played, and the refill interrupt, are *)
(* in WavePlayback.                                                        *)
(*                                                                         *)
(* A path is the sequence of its names: "/" is << >>, "//A/B" is           *)
(* <<"A", "B">>.                                                           *)
(***************************************************************************)
EXTENDS Integers, Sequences

CONSTANTS
  Listing,    \* [directories -> Seq(names)]: the card
  Folders,    \* the names that are directories' (AM_DIR)
  Nameless    \* selectedFile before any file was under the cursor

Directories == DOMAIN Listing
Up(path) == IF path = <<>> THEN path ELSE SubSeq(path, 1, Len(path) - 1)

Names == UNION {{Listing[d][i] : i \in DOMAIN Listing[d]} : d \in Directories}

\* A directory's parent is one, too.
ASSUME SdPageAssumption ==
  /\ <<>> \in Directories /\ Directories \subseteq Seq(Names)
  /\ \A d \in Directories : Up(d) \in Directories /\ Listing[d] \in Seq(Names)
  /\ Nameless \notin Folders

VARIABLES
  handling,                        \* the next handler of the pass
  currentDirPath, selectedFile, selectedFileIndex, fileCount, wavFile

cursorVars == <<selectedFile, selectedFileIndex, fileCount>>
sdPageVars == <<handling, currentDirPath, cursorVars, wavFile>>

SdPageInit ==
  /\ handling = "encoder" /\ currentDirPath = <<>>
  /\ selectedFile = Nameless /\ selectedFileIndex = 0 /\ fileCount = 1
  /\ wavFile = Nameless

-----------------------------------------------------------------------------
\* mutant: the cursor stays where it was in the directory left
ProcessOkKeepsCursor(index) ==
  \/ /\ index = 0 /\ currentDirPath' = Up(currentDirPath)
     /\ selectedFileIndex' = index /\ UNCHANGED wavFile
  \/ /\ index # 0 /\ selectedFile \in Folders
     /\ currentDirPath' = Append(currentDirPath, selectedFile)
     /\ selectedFileIndex' = index /\ UNCHANGED wavFile
  \/ /\ index # 0 /\ selectedFile \notin Folders
     /\ wavFile' = selectedFile /\ selectedFileIndex' = index
     /\ UNCHANGED currentDirPath

\* processOkButton: "..", a directory, or a file.
ProcessOkButton(index) ==
  \/ /\ index = 0 /\ currentDirPath' = Up(currentDirPath)
     /\ selectedFileIndex' = index /\ UNCHANGED wavFile
  \/ /\ index # 0 /\ selectedFile \in Folders
     /\ currentDirPath' = Append(currentDirPath, selectedFile)
     /\ selectedFileIndex' = 0 /\ UNCHANGED wavFile
  \/ /\ index # 0 /\ selectedFile \notin Folders
     /\ wavFile' = selectedFile /\ selectedFileIndex' = index
     /\ UNCHANGED currentDirPath

\* btn_encoder: the cursor moves by as many clicks as were latched, if it can;
\* then the push button is OK.
BtnEncoder(encoder, push) ==
  /\ handling = "encoder" /\ handling' = "display"
  /\ LET newIndex == selectedFileIndex + encoder
         index    == IF newIndex \in 0 .. fileCount - 1 THEN newIndex
                                                        ELSE selectedFileIndex
     IN  IF push THEN ProcessOkButton(index)
         ELSE selectedFileIndex' = index /\ UNCHANGED <<currentDirPath, wavFile>>
  /\ UNCHANGED <<selectedFile, fileCount>>

\* btn_display; RETURN, LEFT and RIGHT do nothing here.
ButtonUp ==
  /\ selectedFileIndex' = IF selectedFileIndex > 0 THEN selectedFileIndex - 1 ELSE 0
  /\ UNCHANGED <<currentDirPath, wavFile>>

ButtonDown ==
  /\ selectedFileIndex' = IF selectedFileIndex < fileCount - 1
                          THEN selectedFileIndex + 1 ELSE selectedFileIndex
  /\ UNCHANGED <<currentDirPath, wavFile>>

BtnDisplay ==
  /\ handling \in {"encoder", "display"} /\ handling' = "draw"
  /\ ButtonUp \/ ButtonDown \/ ProcessOkButton(selectedFileIndex)
  /\ UNCHANGED <<selectedFile, fileCount>>

\* f_opendir and f_readdir: the entries, or those up to an error of the card;
\* none for a path that is no directory's.
Entries ==
  IF currentDirPath \in Directories
  THEN {SubSeq(Listing[currentDirPath], 1, n) : n \in 0 .. Len(Listing[currentDirPath])}
  ELSE {<<>>}

\* drawFileNames: ".." and the entries are counted, the one under the cursor
\* is remembered - if there is one.  A redraw ends every pass with an input.
DrawFileNames ==
  /\ handling' = "encoder"
  /\ \E entries \in Entries :
       /\ fileCount' = 1 + Len(entries)
       /\ selectedFile' = IF selectedFileIndex \in DOMAIN entries
                          THEN entries[selectedFileIndex] ELSE selectedFile
  /\ UNCHANGED <<currentDirPath, selectedFileIndex, wavFile>>

SdPageNext ==
  \/ \E encoder \in {-1, 0, 1}, push \in BOOLEAN : BtnEncoder(encoder, push)
  \/ BtnDisplay \/ DrawFileNames

SdPageSpec == SdPageInit /\ [][SdPageNext]_sdPageVars

-----------------------------------------------------------------------------
(* Properties *)

\* The variables have their types.
SdPageTypeOK ==
  /\ handling \in {"encoder", "display", "draw"}
  /\ currentDirPath \in Seq(Names)
  /\ selectedFile \in Names \cup {Nameless} /\ wavFile \in Names \cup {Nameless}
  /\ selectedFileIndex \in Nat /\ fileCount \in Nat \ {0}

\* currentDirPath, to which a name is appended without a look at its length
\* (menu_sd.c:215), never gets further from the directories of the card than
\* two names: OK on a stale entry leads nowhere, but there the list is empty,
\* the cursor is caught at "..", and OK leads back.  So 256 bytes hold the path
\* on a card whose directories are nested 17 deep at most.
PathNearTheCard ==
  \E n \in 0 .. 2 : n <= Len(currentDirPath) /\
    SubSeq(currentDirPath, 1, Len(currentDirPath) - n) \in Directories
=============================================================================
