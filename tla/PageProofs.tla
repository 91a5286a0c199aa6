----------------------------- MODULE PageProofs -----------------------------
(***************************************************************************)
(* The pages: how far the path of the SD page gets from the directories of *)
(* the card, for every card and every sequence of inputs; and that what #  *)
(* stores is the number that was typed, for every base, precision and      *)
(* length of entry.                                                        *)
(***************************************************************************)
EXTENDS SdPage, TypingScreen, SequenceTheorems, WellFoundedInduction, TLAPS

-----------------------------------------------------------------------------
(* SD page: paths *)

LEMMA UpType == \A path \in Seq(Names) : Up(path) \in Seq(Names)
<1> SUFFICES ASSUME NEW path \in Seq(Names), path # <<>> PROVE Up(path) \in Seq(Names)
  BY DEF Up
<1>1. SubSeq(path, 1, Len(path) - 1) \in Seq(Names)
  OBVIOUS
<1> QED
  BY <1>1 DEF Up

LEMMA UpAppend ==
  ASSUME NEW path \in Seq(Names), NEW name \in Names
  PROVE  Up(Append(path, name)) = path /\ Append(path, name) # <<>>
<1>1. /\ Append(path, name) # <<>> /\ Len(Append(path, name)) = Len(path) + 1
      /\ Append(path, name) \in Seq(Names)
      /\ \A i \in 1 .. Len(path) : Append(path, name)[i] = path[i]
  BY AppendProperties
<1>2. SubSeq(Append(path, name), 1, Len(path)) = path
  BY <1>1
<1>3. Len(Append(path, name)) - 1 = Len(path)
  BY <1>1
<1> QED
  BY <1>1, <1>2, <1>3 DEF Up

-----------------------------------------------------------------------------
(* Types *)

LEMMA EntriesType ==
  \A entries \in Entries : entries \in Seq(Names)
<1> SUFFICES ASSUME NEW entries \in Entries PROVE entries \in Seq(Names)
  OBVIOUS
<1>1. CASE currentDirPath \in Directories
  <2>1. Listing[currentDirPath] \in Seq(Names)
    BY <1>1, SdPageAssumption
  <2>2. PICK n \in 0 .. Len(Listing[currentDirPath]) :
          entries = SubSeq(Listing[currentDirPath], 1, n)
    BY <1>1 DEF Entries
  <2> QED
    BY <2>1, <2>2
<1>2. CASE currentDirPath \notin Directories
  BY <1>2 DEF Entries
<1> QED
  BY <1>1, <1>2

LEMMA OkType ==
  ASSUME SdPageTypeOK, NEW index \in Nat, ProcessOkButton(index)
  PROVE  /\ currentDirPath' \in Seq(Names) /\ selectedFileIndex' \in Nat
         /\ wavFile' \in Names \cup {Nameless}
<1>1. selectedFile \in Folders => selectedFile \in Names
  BY SdPageAssumption DEF SdPageTypeOK
<1>2. currentDirPath \in Seq(Names) /\ Up(currentDirPath) \in Seq(Names)
  BY UpType DEF SdPageTypeOK
<1>3. selectedFile \in Folders => Append(currentDirPath, selectedFile) \in Seq(Names)
  BY <1>1, <1>2, AppendProperties
<1> QED
  <2>1. currentDirPath' \in Seq(Names)
    BY <1>2, <1>3 DEF ProcessOkButton
  <2>2. selectedFileIndex' \in Nat
    BY DEF ProcessOkButton
  <2>3. wavFile' \in Names \cup {Nameless}
    BY DEF ProcessOkButton, SdPageTypeOK
  <2> QED
    BY <2>1, <2>2, <2>3

LEMMA TypeStep == SdPageTypeOK /\ [SdPageNext]_sdPageVars => SdPageTypeOK'
<1> SUFFICES ASSUME SdPageTypeOK, [SdPageNext]_sdPageVars PROVE SdPageTypeOK'
  OBVIOUS
<1>1. ASSUME NEW encoder \in {-1, 0, 1}, NEW push \in BOOLEAN, BtnEncoder(encoder, push)
      PROVE  SdPageTypeOK'
  <2> DEFINE newIndex == selectedFileIndex + encoder
             index == IF newIndex \in 0 .. fileCount - 1 THEN newIndex ELSE selectedFileIndex
  <2>1. index \in Nat
    BY DEF SdPageTypeOK
  <2>2. \/ ProcessOkButton(index)
        \/ selectedFileIndex' = index /\ UNCHANGED <<currentDirPath, wavFile>>
    BY <1>1 DEF BtnEncoder
  <2>3. /\ currentDirPath' \in Seq(Names) /\ selectedFileIndex' \in Nat
        /\ wavFile' \in Names \cup {Nameless}
    <3> HIDE DEF index
    <3> QED
      BY <2>1, <2>2, OkType DEF SdPageTypeOK
  <2> QED
    BY <1>1, <2>3 DEF BtnEncoder, SdPageTypeOK
<1>2. CASE BtnDisplay
  <2>1. /\ currentDirPath' \in Seq(Names) /\ selectedFileIndex' \in Nat
        /\ wavFile' \in Names \cup {Nameless}
    <3>1. CASE ButtonUp
      BY <3>1 DEF ButtonUp, SdPageTypeOK
    <3>2. CASE ButtonDown
      BY <3>2 DEF ButtonDown, SdPageTypeOK
    <3>3. CASE ProcessOkButton(selectedFileIndex)
      BY <3>3, OkType DEF SdPageTypeOK
    <3> QED
      BY <1>2, <3>1, <3>2, <3>3 DEF BtnDisplay
  <2> QED
    BY <1>2, <2>1 DEF BtnDisplay, SdPageTypeOK
<1>3. CASE DrawFileNames
  <2>1. PICK entries \in Entries :
          /\ fileCount' = 1 + Len(entries)
          /\ selectedFile' = IF selectedFileIndex \in DOMAIN entries
                             THEN entries[selectedFileIndex] ELSE selectedFile
    BY <1>3 DEF DrawFileNames
  <2>2. entries \in Seq(Names)
    BY EntriesType
  <2>3. fileCount' \in Nat \ {0} /\ selectedFile' \in Names \cup {Nameless}
    BY <2>1, <2>2 DEF SdPageTypeOK
  <2> QED
    BY <1>3, <2>3 DEF DrawFileNames, SdPageTypeOK
<1>4. CASE UNCHANGED sdPageVars
  BY <1>4 DEF sdPageVars, cursorVars, SdPageTypeOK
<1> QED
  BY <1>1, <1>2, <1>3, <1>4 DEF SdPageNext

\* Cursor, path and files keep their types.
THEOREM SdPageTypeCorrect == SdPageSpec => []SdPageTypeOK
<1>1. SdPageInit => SdPageTypeOK
  BY DEF SdPageInit, SdPageTypeOK
<1> QED
  BY <1>1, TypeStep, PTL DEF SdPageSpec

-----------------------------------------------------------------------------
(* The distance from the card's directories *)

OnCard    == currentDirPath \in Directories
OneBelow  == ~OnCard /\ Up(currentDirPath) \in Directories
TwoBelow  == /\ Up(currentDirPath) \notin Directories
             /\ Up(Up(currentDirPath)) \in Directories

\* One name too deep the list is empty, the cursor at most one entry behind
\* "..", and one behind it only if the list has been, or will be, read anew
\* before the next OK; two too deep it is at "..".
CursorCaught ==
  \/ OnCard
  \/ /\ OneBelow
     /\ \/ fileCount = 1 /\ selectedFileIndex \in {0, 1}
        \/ handling = "display" /\ selectedFileIndex = 0
        \/ handling = "draw" /\ selectedFileIndex \in {0, 1}
  \/ TwoBelow /\ ~OneBelow /\ fileCount = 1 /\ selectedFileIndex = 0

LEMMA DirectoriesFacts ==
  Directories \subseteq Seq(Names) /\ \A d \in Directories : Up(d) \in Directories
BY SdPageAssumption

\* What OK does to the distance
LEMMA OkDistance ==
  ASSUME SdPageTypeOK, NEW index \in Nat, ProcessOkButton(index)
  PROVE  /\ OnCard => \/ OnCard'
                      \/ OneBelow' /\ selectedFileIndex' = 0
         /\ OneBelow /\ index = 0 => OnCard'
         /\ OneBelow /\ index # 0 =>
              \/ UNCHANGED currentDirPath /\ selectedFileIndex' = index
              \/ TwoBelow' /\ ~OnCard' /\ ~OneBelow' /\ selectedFileIndex' = 0
         /\ TwoBelow /\ ~OnCard /\ index = 0 => OneBelow' /\ selectedFileIndex' = 0
<1>0. currentDirPath \in Seq(Names)
  BY DEF SdPageTypeOK
<1>1. CASE index = 0
  BY <1>1, DirectoriesFacts DEF ProcessOkButton, OnCard, OneBelow, TwoBelow
<1>2. CASE index # 0 /\ selectedFile \in Folders
  <2>1. selectedFile \in Names
    BY <1>2, SdPageAssumption DEF SdPageTypeOK
  <2>2. /\ currentDirPath' = Append(currentDirPath, selectedFile)
        /\ selectedFileIndex' = 0
    BY <1>2 DEF ProcessOkButton
  <2>3. Up(currentDirPath') = currentDirPath
    BY <1>0, <2>1, <2>2, UpAppend
  <2> QED
    BY <1>2, <2>2, <2>3, DirectoriesFacts DEF OnCard, OneBelow, TwoBelow
<1>3. CASE index # 0 /\ selectedFile \notin Folders
  BY <1>3 DEF ProcessOkButton, OnCard, OneBelow, TwoBelow
<1> QED
  BY <1>1, <1>2, <1>3

LEMMA CaughtStep ==
  SdPageTypeOK /\ CursorCaught /\ [SdPageNext]_sdPageVars => CursorCaught'
<1> SUFFICES ASSUME SdPageTypeOK, CursorCaught, [SdPageNext]_sdPageVars PROVE CursorCaught'
  OBVIOUS
<1>0. selectedFileIndex \in Nat /\ fileCount \in Nat \ {0}
  BY DEF SdPageTypeOK
<1>1. ASSUME NEW encoder \in {-1, 0, 1}, NEW push \in BOOLEAN, BtnEncoder(encoder, push)
      PROVE  CursorCaught'
  <2> DEFINE newIndex == selectedFileIndex + encoder
             index == IF newIndex \in 0 .. fileCount - 1 THEN newIndex ELSE selectedFileIndex
  <2>1. /\ handling = "encoder" /\ handling' = "display" /\ fileCount' = fileCount
        /\ \/ ProcessOkButton(index)
           \/ selectedFileIndex' = index /\ UNCHANGED <<currentDirPath, wavFile>>
    BY <1>1 DEF BtnEncoder
  <2>2. index \in Nat /\ (fileCount = 1 /\ selectedFileIndex = 0 => index = 0)
        /\ (fileCount = 1 /\ selectedFileIndex \in {0, 1} => index \in {0, 1})
    BY <1>0
  <2> HIDE DEF index
  <2>3. CASE ProcessOkButton(index)
    BY <2>1, <2>2, <2>3, OkDistance DEF CursorCaught, OnCard, OneBelow, TwoBelow
  <2>4. CASE selectedFileIndex' = index /\ UNCHANGED <<currentDirPath, wavFile>>
    BY <2>1, <2>2, <2>4 DEF CursorCaught, OnCard, OneBelow, TwoBelow
  <2> QED
    BY <2>1, <2>3, <2>4
<1>2. CASE BtnDisplay
  <2>1. handling # "draw" /\ handling' = "draw" /\ fileCount' = fileCount
    BY <1>2 DEF BtnDisplay
  <2>2. CASE ButtonUp
    BY <1>0, <2>1, <2>2 DEF ButtonUp, CursorCaught, OnCard, OneBelow, TwoBelow
  <2>3. CASE ButtonDown
    BY <1>0, <2>1, <2>3 DEF ButtonDown, CursorCaught, OnCard, OneBelow, TwoBelow
  <2>4. CASE ProcessOkButton(selectedFileIndex)
    BY <1>0, <2>1, <2>4, OkDistance DEF CursorCaught, OnCard, OneBelow, TwoBelow
  <2> QED
    BY <1>2, <2>2, <2>3, <2>4 DEF BtnDisplay
<1>3. CASE DrawFileNames
  <2>1. UNCHANGED <<currentDirPath, selectedFileIndex>>
    BY <1>3 DEF DrawFileNames
  <2>2. ~OnCard => fileCount' = 1
    BY <1>3 DEF DrawFileNames, Entries, OnCard
  <2> QED
    BY <1>0, <2>1, <2>2 DEF CursorCaught, OnCard, OneBelow, TwoBelow
<1>4. CASE UNCHANGED sdPageVars
  BY <1>4 DEF sdPageVars, cursorVars, CursorCaught, OnCard, OneBelow, TwoBelow
<1> QED
  BY <1>1, <1>2, <1>3, <1>4 DEF SdPageNext

LEMMA UpIsPrefix ==
  ASSUME NEW path \in Seq(Names), path # <<>>
  PROVE  Up(path) = SubSeq(path, 1, Len(path) - 1) /\ Len(Up(path)) = Len(path) - 1
<1>1. Up(path) = SubSeq(path, 1, Len(path) - 1)
  BY DEF Up
<1>2. Len(path) \in Nat \ {0}
  OBVIOUS
<1>3. \A n \in 0 .. Len(path) : Len(SubSeq(path, 1, n)) = n
  OBVIOUS
<1>4. Len(path) - 1 \in 0 .. Len(path)
  BY <1>2
<1> QED
  BY <1>1, <1>3, <1>4, Zenon

LEMMA CaughtNear == SdPageTypeOK /\ CursorCaught => PathNearTheCard
<1> SUFFICES ASSUME SdPageTypeOK, CursorCaught PROVE PathNearTheCard
  OBVIOUS
<1> DEFINE path == currentDirPath
<1>0. path \in Seq(Names) /\ <<>> \in Directories /\ Up(<<>>) = <<>>
  BY SdPageAssumption DEF SdPageTypeOK, Up
<1>1. CASE OnCard
  <2>1. SubSeq(path, 1, Len(path) - 0) = path
    BY <1>0
  <2>2. 0 \in 0 .. 2 /\ 0 <= Len(path)
    BY <1>0
  <2>3. SubSeq(path, 1, Len(path) - 0) \in Directories
    BY <1>1, <2>1 DEF OnCard
  <2> QED
    BY <2>2, <2>3, Zenon DEF PathNearTheCard
<1>2. CASE OneBelow
  <2>1. path # <<>>
    BY <1>0, <1>2 DEF OneBelow, OnCard
  <2>2. Up(path) = SubSeq(path, 1, Len(path) - 1) /\ 1 <= Len(path)
    BY <1>0, <2>1, UpIsPrefix
  <2> QED
    BY <1>2, <2>2 DEF PathNearTheCard, OneBelow
<1>3. CASE TwoBelow
  <2>1. path # <<>> /\ Up(path) # <<>>
    BY <1>0, <1>3 DEF TwoBelow
  <2>2. Up(path) \in Seq(Names) /\ Len(Up(path)) = Len(path) - 1
        /\ Up(path) = SubSeq(path, 1, Len(path) - 1)
    BY <1>0, <2>1, UpIsPrefix, UpType
  <2>3. Up(Up(path)) = SubSeq(Up(path), 1, Len(path) - 2) /\ 2 <= Len(path)
    <3>1. Up(Up(path)) = SubSeq(Up(path), 1, Len(Up(path)) - 1)
      BY <2>1, <2>2, UpIsPrefix
    <3>2. Len(Up(path)) - 1 = Len(path) - 2 /\ Len(Up(path)) >= 1
      BY <1>0, <2>1, <2>2
    <3> QED
      BY <1>0, <2>2, <3>1, <3>2
  <2>4. SubSeq(SubSeq(path, 1, Len(path) - 1), 1, Len(path) - 2) = SubSeq(path, 1, Len(path) - 2)
    BY <1>0, <2>3
  <2>5. SubSeq(path, 1, Len(path) - 2) \in Directories
    BY <1>3, <2>2, <2>3, <2>4 DEF TwoBelow
  <2>6. 2 \in 0 .. 2
    OBVIOUS
  <2> QED
    BY <2>3, <2>5, <2>6, Zenon DEF PathNearTheCard
<1> QED
  BY <1>1, <1>2, <1>3 DEF CursorCaught

\* On every card, however deep, with any number of files and errors while they
\* are listed, and for any inputs: the path is at most two names longer than
\* that of a directory.
THEOREM PathStaysNear == SdPageSpec => []PathNearTheCard
<1>1. SdPageInit => SdPageTypeOK /\ CursorCaught
  BY SdPageAssumption DEF SdPageInit, SdPageTypeOK, CursorCaught, OnCard
<1>2. SdPageTypeOK /\ CursorCaught /\ [SdPageNext]_sdPageVars => SdPageTypeOK' /\ CursorCaught'
  BY TypeStep, CaughtStep
<1>3. SdPageTypeOK /\ CursorCaught => PathNearTheCard
  BY CaughtNear
<1> QED
  BY <1>1, <1>2, <1>3, PTL DEF SdPageSpec

-----------------------------------------------------------------------------
(* Typing screen: the least number of a set, by which everything about
   recursive functions is proved: the first argument where a claim fails has
   a predecessor, where it holds. *)

LEMMA LeastMember ==
  ASSUME NEW S, S \subseteq Nat, S # {}
  PROVE  \E n \in S : \A m \in S : n <= m
<1> DEFINE R == {ss \in Nat \X Nat : ss[1] < ss[2]}
<1>1. IsWellFoundedOn(R, Nat)
  BY NatLessThanWellFounded, Zenon DEF OpToRel
<1>2. PICK n \in S : \A m \in S : ~(<<m, n>> \in R)
  BY <1>1, WFMin, Zenon
<1>3. ASSUME NEW m \in S PROVE n <= m
  <2>1. <<m, n>> \in Nat \X Nat
    OBVIOUS
  <2>2. ~(m < n)
    BY <1>2, <2>1
  <2> QED BY <2>2
<1> QED BY <1>3

LEMMA Bases == Base \in Nat /\ Base > 1 /\ Decimals \in Nat
  BY TypingScreenAssumption

-----------------------------------------------------------------------------
(* Recursion *)

\* h is defined up to n by h[0] = a and h[i] = m * h[i - 1] + g[i].
Recurs(h, n, a, m, g) ==
  h \in [0 .. n -> Int] /\ h[0] = a /\ \A i \in 1 .. n : h[i] = m * h[i - 1] + g[i]

LEMMA RecursionExists ==
  ASSUME NEW N \in Nat, NEW a \in Int, NEW m \in Int, NEW g, \A i \in 1 .. N : g[i] \in Int
  PROVE  \E h : Recurs(h, N, a, m, g)
<1> DEFINE S == {n \in 0 .. N : ~\E h : Recurs(h, n, a, m, g)}
<1> SUFFICES ASSUME S # {} PROVE FALSE
  OBVIOUS
<1>1. PICK n \in S : \A k \in S : n <= k
  <2>1. S \subseteq Nat
    OBVIOUS
  <2> HIDE DEF S
  <2> QED BY <2>1, LeastMember
<1>2. CASE n = 0
  <2> DEFINE h == [i \in 0 .. 0 |-> a]
  <2>1. Recurs(h, n, a, m, g)
    BY <1>2 DEF Recurs
  <2> QED BY <1>1, <2>1
<1>3. CASE n # 0
  <2>1. n \in 1 .. N /\ n - 1 \in 0 .. N /\ n - 1 \notin S
    BY <1>1, <1>3
  <2>2. PICK h : Recurs(h, n - 1, a, m, g)
    BY <2>1
  <2> DEFINE h2 == [i \in 0 .. n |-> IF i = n THEN m * h[n - 1] + g[n] ELSE h[i]]
  <2>3. h \in [0 .. n - 1 -> Int] /\ h[0] = a
        /\ \A i \in 1 .. n - 1 : h[i] = m * h[i - 1] + g[i]
    BY <2>2 DEF Recurs
  <2>4. g[n] \in Int /\ h[n - 1] \in Int
    BY <2>1, <2>3
  <2>5. h2 \in [0 .. n -> Int]
    BY <2>1, <2>3, <2>4
  <2>6. h2[0] = a /\ \A i \in 1 .. n : h2[i] = m * h2[i - 1] + g[i]
    BY <2>1, <2>3
  <2>7. Recurs(h2, n, a, m, g)
    BY <2>5, <2>6 DEF Recurs
  <2> QED BY <1>1, <2>7
<1> QED BY <1>2, <1>3

LEMMA RecursionUnique ==
  ASSUME NEW n \in Nat, NEW k \in Nat, NEW a, NEW m, NEW g, NEW h1, NEW h2,
         Recurs(h1, n, a, m, g), Recurs(h2, k, a, m, g)
  PROVE  \A i \in Nat : i <= n /\ i <= k => h1[i] = h2[i]
<1> DEFINE S == {i \in Nat : i <= n /\ i <= k /\ h1[i] # h2[i]}
<1> SUFFICES ASSUME S # {} PROVE FALSE
  OBVIOUS
<1>1. PICK i \in S : \A j \in S : i <= j
  <2>1. S \subseteq Nat
    OBVIOUS
  <2> HIDE DEF S
  <2> QED BY <2>1, LeastMember
<1>2. i # 0
  BY <1>1 DEF Recurs
<1>3. i - 1 \in Nat /\ i - 1 \notin S
  BY <1>1, <1>2
<1>4. h1[i - 1] = h2[i - 1]
  BY <1>1, <1>3
<1>5. i \in 1 .. n /\ i \in 1 .. k
  BY <1>1, <1>2
<1>6. h1[i] = m * h1[i - 1] + g[i] /\ h2[i] = m * h2[i - 1] + g[i]
  BY <1>5 DEF Recurs
<1> QED BY <1>1, <1>4, <1>6

-----------------------------------------------------------------------------
(* Powers *)

Zeros == [i \in Nat |-> 0]

LEMMA PowerIs ==
  /\ Power[0] = 1
  /\ \A n \in Nat : Power[n + 1] = Base * Power[n] /\ Power[n] \in Int
<1> DEFINE Upto(n) == CHOOSE h : Recurs(h, n, 1, Base, Zeros)
           H == [n \in Nat |-> Upto(n)[n]]
<1>1. \A n \in Nat : Recurs(Upto(n), n, 1, Base, Zeros)
  <2> SUFFICES ASSUME NEW n \in Nat PROVE Recurs(Upto(n), n, 1, Base, Zeros)
    OBVIOUS
  <2>1. \E h : Recurs(h, n, 1, Base, Zeros)
    <3>1. \A i \in 1 .. n : Zeros[i] \in Int
      BY DEF Zeros
    <3>2. Base \in Int /\ 1 \in Int
      BY Bases
    <3> QED BY <3>1, <3>2, RecursionExists
  <2> QED BY <2>1
<1> HIDE DEF Upto
<1>2. H[0] = 1 /\ \A n \in Nat : H[n] \in Int
  BY <1>1 DEF Recurs
<1>3. ASSUME NEW n \in Nat PROVE H[n + 1] = Base * H[n]
  <2>1. Upto(n + 1)[n + 1] = Base * Upto(n + 1)[n] + 0
    <3>1. Recurs(Upto(n + 1), n + 1, 1, Base, Zeros) /\ n + 1 \in 1 .. n + 1
      BY <1>1
    <3>2. Upto(n + 1)[n + 1] = Base * Upto(n + 1)[n + 1 - 1] + Zeros[n + 1]
      BY <3>1 DEF Recurs
    <3> QED BY <3>2 DEF Zeros
  <2>2. Upto(n + 1)[n] = Upto(n)[n]
    <3>1. Recurs(Upto(n + 1), n + 1, 1, Base, Zeros) /\ Recurs(Upto(n), n, 1, Base, Zeros)
      BY <1>1
    <3>2. \A i \in Nat : i <= n + 1 /\ i <= n => Upto(n + 1)[i] = Upto(n)[i]
      BY <3>1, RecursionUnique
    <3> QED BY <3>2
  <2>3. Upto(n)[n] \in Int
    BY <1>1 DEF Recurs
  <2> QED BY <2>1, <2>2, <2>3, Bases
<1>4. H = [n \in Nat |-> IF n = 0 THEN 1 ELSE Base * H[n - 1]]
  <2>1. ASSUME NEW n \in Nat, n # 0 PROVE H[n] = Base * H[n - 1]
    <3>1. n - 1 \in Nat /\ n - 1 + 1 = n
      BY <2>1
    <3>2. H[n - 1 + 1] = Base * H[n - 1]
      BY <1>3, <3>1
    <3> QED BY <3>1, <3>2
  <2> HIDE DEF H
  <2>2. H = [n \in Nat |-> H[n]]
    BY DEF H
  <2> QED BY <1>2, <2>1, <2>2
<1> HIDE DEF H
<1>5. Power = [n \in Nat |-> IF n = 0 THEN 1 ELSE Base * Power[n - 1]]
  BY <1>4 DEF Power
<1>6. Power[0] = 1 /\ \A n \in Nat : Power[n + 1] = Base * Power[n]
  <2>1. \A n \in Nat : Power[n] = IF n = 0 THEN 1 ELSE Base * Power[n - 1]
    BY <1>5, Zenon
  <2>2. ASSUME NEW n \in Nat PROVE Power[n + 1] = Base * Power[n]
    <3>1. n + 1 \in Nat /\ n + 1 # 0 /\ n + 1 - 1 = n
      OBVIOUS
    <3> QED BY <2>1, <3>1
  <2> QED BY <2>1, <2>2
<1>7. \A n \in Nat : Power[n] \in Int
  <2> DEFINE S == {n \in Nat : Power[n] \notin Int}
  <2> SUFFICES ASSUME S # {} PROVE FALSE
    OBVIOUS
  <2>1. PICK n \in S : \A k \in S : n <= k
    <3>1. S \subseteq Nat
      OBVIOUS
    <3> HIDE DEF S
    <3> QED BY <3>1, LeastMember
  <2>2. n # 0
    BY <1>6, <2>1
  <2>3. n - 1 \in Nat /\ n - 1 \notin S /\ n - 1 + 1 = n
    BY <2>1, <2>2
  <2>4. Power[n - 1 + 1] = Base * Power[n - 1] /\ Power[n - 1] \in Int
    BY <1>6, <2>3
  <2> QED BY <2>1, <2>3, <2>4, Bases
<1> QED BY <1>6, <1>7

\* A power is more than its exponent.
LEMMA PowerGrows == \A n \in Nat : Power[n] \in Nat /\ Power[n] > n
<1> DEFINE S == {n \in Nat : ~(Power[n] > n)}
<1>1. S = {}
  <2> SUFFICES ASSUME S # {} PROVE FALSE
    OBVIOUS
  <2>1. PICK n \in S : \A k \in S : n <= k
    <3>1. S \subseteq Nat
      OBVIOUS
    <3> HIDE DEF S
    <3> QED BY <3>1, LeastMember
  <2>2. n # 0
    BY PowerIs, <2>1
  <2>3. n - 1 \in Nat /\ n - 1 \notin S /\ n - 1 + 1 = n
    BY <2>1, <2>2
  <2>4. Power[n - 1 + 1] = Base * Power[n - 1] /\ Power[n - 1] \in Int /\ Power[n - 1] >= n
    BY PowerIs, <2>3
  <2>5. Base * Power[n - 1] >= 2 * Power[n - 1]
    BY <2>1, <2>4, Bases
  <2> QED BY <2>1, <2>3, <2>4, <2>5, Bases
<1> QED BY <1>1, PowerIs

LEMMA OneIs == One \in Nat /\ One > 0
  BY PowerGrows, Bases DEF One

-----------------------------------------------------------------------------
(* Types *)

\* The digits of a number: one before the point at least, and the cursor may
\* stand on it.
LEMMA IntegerDigitsIs ==
  ASSUME NEW x \in Nat
  PROVE  IntegerDigits(x) \in Nat /\ IntegerDigits(x) >= 1
<1> DEFINE q == x \div One
           Shows(n) == q < Power[n] /\ (n = 1 \/ q >= Power[n - 1])
           S == {n \in Nat : n >= 1 /\ n <= q + 1 /\ q < Power[n]}
<1>0. q \in Nat
  BY OneIs
<1> HIDE DEF q
<1>1. q + 1 \in S
  BY <1>0, PowerGrows
<1>2. PICK n \in S : \A k \in S : n <= k
  <2>1. S \subseteq Nat /\ S # {}
    BY <1>1
  <2> HIDE DEF S
  <2> QED BY <2>1, LeastMember
<1>3. n \in 1 .. q + 1 /\ q < Power[n]
  BY <1>0, <1>2
<1>4. n = 1 \/ q >= Power[n - 1]
  <2> SUFFICES ASSUME n # 1 PROVE q >= Power[n - 1]
    OBVIOUS
  <2>1. n - 1 \in Nat /\ n - 1 >= 1 /\ n - 1 <= q + 1 /\ n - 1 \notin S
    BY <1>0, <1>2
  <2>2. Power[n - 1] \in Nat
    BY <2>1, PowerGrows
  <2> QED BY <1>0, <2>1, <2>2
<1>5. \E m \in 1 .. q + 1 : Shows(m)
  BY <1>3, <1>4
<1>6. IntegerDigits(x) = CHOOSE m \in 1 .. q + 1 : Shows(m)
  BY Zenon DEF IntegerDigits, q
<1> HIDE DEF Shows
<1>7. IntegerDigits(x) \in 1 .. q + 1
  BY <1>5, <1>6
<1> QED BY <1>0, <1>7

LEMMA DecimalDigitsIs ==
  ASSUME NEW x \in Nat
  PROVE  DecimalDigits(x) \in Nat /\ DecimalDigits(x) <= Decimals
<1> DEFINE exact == {d \in 0 .. Decimals : x % Power[Decimals - d] = 0}
           least == CHOOSE d \in exact : \A e \in exact : d <= e
<1>1. Decimals \in exact
  <2>1. Decimals - Decimals = 0 /\ Power[0] = 1 /\ x % 1 = 0
    BY PowerIs, Bases
  <2> QED BY <2>1, Bases
<1>2. exact \subseteq Nat /\ exact # {} /\ \A d \in exact : d <= Decimals
  BY <1>1, Bases
<1>3. DecimalDigits(x) = IF least < 3 THEN least ELSE 3
  BY DEF DecimalDigits
<1> HIDE DEF exact
<1>4. \E d \in exact : \A e \in exact : d <= e
  BY <1>2, LeastMember
<1>5. least \in exact
  BY <1>4
<1> HIDE DEF least
<1> QED BY <1>2, <1>3, <1>5, Bases

LEMMA PlacesAre ==
  ASSUME NEW x \in Nat
  PROVE  /\ 0 \in DigitPlaces(x)
         /\ \A d \in DigitPlaces(x) : d \in Int /\ Decimals + d \in Nat
<1>1. IntegerDigits(x) \in Nat /\ IntegerDigits(x) >= 1
      /\ DecimalDigits(x) \in Nat /\ DecimalDigits(x) <= Decimals
  BY IntegerDigitsIs, DecimalDigitsIs
<1> QED BY <1>1, Bases DEF DigitPlaces

LEMMA ValuesAre ==
  ASSUME TypingTypeOK
  PROVE  /\ value.min \in Nat /\ value.max \in Nat /\ value.min <= value.max
         /\ \A u \in 0 .. 2 : Multiplier(u) \in Nat
<1>1. value \in Values
  BY DEF TypingTypeOK
<1>2. /\ value.min \in Nat /\ value.max \in Nat /\ value.min <= value.max
      /\ value.multipliers \in Seq(Nat) /\ value.multipliers # <<>>
  BY <1>1, TypingScreenAssumption
<1>3. ASSUME NEW u \in 0 .. 2 PROVE Multiplier(u) \in Nat
  <2> DEFINE known == Len(value.multipliers)
  <2>1. known \in Nat /\ known >= 1
    BY <1>2
  <2>2. CASE u < known
    <3>1. u + 1 \in 1 .. known
      BY <2>1, <2>2
    <3>2. value.multipliers[u + 1] \in Nat
      BY <1>2, <3>1
    <3> QED BY <2>2, <3>2 DEF Multiplier
  <2>3. CASE ~(u < known)
    <3>1. u - known + 1 \in 1 .. UnitsCount
      BY <2>1, <2>3 DEF UnitsCount
    <3>2. beyond[u - known + 1] \in Nat
      BY <3>1, TypingScreenAssumption DEF TypingTypeOK
    <3> QED BY <2>3, <3>2 DEF Multiplier
  <2> QED BY <2>2, <2>3
<1> QED BY <1>2, <1>3

LEMMA TypingTypeInit == TypingInit => TypingTypeOK
<1> SUFFICES ASSUME TypingInit PROVE TypingTypeOK
  OBVIOUS
<1>1. value \in Values /\ value.min \in Nat /\ value.max \in Nat /\ value.min <= value.max
  BY TypingScreenAssumption DEF TypingInit
<1>2. floatValue \in Nat /\ Fits(floatValue)
  BY <1>1, OneIs DEF TypingInit, Fits
<1>3. selectedDigit \in DigitPlaces(floatValue)
  BY <1>2, PlacesAre DEF TypingInit
<1>4. typed \in Seq(0 .. Base - 1) /\ Len(typed) <= Longest
  BY TypingScreenAssumption DEF TypingInit
<1>5. numDecimalValues \in 0 .. Decimals /\ measuringUnitIndex \in 0 .. UnitsCount - 1
  BY Bases DEF TypingInit, UnitsCount
<1> QED BY <1>1, <1>2, <1>3, <1>4, <1>5 DEF TypingInit, TypingTypeOK

\* Both handlers end with the cursor on a digit of the value they leave.
LEMMA NumberClamped ==
  ASSUME NEW d, ClampSelectedDigit(d)
  PROVE  selectedDigit' \in DigitPlaces(floatValue)'
  BY Zenon DEF ClampSelectedDigit, DigitPlaces, IntegerDigits, DecimalDigits

LEMMA EntryType ==
  ASSUME TypingTypeOK
  PROVE  /\ Number \in Nat /\ Fraction \in 0 .. Decimals
         /\ AtPoint \in BOOLEAN /\ Invalid \in BOOLEAN /\ OnScreen \in BOOLEAN
<1>1. Number \in Nat /\ Fraction \in 0 .. Decimals
  BY Bases DEF TypingTypeOK, Number, Fraction
<1>2. AtPoint \in BOOLEAN /\ Invalid \in BOOLEAN /\ OnScreen \in BOOLEAN
  BY Zenon DEF TypingTypeOK, AtPoint, Invalid, OnScreen
<1> QED BY <1>1, <1>2

\* What the keys have in common: the value and its memory stay.
Kept == value' = value /\ beyond' = beyond

LEMMA ValueKept ==
  ASSUME TypingTypeOK, Kept, NEW x \in Nat, floatValue' = x, Fits(x)
  PROVE  /\ value' \in Values /\ beyond' \in [1 .. UnitsCount -> Words]
         /\ floatValue' \in Nat /\ Fits(floatValue)'
  BY DEF TypingTypeOK, Kept, Fits

LEMMA TypingTypeStep == TypingTypeOK /\ [TypingNext]_typingVars => TypingTypeOK'
<1> SUFFICES ASSUME TypingTypeOK, [TypingNext]_typingVars PROVE TypingTypeOK'
  OBVIOUS
<1>0. /\ value.min \in Nat /\ value.max \in Nat /\ \A u \in 0 .. 2 : Multiplier(u) \in Nat
      /\ floatValue \in Nat /\ Fits(floatValue)
      /\ Number \in Nat /\ Fraction \in 0 .. Decimals
      /\ AtPoint \in BOOLEAN /\ Invalid \in BOOLEAN /\ OnScreen \in BOOLEAN
  BY ValuesAre, EntryType DEF TypingTypeOK
<1>1. CASE SelectValue
  <2>1. value' \in Values /\ beyond' \in [1 .. UnitsCount -> Words]
        /\ floatValue' \in Nat /\ Fits(floatValue)' /\ entered' \in Nat
    BY <1>0, <1>1, ValueKept DEF SelectValue, Kept, TypingTypeOK
  <2>2. selectedDigit' \in DigitPlaces(floatValue)'
    <3>1. selectedDigit' = 0 /\ floatValue' = floatValue /\ 0 \in DigitPlaces(floatValue)
      BY <1>0, <1>1, PlacesAre DEF SelectValue
    <3> QED BY <3>1, Zenon DEF DigitPlaces, IntegerDigits, DecimalDigits
  <2>3. typed' \in Seq(0 .. Base - 1) /\ Len(typed') <= Longest
    BY <1>1, TypingScreenAssumption DEF SelectValue
  <2>4. numDecimalValues' \in 0 .. Decimals /\ measuringUnitIndex' \in 0 .. UnitsCount - 1
    BY <1>1, Bases DEF SelectValue, UnitsCount
  <2> QED BY <1>1, <2>1, <2>2, <2>3, <2>4 DEF SelectValue, TypingTypeOK
<1>2. CASE KeyPoint
  <2>1. value' \in Values /\ beyond' \in [1 .. UnitsCount -> Words]
        /\ floatValue' \in Nat /\ Fits(floatValue)'
    BY <1>0, <1>2, ValueKept DEF KeyPoint, Kept
  <2>2. selectedDigit' \in DigitPlaces(floatValue)'
    BY <1>2, NumberClamped DEF KeyPoint
  <2>3. entered' \in Nat /\ numDecimalValues' \in 0 .. Decimals
        /\ pointAt' \in {NoPoint} \cup Nat
    BY <1>0, <1>2 DEF KeyPoint, TypingTypeOK
  <2>4. decimalPoint' \in BOOLEAN /\ invalidValue' \in BOOLEAN /\ show' \in BOOLEAN
        /\ initialized' \in BOOLEAN
    BY <1>0, <1>2 DEF KeyPoint
  <2> QED BY <1>2, <2>1, <2>2, <2>3, <2>4 DEF KeyPoint, TypingTypeOK
<1>3. CASE KeyEnter
  <2>1. floatValue' \in Nat /\ Fits(floatValue')
    <3> DEFINE final == Number * Multiplier(measuringUnitIndex)
    <3>1. final \in Nat
      BY <1>0 DEF TypingTypeOK, UnitsCount
    <3>2. floatValue' = floatValue \/ (floatValue' = final /\ Fits(final))
      BY <1>3 DEF KeyEnter
    <3>3. value' = value
      BY <1>3 DEF KeyEnter
    <3> HIDE DEF final
    <3> QED BY <1>0, <3>1, <3>2, <3>3 DEF Fits
  <2>2. value' \in Values /\ beyond' \in [1 .. UnitsCount -> Words] /\ Fits(floatValue)'
    BY <1>3, <2>1 DEF KeyEnter, TypingTypeOK, Fits
  <2>3. selectedDigit' \in DigitPlaces(floatValue)'
    BY <1>3, NumberClamped DEF KeyEnter
  <2>4. entered' \in Nat /\ numDecimalValues' \in 0 .. Decimals
        /\ measuringUnitIndex' \in 0 .. UnitsCount - 1
    BY <1>0, <1>3 DEF KeyEnter, TypingTypeOK
  <2>5. decimalPoint' \in BOOLEAN /\ invalidValue' \in BOOLEAN /\ show' \in BOOLEAN
        /\ initialized' \in BOOLEAN
    BY <1>0, <1>3 DEF KeyEnter
  <2>6. typed' \in Seq(0 .. Base - 1) /\ Len(typed') <= Longest
    BY <1>3, TypingScreenAssumption DEF KeyEnter
  <2>7. pressed' = "#" /\ pointAt' = NoPoint /\ misfit' = FALSE
    BY <1>3 DEF KeyEnter
  <2> QED BY <2>1, <2>2, <2>3, <2>4, <2>5, <2>6, <2>7 DEF TypingTypeOK
<1>4. ASSUME NEW k \in 0 .. Base - 1, KeyDigit(k) PROVE TypingTypeOK'
  <2>1. value' \in Values /\ beyond' \in [1 .. UnitsCount -> Words]
        /\ floatValue' \in Nat /\ Fits(floatValue)'
    BY <1>0, <1>4, ValueKept DEF KeyDigit, Kept
  <2>2. selectedDigit' \in DigitPlaces(floatValue)'
    BY <1>4, NumberClamped DEF KeyDigit
  <2>3. entered' \in Nat /\ numDecimalValues' \in 0 .. Decimals
    <3>1. CASE AtPoint
      <4>1. numDecimalValues' = Fraction + 1 /\ Fraction < Decimals
            /\ entered' = Number + k * Power[Decimals - numDecimalValues']
        BY <1>4, <3>1 DEF KeyDigit
      <4>2. numDecimalValues' \in 0 .. Decimals /\ Decimals - numDecimalValues' \in Nat
        BY <1>0, <4>1, Bases
      <4>3. Power[Decimals - numDecimalValues'] \in Nat /\ k \in Nat
        BY <4>2, PowerGrows, Bases
      <4> QED BY <1>0, <4>1, <4>2, <4>3
    <3>2. CASE ~AtPoint
      <4>1. numDecimalValues' = Fraction /\ entered' = Number * Base + k * One /\ k \in Nat
        BY <1>4, <3>2, Bases DEF KeyDigit
      <4> QED BY <1>0, <4>1, Bases, OneIs
    <3> QED BY <3>1, <3>2
  <2>4. decimalPoint' \in BOOLEAN /\ invalidValue' \in BOOLEAN
    BY <1>0, <1>4 DEF KeyDigit
  <2>5. typed' \in Seq(0 .. Base - 1) /\ Len(typed') <= Longest
    BY <1>4, TypingScreenAssumption DEF KeyDigit, TypingTypeOK
  <2> QED BY <1>4, <2>1, <2>2, <2>3, <2>4, <2>5 DEF KeyDigit, TypingTypeOK
<1>5. ASSUME NEW u \in UnitKeys, KeyUnit(u) PROVE TypingTypeOK'
  <2>1. value' \in Values /\ beyond' \in [1 .. UnitsCount -> Words]
        /\ floatValue' \in Nat /\ Fits(floatValue)'
    BY <1>0, <1>5, ValueKept DEF KeyUnit, Kept
  <2>2. selectedDigit' \in DigitPlaces(floatValue)'
    BY <1>5, NumberClamped DEF KeyUnit
  <2>3. entered' \in Nat /\ numDecimalValues' \in 0 .. Decimals
        /\ measuringUnitIndex' \in 0 .. UnitsCount - 1
    BY <1>0, <1>5 DEF KeyUnit, UnitKeys, UnitsCount, TypingTypeOK
  <2>4. decimalPoint' \in BOOLEAN /\ show' \in BOOLEAN
    BY <1>0, <1>5 DEF KeyUnit
  <2>5. invalidValue' \in BOOLEAN
    BY <1>5, Zenon DEF KeyUnit
  <2> QED BY <1>5, <2>1, <2>2, <2>3, <2>4, <2>5 DEF KeyUnit, TypingTypeOK
<1>6. ASSUME NEW turn \in Turns, NEW move \in -1 .. 1, Encoder(turn, move)
      PROVE  TypingTypeOK'
  <2>1. floatValue' \in Nat /\ Fits(floatValue')
    <3> DEFINE turned == floatValue + turn * Power[Decimals + selectedDigit]
    <3>1. turned \in Int
      <4>1. Decimals + selectedDigit \in Nat
        BY <1>0, PlacesAre DEF TypingTypeOK
      <4>2. Power[Decimals + selectedDigit] \in Nat /\ turn \in Int
        BY <4>1, PowerGrows, TypingScreenAssumption
      <4> QED BY <1>0, <4>2
    <3>2. floatValue' = IF Fits(turned) THEN turned ELSE floatValue
      BY <1>6 DEF Encoder
    <3>3. value' = value /\ value.min * One \in Nat
      BY <1>0, <1>6, OneIs DEF Encoder
    <3> HIDE DEF turned
    <3>4. Fits(turned) => turned \in Nat
      BY <3>1, <3>3 DEF Fits
    <3> QED BY <1>0, <3>2, <3>3, <3>4 DEF Fits
  <2>2. value' \in Values /\ beyond' \in [1 .. UnitsCount -> Words] /\ Fits(floatValue)'
    BY <1>6, <2>1 DEF Encoder, TypingTypeOK, Fits
  <2>3. selectedDigit' \in DigitPlaces(floatValue)'
    BY <1>6, NumberClamped DEF Encoder
  <2> QED BY <1>6, <2>1, <2>2, <2>3 DEF Encoder, screenVars, TypingTypeOK
<1>7. CASE UNCHANGED typingVars
  <2>1. DigitPlaces(floatValue)' = DigitPlaces(floatValue)
    BY <1>7, Zenon DEF typingVars, DigitPlaces, IntegerDigits, DecimalDigits
  <2> QED BY <1>7, <2>1 DEF typingVars, screenVars, historyVars, TypingTypeOK, Fits
<1> QED BY <1>1, <1>2, <1>3, <1>4, <1>5, <1>6, <1>7 DEF TypingNext

\* The value edited stays in its range, and the cursor on a digit it shows.
THEOREM TypingTypeCorrect == TypingSpec => []TypingTypeOK
  BY TypingTypeInit, TypingTypeStep, PTL DEF TypingSpec

-----------------------------------------------------------------------------
(* What an entry is worth *)

\* The worth of digit i
Weighted(digits, whole) ==
  [i \in 1 .. Len(digits) |-> digits[i] * Power[Decimals + whole - i]]

\* An entry as the code allows it: no more than Decimals digits behind the point
Numeral(digits, whole) ==
  digits \in Seq(Nat) /\ whole \in Nat /\ whole <= Len(digits)
  /\ Len(digits) <= Decimals + whole

LEMMA WeightsAre ==
  ASSUME NEW digits, NEW whole, Numeral(digits, whole)
  PROVE  \A i \in 1 .. Len(digits) :
           /\ digits[i] \in Nat /\ Decimals + whole - i \in Nat
           /\ Power[Decimals + whole - i] \in Nat
           /\ Weighted(digits, whole)[i] = digits[i] * Power[Decimals + whole - i]
           /\ Weighted(digits, whole)[i] \in Int
<1> SUFFICES ASSUME NEW i \in 1 .. Len(digits)
             PROVE  /\ digits[i] \in Nat /\ Decimals + whole - i \in Nat
                    /\ Power[Decimals + whole - i] \in Nat
                    /\ Weighted(digits, whole)[i] = digits[i] * Power[Decimals + whole - i]
                    /\ Weighted(digits, whole)[i] \in Int
  OBVIOUS
<1>1. digits[i] \in Nat /\ Decimals + whole - i \in Nat
  BY Bases DEF Numeral
<1>2. Power[Decimals + whole - i] \in Nat
  BY <1>1, PowerGrows
<1>3. Weighted(digits, whole)[i] = digits[i] * Power[Decimals + whole - i]
  BY DEF Weighted
<1> QED BY <1>1, <1>2, <1>3

LEMMA WorthIs ==
  ASSUME NEW digits, NEW whole, Numeral(digits, whole)
  PROVE  \E s : /\ Recurs(s, Len(digits), 0, 1, Weighted(digits, whole))
                /\ Worth(digits, whole) = s[Len(digits)]
<1> DEFINE Is(s) == s = [i \in 0 .. Len(digits) |->
                           IF i = 0 THEN 0
                           ELSE s[i - 1] + digits[i] * Power[Decimals + whole - i]]
<1>0. Len(digits) \in Nat
  BY DEF Numeral
<1>1. PICK h : Recurs(h, Len(digits), 0, 1, Weighted(digits, whole))
  <2>1. \A i \in 1 .. Len(digits) : Weighted(digits, whole)[i] \in Int
    BY WeightsAre
  <2> QED BY <1>0, <2>1, RecursionExists
<1>2. Is(h)
  <2>1. h = [i \in 0 .. Len(digits) |-> h[i]] /\ h[0] = 0
    BY <1>1 DEF Recurs
  <2>2. ASSUME NEW i \in 0 .. Len(digits), i # 0
        PROVE  h[i] = h[i - 1] + digits[i] * Power[Decimals + whole - i]
    <3>1. i \in 1 .. Len(digits) /\ i - 1 \in 0 .. Len(digits)
      BY <1>0, <2>2
    <3>2. h[i] = 1 * h[i - 1] + Weighted(digits, whole)[i] /\ h[i - 1] \in Int
      BY <1>1, <3>1 DEF Recurs
    <3>3. Weighted(digits, whole)[i] = digits[i] * Power[Decimals + whole - i]
      BY <3>1, WeightsAre
    <3>4. 1 * h[i - 1] = h[i - 1]
      BY <3>2
    <3> QED BY <3>2, <3>3, <3>4
  <2> QED BY <2>1, <2>2
<1> DEFINE s == CHOOSE s : Is(s)
<1>3. Is(s)
  BY <1>2
<1>4. Worth(digits, whole) = s[Len(digits)]
  BY Zenon DEF Worth
<1> HIDE DEF s
<1>5. /\ DOMAIN s = 0 .. Len(digits) /\ s[0] = 0
      /\ \A i \in 1 .. Len(digits) : s[i] = s[i - 1] + Weighted(digits, whole)[i]
  <2>1. DOMAIN s = 0 .. Len(digits)
    BY <1>3
  <2>2. ASSUME NEW i \in 0 .. Len(digits)
        PROVE  s[i] = IF i = 0 THEN 0
                      ELSE s[i - 1] + digits[i] * Power[Decimals + whole - i]
    BY <1>3, Zenon
  <2>3. s[0] = 0
    BY <1>0, <2>2
  <2>4. ASSUME NEW i \in 1 .. Len(digits) PROVE s[i] = s[i - 1] + Weighted(digits, whole)[i]
    BY <1>0, <2>2, WeightsAre
  <2> QED BY <2>1, <2>3, <2>4
<1>6. \A i \in 0 .. Len(digits) : s[i] = h[i]
  <2> DEFINE S == {i \in 0 .. Len(digits) : s[i] # h[i]}
  <2> SUFFICES ASSUME S # {} PROVE FALSE
    OBVIOUS
  <2>1. PICK i \in S : \A j \in S : i <= j
    <3>1. S \subseteq Nat
      OBVIOUS
    <3> HIDE DEF S
    <3> QED BY <3>1, LeastMember
  <2>2. i # 0
    BY <1>1, <1>5, <2>1 DEF Recurs
  <2>3. i \in 1 .. Len(digits) /\ i - 1 \in 0 .. Len(digits) /\ i - 1 \notin S
    BY <1>0, <2>1, <2>2
  <2>4. s[i - 1] = h[i - 1] /\ h[i - 1] \in Int
    BY <1>1, <2>3 DEF Recurs
  <2>5. h[i] = 1 * h[i - 1] + Weighted(digits, whole)[i]
    BY <1>1, <2>3 DEF Recurs
  <2>6. s[i] = s[i - 1] + Weighted(digits, whole)[i]
    BY <1>5, <2>3
  <2> QED BY <2>1, <2>4, <2>5, <2>6
<1>7. Worth(digits, whole) = h[Len(digits)]
  BY <1>0, <1>4, <1>6
<1> QED BY <1>1, <1>7

LEMMA WorthOfNone == Worth(<<>>, 0) = 0
<1>1. Numeral(<<>>, 0) /\ Len(<<>>) = 0
  BY Bases DEF Numeral
<1>2. PICK s : Recurs(s, Len(<<>>), 0, 1, Weighted(<<>>, 0)) /\ Worth(<<>>, 0) = s[Len(<<>>)]
  BY <1>1, WorthIs
<1> QED BY <1>1, <1>2 DEF Recurs

\* A digit before the point moves all others up a place ...
LEMMA WorthOfWhole ==
  ASSUME NEW digits, Numeral(digits, Len(digits)), NEW k \in Nat
  PROVE  Worth(Append(digits, k), Len(digits) + 1) = Worth(digits, Len(digits)) * Base + k * One
<1> DEFINE n == Len(digits)
           more == Append(digits, k)
<1>1. n \in Nat /\ digits \in Seq(Nat) /\ more \in Seq(Nat) /\ Len(more) = n + 1
      /\ more[n + 1] = k /\ \A i \in 1 .. n : more[i] = digits[i]
  BY DEF Numeral
<1>2. Numeral(more, n + 1)
  BY <1>1, Bases DEF Numeral
<1> HIDE DEF more
<1>3. PICK s : Recurs(s, n, 0, 1, Weighted(digits, n)) /\ Worth(digits, n) = s[n]
  BY WorthIs
<1>4. PICK r : Recurs(r, n + 1, 0, 1, Weighted(more, n + 1)) /\ Worth(more, n + 1) = r[n + 1]
  BY <1>1, <1>2, WorthIs
<1> HIDE DEF n
<1>5. \A i \in 1 .. n : Weighted(more, n + 1)[i] = Base * Weighted(digits, n)[i]
  <2> SUFFICES ASSUME NEW i \in 1 .. n
               PROVE  Weighted(more, n + 1)[i] = Base * Weighted(digits, n)[i]
    OBVIOUS
  <2>1. /\ Weighted(digits, n)[i] = digits[i] * Power[Decimals + n - i]
        /\ digits[i] \in Nat /\ Decimals + n - i \in Nat /\ Power[Decimals + n - i] \in Nat
    BY WeightsAre DEF n
  <2>2. Weighted(more, n + 1)[i] = more[i] * Power[Decimals + (n + 1) - i]
    <3>1. i \in 1 .. Len(more)
      BY <1>1
    <3> QED BY <1>2, <3>1, WeightsAre
  <2>3. Decimals + (n + 1) - i = (Decimals + n - i) + 1
    BY <1>1, Bases
  <2>4. Power[Decimals + (n + 1) - i] = Base * Power[Decimals + n - i]
    BY <2>1, <2>3, PowerIs
  <2> DEFINE p == Power[Decimals + n - i]
             d == digits[i]
  <2>5. p \in Nat /\ d \in Nat
    BY <2>1
  <2>6. Weighted(more, n + 1)[i] = d * (Base * p)
    BY <1>1, <2>2, <2>4
  <2>7. Weighted(digits, n)[i] = d * p
    BY <2>1
  <2> HIDE DEF p, d
  <2>8. d * (Base * p) = Base * (d * p)
    BY <2>5, Bases
  <2> QED BY <2>6, <2>7, <2>8
<1>6. \A i \in 0 .. n : r[i] = Base * s[i]
  <2> DEFINE S == {i \in 0 .. n : r[i] # Base * s[i]}
  <2> SUFFICES ASSUME S # {} PROVE FALSE
    OBVIOUS
  <2>1. PICK i \in S : \A j \in S : i <= j
    <3>1. S \subseteq Nat
      OBVIOUS
    <3> HIDE DEF S
    <3> QED BY <3>1, LeastMember
  <2>2. i # 0
    BY <1>3, <1>4, <2>1, Bases DEF Recurs
  <2>3. i \in 1 .. n /\ i \in 1 .. n + 1 /\ i - 1 \in 0 .. n /\ i - 1 \notin S
    BY <1>1, <2>1, <2>2
  <2>4. r[i - 1] = Base * s[i - 1] /\ s[i - 1] \in Int
    BY <1>3, <2>3 DEF Recurs
  <2>5. r[i] = 1 * r[i - 1] + Weighted(more, n + 1)[i]
    BY <1>4, <2>3 DEF Recurs
  <2>6. s[i] = 1 * s[i - 1] + Weighted(digits, n)[i] /\ Weighted(digits, n)[i] \in Int
    BY <1>3, <2>3, WeightsAre DEF Recurs, n
  <2>7. Weighted(more, n + 1)[i] = Base * Weighted(digits, n)[i]
    BY <1>5, <2>3
  <2> DEFINE a == s[i - 1]
             b == Weighted(digits, n)[i]
  <2>8. a \in Int /\ b \in Int /\ r[i] = 1 * (Base * a) + Base * b /\ s[i] = 1 * a + b
    BY <2>4, <2>5, <2>6, <2>7
  <2> HIDE DEF a, b
  <2>9. r[i] = Base * s[i]
    BY <2>8, Bases
  <2> QED BY <2>1, <2>9
<1>7. r[n + 1] = 1 * r[n] + Weighted(more, n + 1)[n + 1]
  <2>1. n + 1 \in 1 .. n + 1 /\ n + 1 - 1 = n
    BY <1>1
  <2> DEFINE w == Weighted(more, n + 1)
             m == n + 1
  <2>2. Recurs(r, m, 0, 1, w) /\ m \in 1 .. m
    BY <1>4, <2>1
  <2> HIDE DEF w, m
  <2>3. r[m] = 1 * r[m - 1] + w[m]
    BY <2>2 DEF Recurs
  <2>4. m - 1 = n
    BY <1>1 DEF m
  <2>5. r[m] = 1 * r[n] + w[m]
    BY <2>3, <2>4
  <2> QED BY <2>5, Zenon DEF w, m
<1>8. Weighted(more, n + 1)[n + 1] = k * One
  <2>1. n + 1 \in 1 .. Len(more) /\ Decimals + (n + 1) - (n + 1) = Decimals
    BY <1>1, Bases
  <2>2. Weighted(more, n + 1)[n + 1] = more[n + 1] * Power[Decimals + (n + 1) - (n + 1)]
    BY <1>2, <2>1, WeightsAre
  <2> QED BY <1>1, <2>1, <2>2 DEF One
<1>9. s[n] \in Int /\ r[n] = Base * s[n]
  <2>1. n \in 0 .. n
    BY <1>1
  <2> QED BY <1>3, <1>6, <2>1 DEF Recurs
<1>10. Worth(more, n + 1) = s[n] * Base + k * One
  <2> DEFINE x == s[n]
             y == k * One
  <2>1. x \in Int /\ y \in Int
    BY <1>9, OneIs
  <2>2. Worth(more, n + 1) = 1 * (Base * x) + y
    BY <1>4, <1>7, <1>8, <1>9
  <2> HIDE DEF x, y
  <2>3. Worth(more, n + 1) = x * Base + y
    BY <2>1, <2>2, Bases
  <2> QED BY <2>3 DEF x, y
<1> QED BY <1>3, <1>10 DEF n, more

\* ... and one behind it leaves them.
LEMMA WorthOfFraction ==
  ASSUME NEW digits, NEW whole, Numeral(digits, whole), NEW k \in Nat,
         Len(digits) + 1 <= Decimals + whole
  PROVE  Worth(Append(digits, k), whole)
           = Worth(digits, whole) + k * Power[Decimals + whole - (Len(digits) + 1)]
<1> DEFINE n == Len(digits)
           more == Append(digits, k)
<1>1. n \in Nat /\ digits \in Seq(Nat) /\ more \in Seq(Nat) /\ Len(more) = n + 1
      /\ more[n + 1] = k /\ \A i \in 1 .. n : more[i] = digits[i]
  BY DEF Numeral
<1>2. Numeral(more, whole)
  BY <1>1, Bases DEF Numeral
<1> HIDE DEF more
<1>3. PICK s : Recurs(s, n, 0, 1, Weighted(digits, whole)) /\ Worth(digits, whole) = s[n]
  BY WorthIs
<1>4. PICK r : Recurs(r, n + 1, 0, 1, Weighted(more, whole)) /\ Worth(more, whole) = r[n + 1]
  BY <1>1, <1>2, WorthIs
<1> HIDE DEF n
<1>5. \A i \in 1 .. n : Weighted(more, whole)[i] = Weighted(digits, whole)[i]
  <2> SUFFICES ASSUME NEW i \in 1 .. n
               PROVE  Weighted(more, whole)[i] = Weighted(digits, whole)[i]
    OBVIOUS
  <2>1. Weighted(digits, whole)[i] = digits[i] * Power[Decimals + whole - i]
    BY WeightsAre DEF n
  <2>2. Weighted(more, whole)[i] = more[i] * Power[Decimals + whole - i]
    <3>1. i \in 1 .. Len(more)
      BY <1>1
    <3> QED BY <1>2, <3>1, WeightsAre
  <2> QED BY <1>1, <2>1, <2>2
<1>6. \A i \in 0 .. n : r[i] = s[i]
  <2> DEFINE S == {i \in 0 .. n : r[i] # s[i]}
  <2> SUFFICES ASSUME S # {} PROVE FALSE
    OBVIOUS
  <2>1. PICK i \in S : \A j \in S : i <= j
    <3>1. S \subseteq Nat
      OBVIOUS
    <3> HIDE DEF S
    <3> QED BY <3>1, LeastMember
  <2>2. i # 0
    BY <1>3, <1>4, <2>1 DEF Recurs
  <2>3. i \in 1 .. n /\ i \in 1 .. n + 1 /\ i - 1 \in 0 .. n /\ i - 1 \notin S
    BY <1>1, <2>1, <2>2
  <2>4. r[i - 1] = s[i - 1]
    BY <2>3
  <2>5. r[i] = 1 * r[i - 1] + Weighted(more, whole)[i]
    BY <1>4, <2>3 DEF Recurs
  <2>6. s[i] = 1 * s[i - 1] + Weighted(digits, whole)[i]
    BY <1>3, <2>3 DEF Recurs
  <2> QED BY <1>5, <2>1, <2>3, <2>4, <2>5, <2>6
<1>7. r[n + 1] = 1 * r[n] + Weighted(more, whole)[n + 1] /\ r[n] = s[n] /\ s[n] \in Int
  <2>1. n + 1 \in 1 .. n + 1 /\ n + 1 - 1 = n /\ n \in 0 .. n
    BY <1>1
  <2> QED BY <1>3, <1>4, <1>6, <2>1 DEF Recurs
<1>8. Weighted(more, whole)[n + 1] = k * Power[Decimals + whole - (n + 1)]
  <2>1. n + 1 \in 1 .. Len(more)
    BY <1>1
  <2> QED BY <1>1, <1>2, <2>1, WeightsAre
<1>9. 1 * s[n] = s[n]
  BY <1>7
<1> QED BY <1>3, <1>4, <1>7, <1>8, <1>9 DEF n, more

-----------------------------------------------------------------------------
(* # stores what was typed *)

\* What the screen has accumulated is the number typed: the first key forgets
\* the entry before, and the point counts the digits behind it.
Accumulated ==
  /\ pointAt # NoPoint => pointAt <= Len(typed)
  /\ Number = Worth(typed, Whole) /\ Fraction = Len(typed) - Whole
  /\ AtPoint <=> pointAt # NoPoint
  /\ Invalid <=> misfit
  /\ initialized => show
  /\ ~initialized => typed = <<>> /\ pointAt = NoPoint /\ ~misfit

LEMMA WholeIs ==
  ASSUME TypingTypeOK, Accumulated
  PROVE  Numeral(typed, Whole)
<1>1. typed \in Seq(Nat) /\ Len(typed) \in Nat
  <2> DEFINE D == 0 .. Base - 1
  <2>1. typed \in Seq(D) /\ D \subseteq Nat
    BY Bases DEF TypingTypeOK
  <2> HIDE DEF D
  <2>2. Len(typed) \in Nat /\ \A i \in 1 .. Len(typed) : typed[i] \in Nat
    <3>1. Len(typed) \in Nat /\ DOMAIN typed = 1 .. Len(typed)
      BY <2>1
    <3>2. \A i \in DOMAIN typed : typed[i] \in D
      BY <2>1
    <3> QED BY <2>1, <3>1, <3>2
  <2>3. typed = [i \in 1 .. Len(typed) |-> typed[i]]
    BY <2>1
  <2>4. [i \in 1 .. Len(typed) |-> typed[i]] \in Seq(Nat)
    BY <2>2
  <2> QED BY <2>2, <2>3, <2>4
<1>2. Whole \in Nat /\ Whole <= Len(typed)
  BY <1>1 DEF TypingTypeOK, Accumulated, Whole
<1>3. Len(typed) <= Decimals + Whole
  BY <1>1, <1>2, EntryType, Bases DEF Accumulated
<1> QED BY <1>1, <1>2, <1>3 DEF Numeral

\* A new entry
LEMMA Forgotten ==
  ASSUME ~initialized', typed' = <<>>, pointAt' = NoPoint, ~misfit'
  PROVE  Accumulated'
<1>1. Whole' = 0 /\ Number' = 0 /\ Fraction' = 0 /\ ~AtPoint' /\ ~Invalid'
  BY DEF Whole, Number, Fraction, AtPoint, Invalid
<1>2. Number' = Worth(typed, Whole)'
  BY <1>1, WorthOfNone DEF Worth
<1> QED BY <1>1, <1>2 DEF Accumulated

LEMMA TypedDigit ==
  ASSUME TypingTypeOK, Accumulated, NEW k \in 0 .. Base - 1, KeyDigit(k)
  PROVE  Accumulated'
<1>1. Numeral(typed, Whole) /\ k \in Nat /\ Len(typed) \in Nat /\ Whole \in Nat
  BY WholeIs, Bases DEF Numeral
<1>2. typed' = Append(typed, k) /\ Len(typed') = Len(typed) + 1 /\ pointAt' = pointAt
  BY <1>1 DEF KeyDigit, Numeral
<1>3. /\ initialized' /\ show' /\ (AtPoint' <=> AtPoint) /\ (Invalid' <=> Invalid)
      /\ misfit' = misfit /\ Number' = entered' /\ Fraction' = numDecimalValues'
  BY EntryType DEF KeyDigit, AtPoint, Invalid, Number, Fraction
<1>4. CASE AtPoint
  <2>1. Whole = pointAt /\ Whole' = Whole /\ pointAt # NoPoint
    BY <1>2, <1>4 DEF Accumulated, Whole
  <2>2. /\ Fraction < Decimals /\ numDecimalValues' = Fraction + 1
        /\ entered' = Number + k * Power[Decimals - numDecimalValues']
    BY <1>4 DEF KeyDigit
  <2>3. Fraction = Len(typed) - Whole /\ Number = Worth(typed, Whole)
    BY DEF Accumulated
  <2>4. Decimals - numDecimalValues' = Decimals + Whole - (Len(typed) + 1)
        /\ Len(typed) + 1 <= Decimals + Whole
    BY <1>1, <2>2, <2>3, Bases
  <2>5. Worth(Append(typed, k), Whole)
          = Worth(typed, Whole) + k * Power[Decimals + Whole - (Len(typed) + 1)]
    BY <1>1, <2>4, WorthOfFraction
  <2>6. Number' = Worth(typed, Whole)'
    <3>1. Number' = Worth(typed', Whole')
      BY <1>2, <1>3, <2>1, <2>2, <2>3, <2>4, <2>5
    <3> QED BY <3>1, Zenon DEF Worth
  <2>7. Fraction' = Len(typed') - Whole'
    BY <1>1, <1>2, <1>3, <2>1, <2>2, <2>3
  <2>8. pointAt' <= Len(typed')
    BY <1>1, <1>2, <2>1 DEF Accumulated
  <2> QED BY <1>2, <1>3, <1>4, <2>1, <2>6, <2>7, <2>8 DEF Accumulated
<1>5. CASE ~AtPoint
  <2>1. Whole = Len(typed) /\ Whole' = Len(typed) + 1 /\ pointAt = NoPoint
    BY <1>2, <1>5 DEF Accumulated, Whole
  <2>2. numDecimalValues' = Fraction /\ entered' = Number * Base + k * One
    BY <1>5 DEF KeyDigit
  <2>3. Fraction = Len(typed) - Whole /\ Number = Worth(typed, Whole)
    BY DEF Accumulated
  <2>4. Worth(Append(typed, k), Len(typed) + 1) = Worth(typed, Len(typed)) * Base + k * One
    BY <1>1, <2>1, WorthOfWhole
  <2>5. Number' = Worth(typed, Whole)'
    <3>1. Number' = Worth(typed', Whole')
      BY <1>2, <1>3, <2>1, <2>2, <2>3, <2>4
    <3> QED BY <3>1, Zenon DEF Worth
  <2>6. Fraction' = Len(typed') - Whole'
    BY <1>1, <1>2, <1>3, <2>1, <2>2, <2>3
  <2> QED BY <1>2, <1>3, <1>5, <2>1, <2>5, <2>6 DEF Accumulated
<1> QED BY <1>4, <1>5

LEMMA TypedPoint ==
  ASSUME TypingTypeOK, Accumulated, KeyPoint
  PROVE  Accumulated'
<1>1. Numeral(typed, Whole) /\ Len(typed) \in Nat
  BY WholeIs DEF Numeral
<1>2. typed' = typed /\ pointAt' # NoPoint /\ Whole' = Whole /\ pointAt' <= Len(typed')
  BY <1>1 DEF KeyPoint, Whole, Accumulated, NoPoint
<1>3. /\ initialized' /\ show' /\ AtPoint' /\ (Invalid' <=> Invalid)
      /\ misfit' = misfit /\ Number' = Number /\ Fraction' = Fraction
  BY EntryType DEF KeyPoint, AtPoint, Invalid, Number, Fraction, OnScreen, Accumulated
<1>4. Worth(typed, Whole)' = Worth(typed, Whole)
  BY <1>2, Zenon DEF Worth
<1> QED BY <1>2, <1>3, <1>4 DEF Accumulated

LEMMA TypedUnit ==
  ASSUME TypingTypeOK, Accumulated, NEW u \in UnitKeys, KeyUnit(u)
  PROVE  Accumulated'
<1>1. typed' = typed /\ pointAt' = pointAt /\ Whole' = Whole
  BY DEF KeyUnit, Whole
<1>2. initialized' /\ show' /\ (AtPoint' <=> AtPoint) /\ Number' = Number /\ Fraction' = Fraction
  BY EntryType DEF KeyUnit, AtPoint, Number, Fraction, OnScreen, Accumulated
<1>3. Invalid' <=> misfit'
  BY <1>2, Zenon DEF KeyUnit, Invalid
<1>4. Worth(typed, Whole)' = Worth(typed, Whole)
  BY <1>1, Zenon DEF Worth
<1> QED BY <1>1, <1>2, <1>3, <1>4 DEF Accumulated

LEMMA EntryUnchanged ==
  ASSUME Accumulated, UNCHANGED <<screenVars, typed, pointAt, misfit>>
  PROVE  Accumulated'
<1>1. Worth(typed, Whole)' = Worth(typed, Whole)
  BY Zenon DEF Worth, Whole
<1> QED BY <1>1 DEF screenVars, Accumulated, Whole, Number, Fraction, AtPoint, Invalid

LEMMA AccumulatedStep == TypingTypeOK /\ Accumulated /\ [TypingNext]_typingVars => Accumulated'
<1> SUFFICES ASSUME TypingTypeOK, Accumulated, [TypingNext]_typingVars PROVE Accumulated'
  OBVIOUS
<1>1. CASE SelectValue
  BY <1>1, Forgotten DEF SelectValue
<1>2. CASE KeyPoint
  BY <1>2, TypedPoint
<1>3. CASE KeyEnter
  BY <1>3, Forgotten DEF KeyEnter
<1>4. ASSUME NEW k \in 0 .. Base - 1, KeyDigit(k) PROVE Accumulated'
  BY <1>4, TypedDigit
<1>5. ASSUME NEW u \in UnitKeys, KeyUnit(u) PROVE Accumulated'
  BY <1>5, TypedUnit
<1>6. ASSUME NEW turn \in Turns, NEW move \in -1 .. 1, Encoder(turn, move) PROVE Accumulated'
  BY <1>6, EntryUnchanged DEF Encoder
<1>7. CASE UNCHANGED typingVars
  BY <1>7, EntryUnchanged DEF typingVars, historyVars
<1> QED BY <1>1, <1>2, <1>3, <1>4, <1>5, <1>6, <1>7 DEF TypingNext

LEMMA EntryStored ==
  ASSUME TypingTypeOK, Accumulated, KeyEnter
  PROVE  LET final == Worth(typed, Whole) * Multiplier(measuringUnitIndex)
         IN  floatValue' = IF Fits(final) /\ ~misfit THEN final ELSE floatValue
<1> DEFINE final == Number * Multiplier(measuringUnitIndex)
<1>1. floatValue' = IF Fits(final) /\ ~Invalid THEN final ELSE floatValue
  <2>1. CASE Invalid
    BY <2>1 DEF KeyEnter
  <2>2. CASE ~Invalid /\ Fits(final)
    BY <2>2 DEF KeyEnter
  <2>3. CASE ~Invalid /\ ~Fits(final)
    BY <2>3 DEF KeyEnter
  <2> QED BY <2>1, <2>2, <2>3
<1>2. Number = Worth(typed, Whole) /\ (Invalid <=> misfit)
  BY DEF Accumulated
<1> QED BY <1>1, <1>2

\* For every base, length and number of decimals, kind of value and order of
\* keys: # stores the number typed since the last one, in the unit chosen last,
\* if it fits, and else leaves the value.
THEOREM WhatIsTypedIsStored == TypingSpec => EnterStoresTheEntry
<1>1. TypingInit => Accumulated
  <2> SUFFICES ASSUME TypingInit PROVE Accumulated
    OBVIOUS
  <2>1. Whole = 0 /\ Number = 0 /\ Fraction = 0 /\ ~AtPoint /\ ~Invalid
    BY DEF TypingInit, Whole, Number, Fraction, AtPoint, Invalid
  <2>2. typed = <<>> /\ pointAt = NoPoint /\ ~misfit /\ ~initialized
    BY DEF TypingInit
  <2> QED BY <2>1, <2>2, WorthOfNone DEF Accumulated
<1>2. TypingTypeOK /\ Accumulated /\ [TypingNext]_typingVars =>
        [pressed' = "#" =>
           LET final == Worth(typed, Whole) * Multiplier(measuringUnitIndex)
           IN  floatValue' = IF Fits(final) /\ ~misfit THEN final ELSE floatValue
        ]_typingVars
  <2>1. TypingNext /\ pressed' = "#" => KeyEnter
    BY DEF TypingNext, SelectValue, KeyPoint, KeyDigit, KeyUnit, Encoder
  <2> QED BY <2>1, EntryStored
<1> QED
  BY <1>1, <1>2, TypingTypeInit, TypingTypeStep, AccumulatedStep, PTL
     DEF TypingSpec, EnterStoresTheEntry
=============================================================================
