---------------------------- MODULE KeymapProofs ----------------------------
(***************************************************************************)
(* The keymap for every file, terminal and size of the table: what the     *)
(* client's table says of its list, that a reload only adds, and what the  *)
(* editor's marks, its flag and its screen can be relied on for.           *)
(***************************************************************************)
EXTENDS Keymap, SequenceTheorems, Recursion, TLAPS

Origin == [seq : Seqs, is_modified : BOOLEAN]

\* KeymapTypeOK in parts, and what holds while the editor is not running.
FlagTypes == up \in BOOLEAN /\ g_dirty_flag \in BOOLEAN /\ spoiled \in BOOLEAN
TableTypes == /\ g_keymap \in Seq(Entry)
              /\ keymap_hash \in [Bucket -> SUBSET (1..Len(g_keymap))]
ListTypes == file \in Seq(Entry) /\ list \in Seq(Entry) /\ g_org_seq \in Seq(Origin)
ViewTypes ==
  /\ pc \in {"down", "list", "saving", "saving_to_quit", "ask_save", "ask_exit"}
  /\ g_cur_itm_idx \in Nat /\ g_top_itm_idx \in Nat /\ lines \in Heights
  /\ pc # "down" => g_cur_itm_idx < g_map_entries
Resting == pc = "down" => g_cur_itm_idx = 0 /\ g_top_itm_idx = 0 /\ ~g_dirty_flag

LEMMA TypeParts ==
  KeymapTypeOK <=> FlagTypes /\ TableTypes /\ ListTypes /\ ViewTypes
BY DEF KeymapTypeOK, FlagTypes, TableTypes, ListTypes, ViewTypes, Origin

LEMMA SameLength ==
  ASSUME NEW S, NEW n \in Nat, NEW f \in [1..n -> S]
  PROVE  f \in Seq(S) /\ Len(f) = n
<1>1. f \in Seq(S)
  OBVIOUS
<1> QED BY <1>1, LenProperties

LEMMA ReversedType ==
  ASSUME NEW S, NEW s \in Seq(S)
  PROVE  /\ Reversed(s) \in Seq(S) /\ Len(Reversed(s)) = Len(s)
         /\ \A i \in 1..Len(s) : Reversed(s)[i] = s[Len(s) + 1 - i]
<1>1. Len(s) \in Nat /\ DOMAIN s = 1..Len(s)
  BY LenProperties
<1>2. \A i \in 1..Len(s) : Len(s) + 1 - i \in 1..Len(s)
  BY <1>1
<1>3. Reversed(s) \in [1..Len(s) -> S]
  BY <1>1, <1>2 DEF Reversed
<1>4. \A i \in 1..Len(s) : Reversed(s)[i] = s[Len(s) + 1 - i]
  BY DEF Reversed
<1> QED BY <1>1, <1>3, <1>4, SameLength

\* Turned round twice, it is what it was.
LEMMA ReversedTwice ==
  ASSUME NEW S, NEW s \in Seq(S)
  PROVE  \A i \in 1..Len(s) : Reversed(Reversed(s))[i] = s[i]
<1>1. Reversed(s) \in Seq(S) /\ Len(Reversed(s)) = Len(s) /\ Len(s) \in Nat
  BY ReversedType, LenProperties
<1>2. ASSUME NEW i \in 1..Len(s) PROVE Reversed(Reversed(s))[i] = s[i]
  <2>1. Len(s) + 1 - i \in 1..Len(s) /\ Len(s) + 1 - (Len(s) + 1 - i) = i
    BY <1>1
  <2>2. Reversed(Reversed(s))[i] = Reversed(s)[Len(s) + 1 - i]
    BY <1>1, ReversedType
  <2> QED BY <2>1, <2>2, ReversedType
<1> QED BY <1>2

LEMMA CutType ==
  ASSUME NEW e \in Entry
  PROVE  [e EXCEPT !.seq = Cut(@)] \in Entry /\ SameLine([e EXCEPT !.seq = Cut(@)], e)
<1>1. e.seq \in Seqs /\ e.seq \in Seq(0..255) /\ Cut(e.seq) \in Seqs
  BY KeymapAssumption DEF Entry
<1>2. Cut(Cut(e.seq)) = Cut(e.seq)
  <2>1. CASE Len(e.seq) <= SAVE_LEN
    BY <2>1 DEF Cut
  <2>2. CASE ~(Len(e.seq) <= SAVE_LEN)
    <3>1. SAVE_LEN \in Nat \ {0} /\ Len(e.seq) \in Nat
      BY <1>1, KeymapAssumption, LenProperties
    <3>2. Len(SubSeq(e.seq, 1, SAVE_LEN)) = SAVE_LEN
      <4>1. 1 \in 1..(Len(e.seq) + 1) /\ SAVE_LEN \in 0..Len(e.seq) /\ 1 <= SAVE_LEN
        BY <2>2, <3>1
      <4> QED BY <1>1, <3>1, <4>1, SubSeqProperties
    <3> QED BY <2>2, <3>1, <3>2 DEF Cut
  <2> QED BY <2>1, <2>2
<1> QED BY <1>1, <1>2 DEF Entry, SameLine

-----------------------------------------------------------------------------
(* Types.                                                                  *)

LEMMA TypeInit == Init => KeymapTypeOK /\ Resting
<1> SUFFICES ASSUME Init PROVE KeymapTypeOK /\ Resting
  OBVIOUS
<1> USE KeymapAssumption
<1>1. FlagTypes
  BY DEF Init, FlagTypes
<1>2. TableTypes
  BY DEF Init, TableTypes, NoHash
<1>3. ListTypes
  BY DEF Init, ListTypes
<1>4. ViewTypes
  BY DEF Init, ViewTypes
<1>5. Resting
  BY DEF Init, Resting
<1> QED BY <1>1, <1>2, <1>3, <1>4, <1>5, TypeParts

\* What a load does to the client's list, whether it succeeds or not.
Longer == /\ g_keymap' \in Seq(Entry) /\ Len(g_keymap) <= Len(g_keymap')
          /\ \A i \in 1..Len(g_keymap) : g_keymap'[i] = g_keymap[i]

LEMMA LoadLonger ==
  ASSUME TableTypes, ListTypes, KeymapLoads \/ KeymapLoadFails
  PROVE  Longer
<1>1. g_keymap \in Seq(Entry) /\ file \in Seq(Entry) /\ Len(g_keymap) \in Nat
      /\ Len(file) \in Nat
  BY LenProperties DEF TableTypes, ListTypes
<1>2. \E more \in Seq(Entry) : g_keymap' = g_keymap \o more
  <2>1. CASE KeymapLoads
    BY <1>1, <2>1 DEF KeymapLoads
  <2>2. CASE KeymapLoadFails
    <3>1. PICK n \in 0..(Len(file) - 1) : g_keymap' = g_keymap \o SubSeq(file, 1, n)
      BY <2>2 DEF KeymapLoadFails
    <3>2. SubSeq(file, 1, n) \in Seq(Entry)
      <4>1. 1 \in 1..(Len(file) + 1) /\ n \in 0..Len(file)
        BY <1>1
      <4> QED BY <1>1, <4>1, SubSeqProperties
    <3> QED BY <3>1, <3>2
  <2> QED BY <2>1, <2>2
<1>3. PICK more \in Seq(Entry) : g_keymap' = g_keymap \o more
  BY <1>2
<1>4. /\ g_keymap \o more \in Seq(Entry) /\ Len(more) \in Nat
      /\ Len(g_keymap \o more) = Len(g_keymap) + Len(more)
      /\ \A i \in 1..Len(g_keymap) : (g_keymap \o more)[i] = g_keymap[i]
  BY <1>1, ConcatProperties, LenProperties
<1> QED BY <1>1, <1>3, <1>4 DEF Longer

LEMMA TypeLoad ==
  ASSUME TableTypes, ListTypes, KeymapLoads \/ KeymapLoadFails
  PROVE  TableTypes'
<1>1. Longer /\ Len(g_keymap) \in Nat
  BY LoadLonger, LenProperties DEF TableTypes
<1>2. Len(g_keymap') \in Nat
  BY <1>1, LenProperties DEF Longer
<1>3. CASE KeymapLoads
  BY <1>1, <1>3 DEF TableTypes, KeymapLoads, keymap_build_hash, Longer
<1>4. CASE KeymapLoadFails
  <2>1. 1..Len(g_keymap) \subseteq 1..Len(g_keymap')
    BY <1>1, <1>2 DEF Longer
  <2>2. keymap_hash' = keymap_hash
    BY <1>4 DEF KeymapLoadFails
  <2> QED BY <1>1, <2>1, <2>2 DEF TableTypes, Longer
<1> QED BY <1>3, <1>4

LEMMA TypeEdit ==
  ASSUME ListTypes, NEW typed \in Typed, Edit(typed)
  PROVE  /\ ListTypes' /\ Len(list') = Len(list) /\ Len(g_org_seq') = Len(g_org_seq)
         /\ \A i \in 1..Len(list) : i # g_cur_itm_idx + 1 => list'[i] = list[i]
<1> DEFINE k == g_cur_itm_idx + 1
           new == capture_sequence(typed)
<1>1. new \in Seqs
  BY KeymapAssumption DEF Edit
<1> HIDE DEF k, new
<1>2. /\ list' = [list EXCEPT ![k] = [list[k] EXCEPT !.seq = new]]
      /\ g_org_seq' = [g_org_seq EXCEPT ![k] = [g_org_seq[k] EXCEPT !.is_modified = TRUE]]
  BY DEF Edit, k, new
<1>3. /\ list \in Seq(Entry) /\ DOMAIN list = 1..Len(list) /\ Len(list) \in Nat
      /\ g_org_seq \in Seq(Origin) /\ DOMAIN g_org_seq = 1..Len(g_org_seq)
      /\ Len(g_org_seq) \in Nat
  BY LenProperties DEF ListTypes
<1>4. list' \in [1..Len(list) -> Entry]
  <2>1. \A e \in Entry : [e EXCEPT !.seq = new] \in Entry
    BY <1>1 DEF Entry
  <2>2. \A i \in 1..Len(list) : list[i] \in Entry
    BY <1>3
  <2> QED BY <1>2, <1>3, <2>1, <2>2
<1>5. g_org_seq' \in [1..Len(g_org_seq) -> Origin]
  <2>1. \A o \in Origin : [o EXCEPT !.is_modified = TRUE] \in Origin
    BY DEF Origin
  <2>2. \A i \in 1..Len(g_org_seq) : g_org_seq[i] \in Origin
    BY <1>3
  <2> QED BY <1>2, <1>3, <2>1, <2>2
<1>6. list' \in Seq(Entry) /\ Len(list') = Len(list)
  BY <1>3, <1>4, SameLength
<1>7. g_org_seq' \in Seq(Origin) /\ Len(g_org_seq') = Len(g_org_seq)
  BY <1>3, <1>5, SameLength
<1>8. file' \in Seq(Entry)
  BY DEF Edit, ListTypes
<1>9. \A i \in 1..Len(list) : i # k => list'[i] = list[i]
  BY <1>2, <1>3
<1> QED BY <1>6, <1>7, <1>8, <1>9 DEF ListTypes, k

LEMMA CutFile ==
  ASSUME ListTypes, FileCut
  PROVE  file' \in Seq(Entry)
<1>1. PICK n \in 0..Len(file) : file' = SubSeq(file, 1, n)
  BY DEF FileCut
<1>2. file \in Seq(Entry) /\ Len(file) \in Nat
  BY LenProperties DEF ListTypes
<1>3. \A i \in 1..n : file[i] \in Entry
  BY <1>1, <1>2
<1> QED BY <1>1, <1>2, <1>3, SubSeqProperties

\* The next line of a save is an entry of the list, cut to fit.
LEMMA NextLine ==
  ASSUME ListTypes, Saving, Len(file) < Len(list)
  PROVE  LET i == Len(file) + 1
         IN  i \in 1..Len(list) /\ Line(i) \in Entry /\ SameLine(Line(i), Reversed(list)[i])
<1> DEFINE i == Len(file) + 1
<1>1. i \in 1..Len(list) /\ list \in Seq(Entry)
  BY LenProperties DEF ListTypes
<1>2. Reversed(list) \in Seq(Entry) /\ Len(Reversed(list)) = Len(list)
  BY <1>1, ReversedType
<1>3. Reversed(list)[i] \in Entry
  BY <1>1, <1>2
<1> HIDE DEF i
<1>4. Line(i) = [Reversed(list)[i] EXCEPT !.seq = Cut(@)]
  BY DEF Line
<1>5. Line(i) \in Entry /\ SameLine(Line(i), Reversed(list)[i])
  BY <1>3, <1>4, CutType
<1> QED BY <1>1, <1>5 DEF i

LEMMA TypeFile ==
  ASSUME ListTypes, SaveLine
  PROVE  file' \in Seq(Entry) /\ Len(file') = Len(file) + 1
         /\ file'[Len(file) + 1] = Line(Len(file) + 1)
         /\ \A i \in 1..Len(file) : file'[i] = file[i]
<1>1. Line(Len(file) + 1) \in Entry
  BY NextLine DEF SaveLine
<1>2. file \in Seq(Entry)
  BY DEF ListTypes
<1> QED BY <1>1, <1>2, AppendProperties DEF SaveLine

LEMMA TypeWriteFails ==
  ASSUME ListTypes, WriteFails
  PROVE  ListTypes'
<1>1. list \in Seq(Entry) /\ list # <<>> /\ file \in Seq(Entry)
  BY LenProperties DEF ListTypes, WriteFails
<1>2. Head(list) \in Entry
  BY <1>1, HeadTailProperties
<1>3. <<Head(list)>> \in Seq(Entry)
  BY <1>2
<1> QED BY <1>3, CutFile DEF ListTypes, WriteFails

LEMMA TypeEditorStarts ==
  ASSUME ListTypes, EditorStarts
  PROVE  /\ ListTypes' /\ Len(list') = Len(file) /\ Len(g_org_seq') = Len(file)
         /\ \A i \in 1..Len(file) : g_org_seq'[i].seq = list'[i].seq
         /\ Len(file) \in Nat \ {0} /\ file' = file
<1>1. file \in Seq(Entry) /\ Len(file) \in Nat \ {0}
  BY EmptySeq, LenProperties DEF ListTypes, EditorStarts
<1>2. list' = Reversed(file) /\ file' = file
  BY DEF EditorStarts
<1>3. list' \in Seq(Entry) /\ Len(list') = Len(file)
  BY <1>1, <1>2, ReversedType
<1>4. \A i \in 1..Len(file) : list'[i] \in Entry
  BY <1>3
<1>5. g_org_seq' = [i \in 1..Len(file) |-> [seq |-> list'[i].seq, is_modified |-> FALSE]]
  BY DEF EditorStarts
<1>6. g_org_seq' \in [1..Len(file) -> Origin]
  BY <1>4, <1>5 DEF Origin, Entry
<1>7. g_org_seq' \in Seq(Origin) /\ Len(g_org_seq') = Len(file)
  BY <1>1, <1>6, SameLength
<1>8. \A i \in 1..Len(file) : g_org_seq'[i].seq = list'[i].seq
  BY <1>5
<1> QED BY <1>1, <1>2, <1>3, <1>7, <1>8 DEF ListTypes

\* clamp does what its name says.
LEMMA Clamped ==
  ASSUME NEW max \in Nat, NEW i \in Int
  PROVE  clamp(i, max) \in 0..max /\ (i \in 0..max => clamp(i, max) = i)
BY DEF clamp

LEMMA Rows == \A l \in Heights : (IF l > 5 THEN l - 5 ELSE 1) \in Nat \ {0}
BY KeymapAssumption

LEMMA TargetsIn ==
  ASSUME ViewTypes, g_map_entries \in Nat, pc # "down", NEW cur \in Targets
  PROVE  cur \in 0..(g_map_entries - 1) /\ ensure_visible(cur) \in Nat
<1>1. /\ g_cur_itm_idx \in Nat /\ g_top_itm_idx \in Nat /\ visible_count \in Nat \ {0}
      /\ g_cur_itm_idx < g_map_entries
  BY Rows DEF ViewTypes, visible_count
<1>2. g_map_entries - 1 \in Nat
  BY <1>1
<1>3. /\ clamp(g_cur_itm_idx - visible_count, g_map_entries - 1) \in 0..(g_map_entries - 1)
      /\ clamp(g_cur_itm_idx + visible_count, g_map_entries - 1) \in 0..(g_map_entries - 1)
  BY <1>1, <1>2, Clamped
<1>4. cur \in 0..(g_map_entries - 1)
  BY <1>1, <1>2, <1>3 DEF Targets
<1>5. ensure_visible(cur) \in Nat
  BY <1>1, <1>4, <1>2 DEF ensure_visible, clamp
<1> QED BY <1>4, <1>5

LEMMA TypeNext == KeymapTypeOK /\ Resting /\ [Next]_vars => KeymapTypeOK' /\ Resting'
<1> SUFFICES ASSUME KeymapTypeOK, Resting, [Next]_vars
             PROVE  FlagTypes' /\ TableTypes' /\ ListTypes' /\ ViewTypes' /\ Resting'
  BY DEF KeymapTypeOK, FlagTypes, TableTypes, ListTypes, ViewTypes, Origin
<1>0. FlagTypes /\ TableTypes /\ ListTypes /\ ViewTypes
  BY TypeParts
<1>1. FlagTypes'
  BY <1>0 DEF FlagTypes, Next, ClientStarts, Reload, ClientEnds, EditorStarts, Edit,
       SaveOpens, SaveLine, WriteFails, CloseFails, SaveEnds, EditorEnds, Quit, Navigate,
       Resize, TextEdit, vars, clientVars, editorVars
<1>2. TableTypes'
  <2>1. CASE UNCHANGED clientVars
    BY <1>0, <2>1 DEF TableTypes, clientVars
  <2>2. CASE ClientStarts \/ Reload
    BY <1>0, <2>2, TypeLoad DEF ClientStarts, Reload
  <2>3. CASE ClientEnds
    BY <2>3 DEF TableTypes, ClientEnds, NoHash
  <2> QED BY <2>1, <2>2, <2>3 DEF Next, EditorStarts, Edit, SaveOpens, SaveLine,
       WriteFails, CloseFails, SaveEnds, Quit, Navigate, Resize, TextEdit, vars
<1>3. ListTypes'
  <2>1. CASE UNCHANGED <<file, list, g_org_seq>>
    BY <1>0, <2>1 DEF ListTypes
  <2>2. CASE EditorStarts
    BY <1>0, <2>2, TypeEditorStarts
  <2>3. CASE \E typed \in Typed : Edit(typed)
    BY <1>0, <2>3, TypeEdit
  <2>4. CASE SaveOpens
    <3>1. (file' = file \/ file' = <<>>) /\ UNCHANGED <<list, g_org_seq>>
      BY <2>4 DEF SaveOpens
    <3>2. file \in Seq(Entry) /\ <<>> \in Seq(Entry)
      BY <1>0 DEF ListTypes
    <3>3. CASE file' = file
      BY <1>0, <3>1, <3>3 DEF ListTypes
    <3>4. CASE file' = <<>>
      <4>1. file' \in Seq(Entry)
        BY <3>2, <3>4
      <4>2. list' = list /\ g_org_seq' = g_org_seq
        BY <3>1
      <4> QED BY <1>0, <4>1, <4>2 DEF ListTypes
    <3> QED BY <3>1, <3>3, <3>4
  <2>5. CASE SaveLine
    BY <1>0, <2>5, TypeFile DEF ListTypes, SaveLine, editorVars
  <2>6. CASE WriteFails
    BY <1>0, <2>6, TypeWriteFails
  <2>7. CASE CloseFails
    BY <1>0, <2>7, CutFile DEF ListTypes, CloseFails
  <2>8. CASE EditorEnds /\ file' = file
    BY <1>0, <2>8 DEF ListTypes, EditorEnds
  <2>9. CASE TextEdit
    BY <1>0, <2>9, KeymapAssumption DEF ListTypes, TextEdit, editorVars
  <2> QED BY <2>1, <2>2, <2>3, <2>4, <2>5, <2>6, <2>7, <2>8, <2>9 DEF Next, ClientStarts,
       Reload, ClientEnds, SaveEnds, Quit, Navigate, Resize, vars, editorVars
<1>4. ViewTypes' /\ Resting'
  <2>0. Len(g_org_seq) \in Nat
    BY <1>0, LenProperties DEF ListTypes
  <2>1. CASE UNCHANGED editorVars
    BY <1>0, <2>1 DEF ViewTypes, Resting, editorVars, viewVars, g_map_entries
  <2>2. CASE EditorStarts
    <3>1. Len(g_org_seq') > 0
      BY <1>0, <2>2, TypeEditorStarts
    <3> QED BY <1>0, <2>2, <3>1 DEF ViewTypes, Resting, EditorStarts, viewVars, g_map_entries
  <2>3. CASE \E typed \in Typed : Edit(typed)
    <3>1. PICK typed \in Typed : Edit(typed)
      BY <2>3
    <3>2. Len(g_org_seq') = Len(g_org_seq)
      BY <1>0, <3>1, TypeEdit
    <3> QED BY <1>0, <3>1, <3>2 DEF ViewTypes, Resting, Edit, viewVars, g_map_entries
  <2>4. CASE EditorEnds
    BY <2>4 DEF ViewTypes, Resting, EditorEnds
  <2>5. CASE Navigate
    BY <1>0, <2>0, <2>5, TargetsIn DEF ViewTypes, Resting, Navigate, g_map_entries
  <2>6. CASE Resize
    BY <1>0, <2>6 DEF ViewTypes, Resting, Resize, g_map_entries
  <2>7. CASE SaveOpens \/ WriteFails \/ CloseFails \/ SaveEnds \/ Quit
    <3>1. CASE /\ pc # "down" /\ UNCHANGED <<g_org_seq, viewVars>>
               /\ pc' \in {"list", "saving", "saving_to_quit", "ask_save", "ask_exit"}
      BY <1>0, <3>1 DEF ViewTypes, Resting, viewVars, g_map_entries
    <3> QED BY <2>4, <2>7, <3>1 DEF SaveOpens, WriteFails, CloseFails, SaveEnds, Quit, Saving
  <2> QED BY <2>1, <2>2, <2>3, <2>5, <2>6, <2>7 DEF Next, ClientStarts, Reload, ClientEnds,
       SaveLine, TextEdit, vars
<1> QED BY <1>1, <1>2, <1>3, <1>4

-----------------------------------------------------------------------------
(* The client's table.                                                     *)

\* The hash of a sequence of any length names a bucket of the table.
LEMMA HashInBucket == ASSUME NEW seq \in Seqs PROVE hash_sequence(seq) \in Bucket
<1> DEFINE n == Len(seq)
           size == KEYMAP_HASH_SIZE
           first == 5381 % size
           step == [t \in Nat \X Bucket |->
                      IF t[1] \in 1..n THEN (33 * t[2] + seq[t[1]]) % size ELSE first]
           Is(f) == f = [i \in 0..n |-> IF i = 0 THEN first
                                                ELSE (33 * f[i - 1] + seq[i]) % size]
<1>1. n \in Nat /\ size \in Nat \ {0} /\ \A i \in 1..n : seq[i] \in Nat
  <2>1. PICK S : S = 0..255
    OBVIOUS
  <2>2. S \subseteq Nat
    BY <2>1
  <2>3. seq \in Seq(S)
    BY <2>1, KeymapAssumption, Zenon
  <2>4. n \in Nat /\ \A i \in 1..n : seq[i] \in S
    BY <2>3, LenProperties, ElementOfSeq
  <2>5. size \in Nat \ {0}
    BY KeymapAssumption, Zenon
  <2> QED BY <2>2, <2>4, <2>5
<1>2. \A a \in Int : a % size \in Bucket
  BY <1>1 DEF Bucket
<1>3. \A i \in 1..n, b \in Bucket : (33 * b + seq[i]) % size \in Bucket
  <2> SUFFICES ASSUME NEW i \in 1..n, NEW b \in Bucket
               PROVE  (33 * b + seq[i]) % size \in Bucket
    OBVIOUS
  <2>1. seq[i] \in Nat
    BY <1>1
  <2> HIDE DEF n
  <2>2. b \in Nat
    BY <1>1 DEF Bucket
  <2>3. 33 * b + seq[i] \in Int
    BY <2>1, <2>2
  <2> QED BY <1>2, <2>3
<1>4. first \in Bucket
  BY <1>2
<1>5. hash_sequence(seq) = (CHOOSE f : Is(f))[n]
  BY DEF hash_sequence
<1> HIDE DEF n, size, first
<1>6. step \in [Nat \X Bucket -> Bucket]
  BY <1>3, <1>4
<1>7. PICK g \in [0..n -> Bucket] : Unrolls(g, n, first, step)
  <2> HIDE DEF step
  <2> QED BY <1>1, <1>4, <1>6, Unrolled
<1>8. ASSUME NEW i \in 1..n PROVE g[i] = (33 * g[i - 1] + seq[i]) % size
  <2>1. g[i - 1] \in Bucket /\ i \in Nat
    BY <1>1
  <2>2. step[<<i, g[i - 1]>>] = (33 * g[i - 1] + seq[i]) % size
    BY <2>1
  <2>3. g[i] = step[<<i, g[i - 1]>>]
    BY <1>7 DEF Unrolls
  <2> QED BY <2>2, <2>3
<1>9. Is(g)
  BY <1>7, <1>8 DEF Unrolls
<1> DEFINE f == CHOOSE h : Is(h)
           D == {i \in Nat : i <= n => f[i] \in Bucket}
<1>10. Is(f)
  BY <1>9
<1> HIDE DEF f
<1>11. 0 \in D
  BY <1>1, <1>4, <1>10
<1>12. ASSUME NEW i \in Nat, i \in D PROVE i + 1 \in D
  <2> SUFFICES ASSUME i + 1 <= n PROVE f[i + 1] \in Bucket
    OBVIOUS
  <2>1. i + 1 \in 1..n /\ i + 1 \in 0..n /\ i + 1 # 0 /\ (i + 1) - 1 = i /\ f[i] \in Bucket
    BY <1>1, <1>12
  <2>2. f[i + 1] = (33 * f[i] + seq[i + 1]) % size
    BY <1>10, <2>1
  <2> QED BY <1>3, <2>1, <2>2
<1> HIDE DEF D
<1>13. n \in D
  BY <1>1, <1>11, <1>12, CountsUp
<1> QED BY <1>1, <1>5, <1>13 DEF D, f

\* The table is that of the oldest n entries of the list.
IsTable(g, h, n) ==
  \A b \in Bucket : h[b] = {i \in 1..n : hash_sequence(g[i].seq) = b}
TableOf(n) == IsTable(g_keymap, keymap_hash, n)
TableOK == /\ \E n \in 0..Len(g_keymap) : TableOf(n)
           /\ ~up => g_keymap = <<>>

IsOldest(g, n, seq, i) ==
  /\ i \in 1..n /\ g[i].seq = seq
  /\ \A j \in 1..n : g[j].seq = seq => i <= j

\* keymap_find on the table h of the oldest n entries of a list g.
LEMMA FindMin ==
  ASSUME NEW g, NEW h, NEW n \in Nat, NEW seq \in Seqs, NEW i,
         IsTable(g, h, n), IsOldest(g, n, seq, i)
  PROVE  keymap_find(g, h, seq) = g[i]
<1> DEFINE b == hash_sequence(seq)
           chain == {k \in h[b] : g[k].seq = seq}
<1>1. b \in Bucket
  BY HashInBucket
<1>2. h[b] = {k \in 1..n : hash_sequence(g[k].seq) = b}
  BY <1>1 DEF IsTable
<1>3. chain = {k \in 1..n : g[k].seq = seq}
  BY <1>2
<1>4. i \in chain /\ \A j \in chain : i <= j
  BY <1>3 DEF IsOldest
<1>5. \A k \in chain : (\A j \in chain : k <= j) => k = i
  <2>1. \A k \in chain : k \in Nat
    BY <1>3
  <2> HIDE DEF chain
  <2> QED BY <1>4, <2>1
<1>6. (CHOOSE k \in chain : \A j \in chain : k <= j) = i
  <2> HIDE DEF chain
  <2> QED BY <1>4, <1>5
<1> QED BY <1>4, <1>6 DEF keymap_find

LEMMA FindNone ==
  ASSUME NEW g, NEW h, NEW n \in Nat, NEW seq \in Seqs, IsTable(g, h, n),
         \A j \in 1..n : g[j].seq # seq
  PROVE  keymap_find(g, h, seq) = NotFound
<1>1. hash_sequence(seq) \in Bucket
  BY HashInBucket
<1>2. {k \in h[hash_sequence(seq)] : g[k].seq = seq} = {}
  BY <1>1 DEF IsTable
<1> QED BY <1>2 DEF keymap_find

LEMMA OldestIsMin ==
  ASSUME NEW n \in Nat, NEW seq, NEW i, IsOldest(g_keymap, n, seq, i)
  PROVE  OldestIn(n, seq) = g_keymap[i]
<1> USE DEF IsOldest
<1> DEFINE First(k) == g_keymap[k].seq = seq
                       /\ \A j \in 1..(k - 1) : g_keymap[j].seq # seq
<1>1. First(i)
  <2>1. ASSUME NEW j \in 1..(i - 1), g_keymap[j].seq = seq PROVE FALSE
    <3>1. j \in 1..n /\ ~ (i <= j)
      OBVIOUS
    <3> QED BY <2>1, <3>1
  <2> QED BY <2>1
<1>2. \A k \in 1..n : First(k) => k = i
  <2>1. ASSUME NEW k \in 1..n, First(k) PROVE k = i
    <3>1. i <= k
      BY <2>1
    <3>2. ~ (i \in 1..(k - 1))
      BY <2>1
    <3> QED BY <3>1, <3>2
  <2> QED BY <2>1
<1>3. (CHOOSE k \in 1..n : First(k)) = i
  <2> HIDE DEF First
  <2> QED BY <1>1, <1>2
<1> QED BY <1>3 DEF OldestIn

LEMMA TableSays == TableTypes /\ TableOK => FindsOldest
<1> SUFFICES ASSUME TableTypes, TableOK PROVE FindsOldest
  OBVIOUS
<1>1. PICK n \in 0..Len(g_keymap) : TableOf(n)
  BY DEF TableOK
<1>2. ASSUME NEW seq \in Seqs
      PROVE  keymap_find(g_keymap, keymap_hash, seq) = OldestIn(n, seq)
  <2> DEFINE has == {i \in 1..n : g_keymap[i].seq = seq}
  <2>0. n \in Nat
    BY <1>1
  <2>1. CASE has = {}
    BY <1>1, <1>2, <2>0, <2>1, FindNone DEF OldestIn, TableOf
  <2>2. CASE has # {}
    <3>1. has \subseteq Nat
      BY <2>0
    <3>2. PICK i \in has : \A j \in has : i <= j
      BY <2>2, <3>1, LeastOf
    <3>3. IsOldest(g_keymap, n, seq, i)
      BY <3>2 DEF IsOldest
    <3> HIDE DEF has
    <3>4. keymap_find(g_keymap, keymap_hash, seq) = g_keymap[i]
      BY <1>1, <1>2, <2>0, <3>3, FindMin DEF TableOf
    <3>5. OldestIn(n, seq) = g_keymap[i]
      BY <2>0, <3>3, OldestIsMin
    <3> QED BY <3>4, <3>5
  <2> QED BY <2>1, <2>2
<1> QED BY <1>1, <1>2 DEF FindsOldest

LEMMA TableInit == Init => TableOK
<1> SUFFICES ASSUME Init PROVE TableOK
  OBVIOUS
<1>1. TableOf(0) /\ Len(g_keymap) = 0
  BY DEF Init, TableOf, IsTable, NoHash
<1> QED BY <1>1 DEF TableOK, Init

\* The table of a load is at least as long as the one before.
LEMMA TableLoad ==
  ASSUME TableTypes, ListTypes, KeymapLoads \/ KeymapLoadFails,
         NEW n \in 0..Len(g_keymap), TableOf(n)
  PROVE  \E m \in n..Len(g_keymap') : TableOf(m)'
<1>1. Longer /\ Len(g_keymap) \in Nat
  BY LoadLonger, LenProperties DEF TableTypes
<1>2. Len(g_keymap') \in Nat
  BY <1>1, LenProperties DEF Longer
<1>3. CASE KeymapLoads
  <2>1. Len(g_keymap') \in n..Len(g_keymap')
    BY <1>1, <1>2 DEF Longer
  <2>2. TableOf(Len(g_keymap))'
    BY <1>3 DEF TableOf, IsTable, KeymapLoads, keymap_build_hash
  <2> QED BY <2>1, <2>2
<1>4. CASE KeymapLoadFails
  <2>1. n \in n..Len(g_keymap')
    BY <1>1, <1>2 DEF Longer
  <2>2. \A i \in 1..n : g_keymap'[i] = g_keymap[i]
    BY <1>1 DEF Longer
  <2>3. keymap_hash' = keymap_hash
    BY <1>4 DEF KeymapLoadFails
  <2>4. TableOf(n)'
    BY <2>2, <2>3 DEF TableOf, IsTable
  <2> QED BY <2>1, <2>4
<1> QED BY <1>3, <1>4

LEMMA TableNext == KeymapTypeOK /\ TableOK /\ [Next]_vars => TableOK'
<1> SUFFICES ASSUME KeymapTypeOK, TableOK, [Next]_vars PROVE TableOK'
  OBVIOUS
<1>0. TableTypes /\ ListTypes
  BY TypeParts
<1>1. CASE UNCHANGED clientVars
  BY <1>1 DEF TableOK, TableOf, IsTable, clientVars
<1>2. CASE ClientStarts \/ Reload
  <2>1. PICK n \in 0..Len(g_keymap) : TableOf(n)
    BY DEF TableOK
  <2>2. PICK m \in n..Len(g_keymap') : TableOf(m)'
    BY <1>0, <1>2, <2>1, TableLoad DEF ClientStarts, Reload
  <2>3. m \in 0..Len(g_keymap')
    BY <2>1, <2>2
  <2>4. up'
    BY <1>2 DEF ClientStarts, Reload
  <2> QED BY <2>2, <2>3, <2>4 DEF TableOK
<1>3. CASE ClientEnds
  <2>1. g_keymap' = <<>> /\ keymap_hash' = NoHash
    BY <1>3 DEF ClientEnds
  <2>2. TableOf(0)' /\ Len(g_keymap') = 0
    BY <2>1 DEF TableOf, IsTable, NoHash
  <2> QED BY <2>1, <2>2 DEF TableOK
<1> QED BY <1>1, <1>2, <1>3 DEF Next, EditorStarts, Edit, SaveOpens, SaveLine, WriteFails,
     CloseFails, SaveEnds, Quit, Navigate, Resize, TextEdit, vars

LEMMA ReloadStep ==
  ASSUME KeymapTypeOK, KeymapTypeOK', TableOK, [Next]_vars
  PROVE  ReloadOnlyAddsStep
<1> SUFFICES ASSUME up, up', NEW seq \in Seqs,
                    keymap_find(g_keymap, keymap_hash, seq) # NotFound
             PROVE  keymap_find(g_keymap', keymap_hash', seq)
                      = keymap_find(g_keymap, keymap_hash, seq)
  BY DEF ReloadOnlyAddsStep
<1>0. TableTypes /\ ListTypes /\ TableTypes'
  BY TypeParts DEF KeymapTypeOK, TableTypes
<1>1. CASE UNCHANGED clientVars
  BY <1>1 DEF clientVars
<1>2. CASE Reload
  <2>1. PICK n \in 0..Len(g_keymap) : TableOf(n)
    BY DEF TableOK
  <2>2. PICK m \in n..Len(g_keymap') : TableOf(m)'
    BY <1>0, <1>2, <2>1, TableLoad DEF Reload
  <2>3. Longer /\ Len(g_keymap) \in Nat
    BY <1>0, <1>2, LoadLonger, LenProperties DEF Reload, TableTypes
  <2> DEFINE has == {i \in 1..n : g_keymap[i].seq = seq}
             hasNext == {i \in 1..m : g_keymap'[i].seq = seq}
  <2>4. has # {} /\ has \subseteq Nat
    BY <2>1, FindNone DEF TableOf
  <2>5. PICK i \in has : \A j \in has : i <= j
    BY <2>4, LeastOf
  <2>6. i \in hasNext /\ \A j \in hasNext : i <= j
    <3>1. \A j \in 1..n : j \in 1..m /\ g_keymap'[j] = g_keymap[j]
      BY <2>1, <2>2, <2>3 DEF Longer
    <3>2. ASSUME NEW j \in hasNext PROVE i <= j
      <4>1. CASE j \in 1..n
        BY <2>5, <3>1, <3>2, <4>1
      <4>2. CASE j \notin 1..n
        BY <2>1, <2>2, <2>3, <2>5, <3>2, <4>2
      <4> QED BY <4>1, <4>2
    <3> QED BY <2>5, <3>1, <3>2
  <2>7. m \in 0..Len(g_keymap')
    BY <2>1, <2>2
  <2>8. keymap_find(g_keymap, keymap_hash, seq) = g_keymap[i]
    <3>1. IsOldest(g_keymap, n, seq, i) /\ n \in Nat
      BY <2>1, <2>5 DEF IsOldest
    <3> QED BY <2>1, <3>1, FindMin DEF TableOf
  <2>9. keymap_find(g_keymap', keymap_hash', seq) = g_keymap'[i]
    <3>1. PICK g, h : g = g_keymap' /\ h = keymap_hash'
      OBVIOUS
    <3>2. IsOldest(g, m, seq, i)
      BY <2>6, <3>1 DEF IsOldest
    <3>3. IsTable(g, h, m)
      BY <2>2, <3>1 DEF TableOf
    <3>4. m \in Nat
      BY <2>7
    <3>5. keymap_find(g, h, seq) = g[i]
      <4> HIDE DEF hasNext, has
      <4> QED BY <3>2, <3>3, <3>4, FindMin
    <3> QED BY <3>1, <3>5
  <2>10. g_keymap'[i] = g_keymap[i]
    BY <2>1, <2>3, <2>5 DEF Longer
  <2> QED BY <2>8, <2>9, <2>10
<1> QED BY <1>1, <1>2 DEF Next, ClientStarts, ClientEnds, EditorStarts, Edit, SaveOpens,
     SaveLine, WriteFails, CloseFails, SaveEnds, Quit, Navigate, Resize, TextEdit, vars

-----------------------------------------------------------------------------
(* The editor's marks and its flag.                                        *)

LEMMA MarksNext ==
  ASSUME KeymapTypeOK, MarksTell, [Next]_vars
  PROVE  MarksTell'
<1> SUFFICES ASSUME pc' # "down", ~spoiled' PROVE MarksTell'
  BY DEF MarksTell
<1>0. ListTypes /\ ViewTypes
  BY TypeParts
<1>1. CASE UNCHANGED <<list, g_org_seq>> /\ pc # "down" /\ spoiled' = spoiled
  BY <1>1 DEF MarksTell
<1>2. CASE EditorStarts
  BY <1>0, <1>2, TypeEditorStarts DEF MarksTell
<1>3. CASE \E typed \in Typed : Edit(typed)
  <2>1. PICK typed \in Typed : Edit(typed)
    BY <1>3
  <2> DEFINE k == g_cur_itm_idx + 1
  <2>2. /\ Len(list') = Len(list) /\ Len(g_org_seq') = Len(g_org_seq)
        /\ \A i \in 1..Len(list) : i # k => list'[i] = list[i]
    BY <1>0, <2>1, TypeEdit
  <2>3. /\ Len(g_org_seq) = Len(list)
        /\ \A i \in 1..Len(list) :
             g_org_seq[i].is_modified \/ g_org_seq[i].seq = list[i].seq
    BY <2>1 DEF Edit, MarksTell
  <2>4. g_org_seq' = [g_org_seq EXCEPT ![k] = [g_org_seq[k] EXCEPT !.is_modified = TRUE]]
    BY <2>1 DEF Edit
  <2>5. /\ g_org_seq \in Seq(Origin) /\ DOMAIN g_org_seq = 1..Len(g_org_seq)
    BY <1>0, LenProperties DEF ListTypes
  <2>6. ASSUME NEW i \in 1..Len(list)
        PROVE  g_org_seq'[i].is_modified \/ g_org_seq'[i].seq = list'[i].seq
    <3>1. g_org_seq[i] \in Origin
      BY <2>3, <2>5
    <3> HIDE DEF k
    <3>2. CASE i = k
      <4>1. g_org_seq'[i] = [g_org_seq[i] EXCEPT !.is_modified = TRUE]
        BY <2>3, <2>4, <2>5, <3>2
      <4>2. g_org_seq'[i].is_modified
        BY <3>1, <4>1 DEF Origin
      <4> QED BY <4>2
    <3>3. CASE i # k
      <4>1. g_org_seq'[i] = g_org_seq[i]
        BY <2>3, <2>4, <2>5, <3>3
      <4> QED BY <2>2, <2>3, <3>3, <4>1
    <3> QED BY <3>2, <3>3
  <2> QED BY <2>2, <2>3, <2>6 DEF MarksTell
<1>4. CASE WriteFails \/ CloseFails \/ EditorEnds
  BY <1>4 DEF WriteFails, CloseFails, EditorEnds
<1> QED BY <1>1, <1>2, <1>3, <1>4 DEF Next, ClientStarts, Reload, ClientEnds, SaveOpens,
     SaveLine, SaveEnds, Quit, Navigate, Resize, TextEdit, Saving, vars, editorVars

\* How far a save has got; the editor asks before it ends only if the flag
\* is set.
SavedSoFar ==
  Saving => /\ Len(file) <= Len(list)
            /\ \A i \in 1..Len(file) : SameLine(file[i], Reversed(list)[i])
AsksIfDirty == pc \in {"ask_save", "ask_exit", "saving_to_quit"} => g_dirty_flag
SavedOK == SavedSoFar /\ AsksIfDirty /\ CleanMeansSaved

LEMMA SavedNext ==
  ASSUME KeymapTypeOK, Resting, SavedOK, [Next]_vars
  PROVE  SavedOK'
<1> USE DEF SavedOK
<1>0. FlagTypes /\ ListTypes /\ ViewTypes
  BY TypeParts
<1>1. CASE UNCHANGED <<file, list, pc, g_dirty_flag, spoiled>>
  BY <1>1 DEF SavedSoFar, AsksIfDirty, CleanMeansSaved, FileHoldsList, Saving, SameLine
<1>2. CASE EditorStarts
  <2>1. /\ pc' = "list" /\ Len(list') = Len(file) /\ file' = file /\ list' = Reversed(file)
    BY <1>0, <1>2, TypeEditorStarts DEF EditorStarts
  <2>2. \A i \in 1..Len(file) : Reversed(Reversed(file))[i] = file[i]
    BY <1>0, ReversedTwice DEF ListTypes
  <2>3. \A i \in 1..Len(file') : SameLine(file'[i], Reversed(list')[i])
    BY <2>1, <2>2 DEF SameLine
  <2> QED BY <2>1, <2>3 DEF SavedSoFar, AsksIfDirty, CleanMeansSaved, FileHoldsList, Saving
<1>3. CASE \E typed \in Typed : Edit(typed)
  BY <1>3 DEF Edit, SavedSoFar, AsksIfDirty, CleanMeansSaved, FileHoldsList, Saving
<1>4. CASE SaveOpens
  <2>1. CASE UNCHANGED file
    BY <1>4, <2>1 DEF SaveOpens, SavedSoFar, AsksIfDirty, CleanMeansSaved, FileHoldsList, Saving, SameLine
  <2>2. CASE file' = <<>> /\ pc' = IF pc = "list" THEN "saving" ELSE "saving_to_quit"
    <3>1. Len(file') = 0 /\ Len(list) \in Nat /\ list' = list
      BY <1>0, <1>4, <2>2, LenProperties DEF ListTypes, SaveOpens
    <3>2. SavedSoFar'
      BY <3>1 DEF SavedSoFar
    <3>3. AsksIfDirty' /\ CleanMeansSaved'
      BY <1>4, <2>2 DEF SaveOpens, AsksIfDirty, CleanMeansSaved, FileHoldsList
    <3> QED BY <3>2, <3>3
  <2> QED BY <1>4, <2>1, <2>2 DEF SaveOpens
<1>5. CASE SaveLine
  <2>1. Saving /\ Len(file) < Len(list) /\ UNCHANGED <<pc, list, g_dirty_flag, spoiled>>
    BY <1>5 DEF SaveLine, editorVars
  <2>2. /\ Len(file') = Len(file) + 1 /\ file'[Len(file) + 1] = Line(Len(file) + 1)
        /\ \A i \in 1..Len(file) : file'[i] = file[i]
    BY <1>0, <1>5, TypeFile
  <2>3. SameLine(Line(Len(file) + 1), Reversed(list)[Len(file) + 1])
    BY <1>0, <2>1, NextLine
  <2>4. Len(file) \in Nat /\ Len(list) \in Nat
    BY <1>0, LenProperties DEF ListTypes
  <2>5. \A i \in 1..Len(file') : SameLine(file'[i], Reversed(list)[i])
    <3> SUFFICES ASSUME NEW i \in 1..Len(file') PROVE SameLine(file'[i], Reversed(list)[i])
      OBVIOUS
    <3>1. CASE i = Len(file) + 1
      BY <2>2, <2>3, <3>1
    <3>2. CASE i # Len(file) + 1
      <4>1. i \in 1..Len(file)
        BY <2>2, <2>4, <3>2
      <4> QED BY <2>1, <2>2, <4>1 DEF SavedSoFar
    <3> QED BY <3>1, <3>2
  <2>6. SavedSoFar'
    BY <2>1, <2>2, <2>4, <2>5 DEF SavedSoFar
  <2>7. AsksIfDirty' /\ CleanMeansSaved'
    BY <2>1 DEF AsksIfDirty, CleanMeansSaved, FileHoldsList, Saving
  <2> QED BY <2>6, <2>7
<1>6. CASE WriteFails \/ CloseFails
  BY <1>6 DEF WriteFails, CloseFails, Saving, SavedSoFar, AsksIfDirty, CleanMeansSaved, FileHoldsList
<1>7. CASE SaveEnds
  <2>1. Saving /\ Len(file) = Len(list) /\ file' = file
    BY <1>7 DEF SaveEnds
  <2>2. CASE pc' = "list" /\ list' = list
    BY <2>1, <2>2 DEF SavedSoFar, AsksIfDirty, CleanMeansSaved, FileHoldsList, Saving, SameLine
  <2>3. CASE pc' = "down"
    BY <2>3 DEF SavedSoFar, AsksIfDirty, CleanMeansSaved, FileHoldsList, Saving
  <2> QED BY <1>7, <2>2, <2>3 DEF SaveEnds, EditorEnds
<1>8. CASE Quit
  BY <1>8 DEF Quit, EditorEnds, SavedSoFar, AsksIfDirty, CleanMeansSaved, FileHoldsList, Saving
<1>9. CASE TextEdit
  BY <1>9 DEF TextEdit, editorVars, SavedSoFar, AsksIfDirty, CleanMeansSaved, FileHoldsList, Saving
<1> QED BY <1>1, <1>2, <1>3, <1>4, <1>5, <1>6, <1>7, <1>8, <1>9 DEF Next, ClientStarts,
     Reload, ClientEnds, Navigate, Resize, vars, editorVars

-----------------------------------------------------------------------------
(* The screen.                                                             *)

LEMMA EnsureShows ==
  ASSUME ViewTypes, g_map_entries \in Nat, NEW cur \in 0..(g_map_entries - 1)
  PROVE  ensure_visible(cur) <= cur /\ cur < ensure_visible(cur) + visible_count
<1>1. g_top_itm_idx \in Nat /\ visible_count \in Nat \ {0}
  BY Rows DEF ViewTypes, visible_count
<1> HIDE DEF visible_count, g_map_entries
<1> DEFINE s == IF cur < g_top_itm_idx THEN cur
                ELSE IF cur >= g_top_itm_idx + visible_count
                THEN cur - visible_count + 1 ELSE g_top_itm_idx
           last == IF g_map_entries - visible_count < 0 THEN 0
                   ELSE g_map_entries - visible_count
<1>2. s \in Nat /\ s <= cur /\ cur < s + visible_count
  BY <1>1
<1>3. last \in Nat /\ cur < last + visible_count
  BY <1>1
<1>4. ensure_visible(cur) = clamp(s, last)
  BY DEF ensure_visible
<1> HIDE DEF s, last
<1> QED BY <1>1, <1>2, <1>3, <1>4 DEF clamp

LEMMA MoveStep ==
  ASSUME KeymapTypeOK, [Next]_vars
  PROVE  MoveShowsStep
<1> SUFFICES ASSUME pc = "list", g_cur_itm_idx' # g_cur_itm_idx PROVE OnScreen'
  BY DEF MoveShowsStep
<1>0. ViewTypes /\ g_map_entries \in Nat
  BY TypeParts, LenProperties DEF ListTypes, g_map_entries
<1>1. CASE EditorEnds
  <2>1. g_cur_itm_idx' = 0 /\ g_top_itm_idx' = 0 /\ lines' \in Heights
    BY <1>1 DEF EditorEnds
  <2>2. visible_count' \in Nat \ {0}
    BY <2>1, Rows DEF visible_count
  <2>3. g_cur_itm_idx' < g_top_itm_idx' + visible_count'
    <3>1. PICK v \in Nat \ {0} : v = visible_count'
      BY <2>2
    <3>2. 0 < 0 + v
      OBVIOUS
    <3> QED BY <2>1, <3>1, <3>2
  <2>4. g_top_itm_idx' <= g_cur_itm_idx'
    BY <2>1
  <2> QED BY <2>3, <2>4 DEF OnScreen
<1>2. CASE Navigate
  <2>1. /\ g_cur_itm_idx' \in Targets /\ g_top_itm_idx' = ensure_visible(g_cur_itm_idx')
        /\ visible_count' = visible_count
    BY <1>2 DEF Navigate, visible_count
  <2>2. PICK cur \in Targets : cur = g_cur_itm_idx'
    BY <2>1
  <2>3. cur \in 0..(g_map_entries - 1)
    BY <1>0, TargetsIn
  <2>4. ensure_visible(cur) <= cur /\ cur < ensure_visible(cur) + visible_count
    BY <1>0, <2>3, EnsureShows
  <2> QED BY <2>1, <2>2, <2>4 DEF OnScreen
<1>3. CASE UNCHANGED g_cur_itm_idx
  BY <1>3
<1>4. ASSUME EditorStarts \/ Resize \/ \E typed \in Typed : Edit(typed)
      PROVE  UNCHANGED g_cur_itm_idx
  BY <1>4 DEF EditorStarts, Resize, Edit, viewVars
<1>5. ASSUME SaveOpens \/ SaveLine \/ WriteFails \/ CloseFails \/ TextEdit
      PROVE  UNCHANGED g_cur_itm_idx
  BY <1>5 DEF SaveOpens, SaveLine, WriteFails, CloseFails, TextEdit, editorVars, viewVars
<1>6. ASSUME SaveEnds \/ Quit, ~EditorEnds
      PROVE  UNCHANGED g_cur_itm_idx
  BY <1>6 DEF SaveEnds, Quit, viewVars
<1>7. ASSUME ClientStarts \/ Reload \/ ClientEnds \/ UNCHANGED vars
      PROVE  UNCHANGED g_cur_itm_idx
  BY <1>7 DEF ClientStarts, Reload, ClientEnds, vars, editorVars, viewVars
<1> QED BY <1>1, <1>2, <1>3, <1>4, <1>5, <1>6, <1>7 DEF Next

-----------------------------------------------------------------------------

IInv == KeymapTypeOK /\ Resting /\ TableOK /\ MarksTell /\ SavedOK

LEMMA Inductive == Spec => []IInv
<1>1. Init => IInv
  <2>1. Init => MarksTell /\ SavedOK
    BY DEF Init, MarksTell, SavedOK, SavedSoFar, AsksIfDirty, CleanMeansSaved, FileHoldsList, Saving
  <2> QED BY <2>1, TypeInit, TableInit DEF IInv
<1>2. IInv /\ [Next]_vars => IInv'
  BY TypeNext, TableNext, MarksNext, SavedNext DEF IInv
<1> QED BY <1>1, <1>2, PTL DEF Spec

(***************************************************************************)
(* Types: the selection never leaves the list, every line on disk is an    *)
(* entry, the table names positions of the list only.                      *)
(***************************************************************************)
THEOREM KeymapTypeCorrect == Spec => []KeymapTypeOK
<1>1. IInv => KeymapTypeOK
  BY DEF IInv
<1> QED BY <1>1, Inductive, PTL

(***************************************************************************)
(* A lookup in the client finds the oldest entry of its list, or of the    *)
(* part of the list the table was built from: keymap_load, keymap_free and *)
(* a load without memory, for every file.                                  *)
(***************************************************************************)
THEOREM FindsOldestAlways == Spec => []FindsOldest
<1>1. IInv => FindsOldest
  BY TypeParts, TableSays DEF IInv
<1> QED BY <1>1, Inductive, PTL

(***************************************************************************)
(* A sequence that means a key keeps this meaning through every reload.    *)
(***************************************************************************)
THEOREM ReloadOnlyAddsAlways == Spec => ReloadOnlyAdds
<1>1. IInv /\ IInv' /\ [Next]_vars => [ReloadOnlyAddsStep]_vars
  BY ReloadStep DEF IInv
<1> QED BY <1>1, Inductive, PTL DEF Spec, ReloadOnlyAdds

(***************************************************************************)
(* The editor's mark: an entry without it is as it was loaded, until a     *)
(* write fails.                                                            *)
(***************************************************************************)
THEOREM MarksTellAlways == Spec => []MarksTell
<1>1. IInv => MarksTell
  BY DEF IInv
<1> QED BY <1>1, Inductive, PTL

(***************************************************************************)
(* The editor's flag: while it is clear, and no write has failed, the file *)
(* holds the list.                                                         *)
(***************************************************************************)
THEOREM CleanMeansSavedAlways == Spec => []CleanMeansSaved
<1>1. IInv => CleanMeansSaved
  BY DEF IInv, SavedOK
<1> QED BY <1>1, Inductive, PTL

(***************************************************************************)
(* The editor's screen: a move shows what it selects, for every number of  *)
(* entries and every terminal.                                             *)
(***************************************************************************)
THEOREM MoveShowsAlways == Spec => MoveShows
<1>1. IInv /\ [Next]_vars => [MoveShowsStep]_vars
  BY MoveStep DEF IInv
<1> QED BY <1>1, Inductive, PTL DEF Spec, MoveShows

=============================================================================
