------------------------------- MODULE Keymap -------------------------------
(***************************************************************************)
(* The keymap (client/keymaplib.c) and the two programs that share its     *)
(* file: the client, which loads it, looks sequences up in a hash table    *)
(* and can reload it while it runs, and the editor                         *)
(* (tools/keymap_config.c), which lets the user press a new sequence for   *)
(* an entry and writes the file again.                                     *)
(*                                                                         *)
(* A file is the sequence of its valid lines; comments and lines that do   *)
(* not parse are skipped by the one program and dropped by the other.  An  *)
(* entry is what a line says: the sequence of bytes a terminal sends, and  *)
(* the key (description and keystroke) it stands for.                      *)
(***************************************************************************)
EXTENDS Integers, Sequences

CONSTANTS
  Keys,              \* descriptions with their keystrokes
  Seqs,              \* byte sequences a terminal can send
  KEYMAP_HASH_SIZE,  \* buckets of the client's table: 256
  SAVE_LEN,          \* bytes of a sequence that keymap_save's buffer holds: 127
  Typed,             \* what may be pressed while the editor captures, key by key
  Files,             \* what a user may write with a text editor
  Heights,           \* terminal heights the editor may meet
  MaxEntries,        \* bound: the client reloads while its list is this short
  NotFound           \* NULL

Entry == [key : Keys, seq : Seqs]
Bucket == 0..(KEYMAP_HASH_SIZE - 1)

\* The hash of keymaplib.c in arithmetic modulo the table's size, which
\* divides 2^32.
hash_sequence(seq) ==
  LET hash[i \in 0..Len(seq)] ==
        IF i = 0 THEN 5381 % KEYMAP_HASH_SIZE
                 ELSE (33 * hash[i - 1] + seq[i]) % KEYMAP_HASH_SIZE
  IN  hash[Len(seq)]

\* A sequence as the file gets it.
Cut(seq) == IF Len(seq) <= SAVE_LEN THEN seq ELSE SubSeq(seq, 1, SAVE_LEN)

\* What capture_sequence makes of the keys it gets before they pause; <<>> is
\* "cancelled".  curses has already recognised some of them as function keys,
\* whose codes are above 255: these are dropped, but the one after an Esc is
\* cut to a byte.
IsByte(code) == code <= 255
capture_sequence(typed) ==
  LET rest(i) == SelectSeq(SubSeq(typed, i, Len(typed)), IsByte)
  IN  IF typed = <<27>> \/ ~IsByte(typed[1]) THEN <<>>
      ELSE IF typed[1] = 27 THEN <<27, typed[2] % 256>> \o rest(3)
      ELSE rest(1)

ASSUME KeymapAssumption ==
  /\ KEYMAP_HASH_SIZE \in Nat \ {0} /\ SAVE_LEN \in Nat \ {0}
  /\ Heights \subseteq Nat /\ MaxEntries \in Nat
  /\ Seqs \subseteq Seq(0..255)
  /\ \A s \in Seqs : Cut(s) \in Seqs
  /\ Typed \subseteq Seq(Nat) \ {<<>>}
  /\ \A typed \in Typed : capture_sequence(typed) \in Seqs \cup {<<>>}
  /\ Files \subseteq Seq(Entry)
  /\ NotFound \notin Entry

VARIABLES
  file,             \* the lines on disk

  \* the client
  up,               \* it runs
  g_keymap,         \* its list, from the end (the oldest entry) to the head
  keymap_hash,      \* bucket -> positions in g_keymap

  \* the editor
  pc,               \* where its main() is
  list,             \* its own g_keymap, from the head
  g_org_seq,        \* per entry: the sequence at the start, is it modified
  g_cur_itm_idx,    \* the selected entry, and
  g_top_itm_idx,    \* the first one on the screen, counted from 0
  g_dirty_flag,
  lines,            \* LINES
  spoiled           \* not in the code: a write has failed since the load

clientVars == <<up, g_keymap, keymap_hash>>
viewVars == <<g_cur_itm_idx, g_top_itm_idx, lines>>
editorVars == <<pc, list, g_org_seq, viewVars, g_dirty_flag, spoiled>>
vars == <<file, clientVars, editorVars>>

NoHash == [b \in Bucket |-> {}]

Init ==
  /\ file \in Files
  /\ up = FALSE /\ g_keymap = <<>> /\ keymap_hash = NoHash
  /\ pc = "down" /\ list = <<>> /\ g_org_seq = <<>>
  /\ g_cur_itm_idx = 0 /\ g_top_itm_idx = 0 /\ lines \in Heights
  /\ g_dirty_flag = FALSE /\ spoiled = FALSE

-----------------------------------------------------------------------------
(* The library.                                                            *)

\* The table keymap_build_hash makes.  A bucket's chain has its oldest entry
\* in front: the list is walked from its head, the newest entry, and each
\* entry is put in front of those before it.
keymap_build_hash(m) ==
  [b \in Bucket |-> {i \in 1..Len(m) : hash_sequence(m[i].seq) = b}]

\* keymap_find if a chain had the newest entry in front ...
MutFind(m, h, seq) ==
  LET chain == {i \in h[hash_sequence(seq)] : m[i].seq = seq}
  IN  IF chain = {} THEN NotFound
      ELSE m[CHOOSE i \in chain : \A j \in chain : j <= i]

\* The first of a chain that has the sequence.
keymap_find(m, h, seq) ==
  LET chain == {i \in h[hash_sequence(seq)] : m[i].seq = seq}
  IN  IF chain = {} THEN NotFound
      ELSE m[CHOOSE i \in chain : \A j \in chain : i <= j]

Reversed(s) == [i \in 1..Len(s) |-> s[Len(s) + 1 - i]]

-----------------------------------------------------------------------------
(* The client.                                                             *)

\* KeymapLoads if it took the new entries in without building the table.
MutLoads ==
  /\ g_keymap' = g_keymap \o file
  /\ UNCHANGED keymap_hash

\* keymap_load: the lines go on top of what is already loaded, the table is
\* built anew.
KeymapLoads ==
  /\ g_keymap' = g_keymap \o file
  /\ keymap_hash' = keymap_build_hash(g_keymap')

\* No memory for an entry: those before it stay in the list, the table is
\* not touched.
KeymapLoadFails ==
  \E n \in 0..(Len(file) - 1) :
    /\ g_keymap' = g_keymap \o SubSeq(file, 1, n)
    /\ UNCHANGED keymap_hash

\* A client that cannot load its keymap does not start: no step.
ClientStarts ==
  /\ ~up
  /\ up' = TRUE
  /\ KeymapLoads
  /\ UNCHANGED <<file, editorVars>>

\* The reload key, while the client runs.
Reload ==
  /\ up
  /\ Len(g_keymap) < MaxEntries
  /\ KeymapLoads \/ KeymapLoadFails
  /\ UNCHANGED <<file, up, editorVars>>

\* keymap_free, and the end of the program.
ClientEnds ==
  /\ up
  /\ up' = FALSE /\ g_keymap' = <<>> /\ keymap_hash' = NoHash
  /\ UNCHANGED <<file, editorVars>>

-----------------------------------------------------------------------------
(* The editor: its list and the file.                                      *)

\* main(): load, remember the sequences, draw.
EditorStarts ==
  /\ pc = "down"
  /\ file # <<>>
  /\ pc' = "list"
  /\ list' = Reversed(file)
  /\ g_org_seq' = [i \in 1..Len(file) |->
                     [seq |-> list'[i].seq, is_modified |-> FALSE]]
  /\ UNCHANGED <<file, clientVars, viewVars, g_dirty_flag, spoiled>>

\* cleanup_and_exit: everything is freed; the next start finds its initial
\* values.
EditorEnds ==
  /\ pc' = "down" /\ list' = <<>> /\ g_org_seq' = <<>>
  /\ g_cur_itm_idx' = 0 /\ g_top_itm_idx' = 0 /\ lines' \in Heights
  /\ g_dirty_flag' = FALSE /\ spoiled' = FALSE

\* Edit if it did not mark the entry.
MutEdit(typed) ==
  /\ pc = "list"
  /\ g_cur_itm_idx < Len(list)
  /\ capture_sequence(typed) # <<>>
  /\ list' = [list EXCEPT ![g_cur_itm_idx + 1].seq = capture_sequence(typed)]
  /\ g_dirty_flag' = TRUE
  /\ UNCHANGED <<file, clientVars, pc, viewVars, spoiled, g_org_seq>>

\* Enter and a captured sequence; a capture that is cancelled changes nothing.
Edit(typed) ==
  /\ pc = "list"
  /\ g_cur_itm_idx < Len(list)             \* get_entry_at_index found it
  /\ capture_sequence(typed) # <<>>
  /\ list' = [list EXCEPT ![g_cur_itm_idx + 1].seq = capture_sequence(typed)]
  /\ g_dirty_flag' = TRUE
  /\ g_org_seq' = [g_org_seq EXCEPT ![g_cur_itm_idx + 1].is_modified = TRUE]
  /\ UNCHANGED <<file, clientVars, pc, viewVars, spoiled>>

\* S, or Q and then Y: keymap_save opens the file, which empties it.  If it
\* cannot be opened nothing is lost.
SaveOpens ==
  /\ pc \in {"list", "ask_save"}
  /\ \/ /\ file' = <<>>
        /\ pc' = IF pc = "list" THEN "saving" ELSE "saving_to_quit"
     \/ /\ UNCHANGED file
        /\ pc' = IF pc = "list" THEN "list" ELSE "ask_exit"
  /\ UNCHANGED <<clientVars, list, g_org_seq, viewVars, g_dirty_flag, spoiled>>

Saving == pc \in {"saving", "saving_to_quit"}
Line(i) == [Reversed(list)[i] EXCEPT !.seq = Cut(@)]

\* SaveLine if it forgot to reverse the list.
MutSaveLine ==
  /\ Saving /\ Len(file) < Len(list)
  /\ file' = Append(file, [list[Len(file) + 1] EXCEPT !.seq = Cut(@)])
  /\ UNCHANGED <<clientVars, editorVars>>

SaveLine ==
  /\ Saving /\ Len(file) < Len(list)
  /\ file' = Append(file, Line(Len(file) + 1))
  /\ UNCHANGED <<clientVars, editorVars>>

\* What was buffered did not get to the disk.
FileCut == \E n \in 0..Len(file) : file' = SubSeq(file, 1, n)

\* A write fails: keymap_save returns at once, and g_keymap still points to
\* the former head, which is now the end of the reversed list.
WriteFails ==
  /\ Saving /\ Len(file) < Len(list)
  /\ FileCut
  /\ list' = <<Head(list)>>
  /\ spoiled' = TRUE
  /\ pc' = IF pc = "saving" THEN "list" ELSE "ask_exit"
  /\ UNCHANGED <<clientVars, g_org_seq, viewVars, g_dirty_flag>>

\* fclose fails, when the list is whole again.
CloseFails ==
  /\ Saving /\ Len(file) = Len(list)
  /\ FileCut
  /\ spoiled' = TRUE
  /\ pc' = IF pc = "saving" THEN "list" ELSE "ask_exit"
  /\ UNCHANGED <<clientVars, list, g_org_seq, viewVars, g_dirty_flag>>

\* Saved.
SaveEnds ==
  /\ Saving /\ Len(file) = Len(list)
  /\ \/ /\ pc = "saving" /\ pc' = "list" /\ g_dirty_flag' = FALSE
        /\ UNCHANGED <<list, g_org_seq, viewVars, spoiled>>
     \/ pc = "saving_to_quit" /\ EditorEnds
  /\ UNCHANGED <<file, clientVars>>

\* Q, and the answers to its questions other than Y for "save".
Quit ==
  /\ \/ /\ \/ pc = "list" /\ ~g_dirty_flag
           \/ pc \in {"ask_save", "ask_exit"}
        /\ EditorEnds
     \/ /\ \/ pc = "list" /\ g_dirty_flag /\ pc' = "ask_save"
           \/ pc \in {"ask_save", "ask_exit"} /\ pc' = "list"
        /\ UNCHANGED <<list, g_org_seq, viewVars, g_dirty_flag, spoiled>>
  /\ UNCHANGED <<file, clientVars>>

-----------------------------------------------------------------------------
(* The editor: moving in the list.                                         *)

g_map_entries == Len(g_org_seq)          \* counted once, after the load
visible_count == IF lines > 5 THEN lines - 5 ELSE 1

\* clamp without the upper bound.
MutClamp(idx, max) == IF idx < 0 THEN 0 ELSE idx

clamp(idx, max) == IF idx < 0 THEN 0 ELSE IF idx > max THEN max ELSE idx

\* ensure_visible with the comparison off by one.
MutEnsure(cur) ==
  LET scrolled == IF cur < g_top_itm_idx THEN cur
                  ELSE IF cur > g_top_itm_idx + visible_count
                  THEN cur - visible_count + 1
                  ELSE g_top_itm_idx
      last == g_map_entries - visible_count
  IN  clamp(scrolled, IF last < 0 THEN 0 ELSE last)

\* The first entry on the screen so that cur is on it.
ensure_visible(cur) ==
  LET scrolled == IF cur < g_top_itm_idx THEN cur
                  ELSE IF cur >= g_top_itm_idx + visible_count
                  THEN cur - visible_count + 1
                  ELSE g_top_itm_idx
      last == g_map_entries - visible_count
  IN  clamp(scrolled, IF last < 0 THEN 0 ELSE last)

\* Up, Down, Home, End, PageUp, PageDown.
Targets ==
  (IF g_cur_itm_idx > 0 THEN {g_cur_itm_idx - 1} ELSE {})
  \cup (IF g_cur_itm_idx < g_map_entries - 1 THEN {g_cur_itm_idx + 1} ELSE {})
  \cup {0, g_map_entries - 1}
  \cup {clamp(g_cur_itm_idx - visible_count, g_map_entries - 1),
        clamp(g_cur_itm_idx + visible_count, g_map_entries - 1)}

Navigate ==
  /\ pc = "list"
  /\ g_cur_itm_idx' \in Targets
  /\ g_top_itm_idx' = ensure_visible(g_cur_itm_idx')
  /\ UNCHANGED <<file, clientVars, pc, list, g_org_seq, g_dirty_flag, lines,
                 spoiled>>

\* KEY_RESIZE is a key the editor does not know.
Resize ==
  /\ pc = "list"
  /\ lines' \in Heights
  /\ UNCHANGED <<file, clientVars, pc, list, g_org_seq, g_cur_itm_idx,
                 g_top_itm_idx, g_dirty_flag, spoiled>>

-----------------------------------------------------------------------------

\* The user writes the file with a text editor, not while ours has it.
TextEdit ==
  /\ pc = "down"
  /\ file' \in Files
  /\ UNCHANGED <<clientVars, editorVars>>

Next ==
  \/ ClientStarts \/ Reload \/ ClientEnds
  \/ EditorStarts \/ \E typed \in Typed : Edit(typed)
  \/ SaveOpens \/ SaveLine \/ WriteFails \/ CloseFails \/ SaveEnds
  \/ Quit \/ Navigate \/ Resize \/ TextEdit

Spec == Init /\ [][Next]_vars

-----------------------------------------------------------------------------
(* Properties.                                                             *)

KeymapTypeOK ==
  /\ file \in Seq(Entry)
  /\ up \in BOOLEAN
  /\ g_keymap \in Seq(Entry)
  /\ keymap_hash \in [Bucket -> SUBSET (1..Len(g_keymap))]
  /\ pc \in {"down", "list", "saving", "saving_to_quit", "ask_save", "ask_exit"}
  /\ list \in Seq(Entry)
  /\ g_org_seq \in Seq([seq : Seqs, is_modified : BOOLEAN])
  /\ g_cur_itm_idx \in Nat /\ g_top_itm_idx \in Nat
  /\ pc # "down" => g_cur_itm_idx < g_map_entries
  /\ g_dirty_flag \in BOOLEAN /\ lines \in Heights /\ spoiled \in BOOLEAN

(***************************************************************************)
(* The table against the list it was built from: for some oldest part of   *)
(* the list, all of it unless memory ran out, a sequence is found exactly  *)
(* if that part has it, and what is found is its oldest entry; so of two   *)
(* lines with one sequence the first in the file counts (keymap_load puts  *)
(* entries at the head, the table turns the order round again).            *)
(***************************************************************************)
OldestIn(n, seq) ==
  IF \E i \in 1..n : g_keymap[i].seq = seq
  THEN g_keymap[CHOOSE i \in 1..n :
                  g_keymap[i].seq = seq /\ \A j \in 1..(i - 1) : g_keymap[j].seq # seq]
  ELSE NotFound
FindsOldest ==
  \E n \in 0..Len(g_keymap) :
    \A seq \in Seqs : keymap_find(g_keymap, keymap_hash, seq) = OldestIn(n, seq)

(***************************************************************************)
(* What a reload can do to a running client, whatever the editor, a text   *)
(* editor or a half-written file offer it: a sequence that means a key     *)
(* means this key as long as the client runs.  (A changed line therefore   *)
(* has no effect until the client is started anew.)                        *)
(***************************************************************************)
ReloadOnlyAddsStep ==
  up /\ up' => \A seq \in Seqs :
    \/ keymap_find(g_keymap, keymap_hash, seq) = NotFound
    \/ keymap_find(g_keymap', keymap_hash', seq)
         = keymap_find(g_keymap, keymap_hash, seq)
ReloadOnlyAdds == [][ReloadOnlyAddsStep]_vars

(***************************************************************************)
(* g_org_seq is "parallel to g_keymap list order" (keymap_config.c:41),    *)
(* and an entry without a mark is as it was loaded, as long as no write    *)
(* has failed.                                                             *)
(***************************************************************************)
MarksTell ==
  pc # "down" /\ ~spoiled =>
    /\ Len(g_org_seq) = Len(list)
    /\ \A i \in 1..Len(list) :
         g_org_seq[i].is_modified \/ g_org_seq[i].seq = list[i].seq

(***************************************************************************)
(* As long as no write has failed since the editor was started, a clear    *)
(* flag means that the file holds every entry of the list, in its order,   *)
(* up to the sequences keymap_save cuts short.  A failed write is left out *)
(* here (~spoiled) because it breaks this: ExitLosesNothing.               *)
(***************************************************************************)
SameLine(a, b) == a.key = b.key /\ Cut(a.seq) = Cut(b.seq)
FileHoldsList ==
  /\ Len(file) = Len(list)
  /\ \A i \in 1..Len(file) : SameLine(file[i], Reversed(list)[i])
CleanMeansSaved == pc = "list" /\ ~g_dirty_flag /\ ~spoiled => FileHoldsList

(***************************************************************************)
(* Where main() leaves without a question: "No changes, exit directly".    *)
(* There the file should hold the list, with as many entries as were       *)
(* loaded.  It does not after a failed save: the file is cut and, if the   *)
(* list had not been edited, the flag is still clear; and the list is down *)
(* to one entry, which the next save makes the whole file, clearing the    *)
(* flag.                                                                   *)
(***************************************************************************)
ExitLosesNothing ==
  pc = "list" /\ ~g_dirty_flag => Len(file) = g_map_entries /\ FileHoldsList

(***************************************************************************)
(* Wherever a move takes the selection, it is on the screen, though the    *)
(* terminal may have been resized since the last one.                      *)
(***************************************************************************)
OnScreen == g_top_itm_idx <= g_cur_itm_idx
            /\ g_cur_itm_idx < g_top_itm_idx + visible_count
MoveShowsStep == pc = "list" /\ g_cur_itm_idx' # g_cur_itm_idx => OnScreen'
MoveShows == [][MoveShowsStep]_vars

=============================================================================
