--------------------------- MODULE ResidentProofs ---------------------------
(***************************************************************************)
(* Proofs about Resident, for any number of copies and other programs.     *)
(* The invariant RInv says for each step of installing and uninstalling    *)
(* which chains a copy is on; the lemmas on sequences say what hooking and *)
(* restoring a vector do to a chain.                                       *)
(***************************************************************************)
EXTENDS Resident, SequenceTheorems, Recursion, TLAPS

-----------------------------------------------------------------------------
(* Chains.                                                                 *)

Among(p, s) == \E k \in DOMAIN s : s[k] = p

LEMMA OtherNotCopy ==
  ASSUME NEW o \in Others PROVE o \in Program /\ o \notin Instances
BY ProgramAssumption DEF Program

LEMMA Shift ==
  ASSUME NEW n \in Nat, NEW k \in 2..(n + 1), NEW j \in 1..(n + 1 - k)
  PROVE  j + (k - 1) \in 1..n /\ j + k = (j + (k - 1)) + 1
OBVIOUS

\* x keeps s, and what the others keep does not change.
Saves(x, s, orig, new) ==
  /\ x \in Instances => new[x] = s
  /\ \A i \in Instances : i # x => new[i] = orig[i]

\* Hooking puts a program in front of a chain; if it saves what was there,
\* the chain stays in order.
LEMMA PushChain ==
  ASSUME NEW s \in Seq(Program), NEW x \in Program, NEW orig, NEW new,
         Distinct(s), Linked(s, orig), ~Among(x, s),
         Saves(x, s, orig, new), NEW t, t = <<x>> \o s
  PROVE  /\ t \in Seq(Program) /\ t # <<>> /\ Head(t) = x
         /\ Distinct(t) /\ Linked(t, new)
         /\ \A p : Among(p, t) <=> p = x \/ Among(p, s)
<1>1. /\ t \in Seq(Program) /\ t # <<>> /\ Head(t) = x
      /\ Len(s) \in Nat /\ Len(t) = Len(s) + 1
      /\ DOMAIN t = 1..(Len(s) + 1) /\ DOMAIN s = 1..Len(s)
      /\ t[1] = x /\ \A k \in 1..Len(s) : t[k + 1] = s[k]
  OBVIOUS
<1>a. s \in [1..Len(s) -> Program]
  BY LenProperties
<1>b. Rest(t, 1) = s
  BY <1>1, <1>a DEF Rest
<1>2. \A k \in DOMAIN t :
        k = 1 \/ (k - 1 \in DOMAIN s /\ t[k] = s[k - 1] /\ Rest(t, k) = Rest(s, k - 1))
  <2> SUFFICES ASSUME NEW k \in DOMAIN t, k # 1
               PROVE  k - 1 \in DOMAIN s /\ t[k] = s[k - 1] /\ Rest(t, k) = Rest(s, k - 1)
    OBVIOUS
  <2>1. /\ k \in 2..(Len(s) + 1) /\ k - 1 \in 1..Len(s) /\ k = (k - 1) + 1
        /\ Len(t) - k = Len(s) + 1 - k
        /\ Len(t) - k = Len(s) - (k - 1) /\ Len(s) \in Nat
    BY <1>1
  <2>2. \A j \in 1..(Len(t) - k) :
          j + (k - 1) \in 1..Len(s) /\ j + k = (j + (k - 1)) + 1
    BY <2>1, Shift
  <2>3. \A j \in 1..(Len(t) - k) : t[j + k] = s[j + (k - 1)]
    BY <1>1, <2>2
  <2>4. Rest(t, k) = Rest(s, k - 1)
    BY <2>1, <2>3 DEF Rest
  <2> QED BY <1>1, <2>1, <2>4
<1>3. Distinct(t)
  BY <1>1, <1>2 DEF Distinct, Among
<1>4. Linked(t, new)
  BY <1>1, <1>b, <1>2 DEF Linked, Among, Saves
<1>5. ASSUME NEW p PROVE Among(p, t) <=> p = x \/ Among(p, s)
  <2>1. ASSUME Among(p, s) PROVE Among(p, t)
    <3>1. PICK k \in DOMAIN s : s[k] = p
      BY <2>1 DEF Among
    <3>2. k + 1 \in DOMAIN t /\ t[k + 1] = p
      BY <1>1, <3>1
    <3> QED BY <3>2 DEF Among
  <2>2. 1 \in DOMAIN t
    BY <1>1
  <2> QED BY <1>1, <1>2, <2>1, <2>2 DEF Among
<1> QED BY <1>1, <1>3, <1>4, <1>5

\* Taking the first program off a chain restores what it saved, and keeps
\* the chain in order.
LEMMA PopChain ==
  ASSUME NEW s \in Seq(Program), NEW orig, s # <<>>, Distinct(s), Linked(s, orig),
         NEW t, t = Tail(s)
  PROVE  /\ t \in Seq(Program) /\ Head(s) \in Program
         /\ Head(s) \in Instances => orig[Head(s)] = t
         /\ Distinct(t) /\ Linked(t, orig)
         /\ \A p : Among(p, t) <=> p # Head(s) /\ Among(p, s)
<1>1. /\ t \in Seq(Program) /\ Len(t) = Len(s) - 1 /\ Len(s) \in Nat /\ Len(s) > 0
      /\ DOMAIN t = 1..(Len(s) - 1) /\ DOMAIN s = 1..Len(s)
      /\ Head(s) = s[1] /\ 1 \in DOMAIN s /\ Head(s) \in Program
      /\ \A k \in 1..(Len(s) - 1) : t[k] = s[k + 1]
  OBVIOUS
<1>a. t \in [1..(Len(s) - 1) -> Program]
  BY <1>1, LenProperties
<1>b. Rest(s, 1) = t
  BY <1>1, <1>a DEF Rest
<1>2. \A k \in DOMAIN t : k + 1 \in DOMAIN s /\ t[k] = s[k + 1] /\ Rest(t, k) = Rest(s, k + 1)
  <2> SUFFICES ASSUME NEW k \in DOMAIN t
               PROVE  k + 1 \in DOMAIN s /\ t[k] = s[k + 1] /\ Rest(t, k) = Rest(s, k + 1)
    OBVIOUS
  <2>1. k \in 1..(Len(s) - 1) /\ k + 1 \in 1..Len(s) /\ Len(t) - k = Len(s) - (k + 1)
    BY <1>1
  <2>2. \A j \in 1..(Len(t) - k) :
          j + k \in 1..(Len(s) - 1) /\ j + (k + 1) = (j + k) + 1
    BY <1>1, <2>1
  <2>3. \A j \in 1..(Len(t) - k) : t[j + k] = s[j + (k + 1)]
    BY <1>1, <2>2
  <2>4. Rest(t, k) = Rest(s, k + 1)
    BY <2>1, <2>3 DEF Rest
  <2> QED BY <1>1, <2>1, <2>4
<1>3. Distinct(t)
  <2> SUFFICES ASSUME NEW j \in DOMAIN t, NEW k \in DOMAIN t, t[j] = t[k] PROVE j = k
    BY DEF Distinct
  <2>1. j + 1 = k + 1
    BY <1>2 DEF Distinct
  <2> QED BY <2>1, <1>1
<1>4. Linked(t, orig)
  BY <1>2 DEF Linked
<1>5. ASSUME NEW p PROVE Among(p, t) <=> p # Head(s) /\ Among(p, s)
  <2>1. ASSUME Among(p, t) PROVE p # Head(s) /\ Among(p, s)
    <3>1. PICK k \in DOMAIN t : t[k] = p
      BY <2>1 DEF Among
    <3>2. k + 1 \in DOMAIN s /\ s[k + 1] = p /\ k + 1 # 1
      BY <1>1, <1>2, <3>1
    <3> QED BY <1>1, <3>2 DEF Among, Distinct
  <2>2. ASSUME p # Head(s), Among(p, s) PROVE Among(p, t)
    <3>1. PICK k \in DOMAIN s : s[k] = p
      BY <2>2 DEF Among
    <3>2. k - 1 \in DOMAIN t /\ t[k - 1] = p
      BY <1>1, <2>2, <3>1
    <3> QED BY <3>2 DEF Among
  <2> QED BY <2>1, <2>2
<1>6. Head(s) \in Instances => orig[Head(s)] = t
  BY <1>1, <1>b DEF Linked
<1> QED BY <1>1, <1>3, <1>4, <1>5, <1>6

\* What the lemmas on steps need to know of the types.
ChainTypes == /\ vector \in [Vec -> Seq(Program)]
              /\ original \in [Instances -> [Vec -> Seq(Program)]]

\* One vector changes, and what is saved of the others does not.
LEMMA OneVector ==
  ASSUME ChainTypes, ChainsIntact, NEW v \in Vec, NEW t \in Seq(Program),
         vector' = [vector EXCEPT ![v] = t],
         Distinct(t), Linked(t, Saved(v)'),
         \A w \in Vec \ {v} : Saved(w)' = Saved(w)
  PROVE  /\ vector' \in [Vec -> Seq(Program)] /\ ChainsIntact'
         /\ vector'[v] = t
         /\ \A w \in Vec : w # v => vector'[w] = vector[w]
<1>1. /\ vector' \in [Vec -> Seq(Program)] /\ vector'[v] = t
      /\ \A w \in Vec : w # v => vector'[w] = vector[w]
  BY DEF ChainTypes
<1>2. ASSUME NEW w \in Vec PROVE Distinct(vector'[w]) /\ Linked(vector'[w], Saved(w)')
  <2>1. CASE w = v BY <1>1, <2>1
  <2>2. CASE w # v BY <1>1, <2>2 DEF ChainsIntact
  <2> QED BY <2>1, <2>2
<1> QED BY <1>1, <1>2 DEF ChainsIntact

\* A copy hooks interrupt v.
LEMMA HookStep ==
  ASSUME ChainTypes, ChainsIntact, NEW v \in Vec, NEW i \in Instances, ~On(i, v), Hook(i, v)
  PROVE  /\ ChainTypes' /\ ChainsIntact' /\ HeadIs(v, i)'
         /\ \A p : On(p, v)' <=> p = i \/ On(p, v)
         /\ \A w \in Vec : w # v => vector'[w] = vector[w]
<1> DEFINE s == vector[v]
           t == <<i>> \o s
<1>1. /\ s \in Seq(Program) /\ Distinct(s) /\ Linked(s, Saved(v)) /\ ~Among(i, s)
  BY DEF ChainTypes, ChainsIntact, On, Among
<1>2. /\ original' \in [Instances -> [Vec -> Seq(Program)]]
      /\ original'[i][v] = s
      /\ \A j \in Instances : j # i => original'[j] = original[j]
      /\ \A w \in Vec : w # v => original'[i][w] = original[i][w]
  BY <1>1 DEF ChainTypes, Hook
<1>3. /\ i \in Instances => Saved(v)'[i] = s
      /\ \A j \in Instances : i # j => Saved(v)'[j] = Saved(v)[j]
  BY <1>2 DEF Saved
<1>4. ASSUME NEW w \in Vec \ {v} PROVE Saved(w)' = Saved(w)
  <2>1. \A j \in Instances : original'[j][w] = original[j][w]
    BY <1>2, <1>4
  <2> QED BY <2>1 DEF Saved
<1>5. /\ t \in Seq(Program) /\ t # <<>> /\ Head(t) = i
      /\ Distinct(t) /\ Linked(t, Saved(v)')
      /\ \A p : Among(p, t) <=> p = i \/ Among(p, s)
  <2> DEFINE old == Saved(v)
             new == Saved(v)'
  <2>1. i \in Program
    BY DEF Program
  <2>2. /\ s \in Seq(Program) /\ Distinct(s) /\ Linked(s, old) /\ ~Among(i, s)
        /\ Saves(i, s, old, new) /\ t = <<i>> \o s
    BY <1>1, <1>3 DEF Saves
  <2> HIDE DEF s, t, old, new
  <2>3. /\ t \in Seq(Program) /\ t # <<>> /\ Head(t) = i
        /\ Distinct(t) /\ Linked(t, new)
        /\ \A p : Among(p, t) <=> p = i \/ Among(p, s)
    BY <2>1, <2>2, PushChain
  <2> QED BY <2>3 DEF new
<1>6. /\ vector' \in [Vec -> Seq(Program)] /\ ChainsIntact'
      /\ vector'[v] = t
      /\ \A w \in Vec : w # v => vector'[w] = vector[w]
  <2> HIDE DEF t
  <2>1. vector' = [vector EXCEPT ![v] = t]
    BY DEF t, Hook
  <2> QED BY <2>1, <1>4, <1>5, OneVector
<1>7. ChainTypes'
  BY <1>2, <1>6 DEF ChainTypes
<1>8. HeadIs(v, i)'
  BY <1>5, <1>6 DEF HeadIs
<1>9. \A p : On(p, v)' <=> p = i \/ On(p, v)
  BY <1>5, <1>6 DEF On, Among
<1> QED BY <1>6, <1>7, <1>8, <1>9

\* Another program hooks interrupt v.
LEMMA OtherHookStep ==
  ASSUME ChainTypes, ChainsIntact, NEW v \in Vec, NEW o \in Others, ~On(o, v), Push(o, v)
  PROVE  /\ ChainTypes' /\ ChainsIntact'
         /\ \A p : On(p, v)' <=> p = o \/ On(p, v)
         /\ \A w \in Vec : w # v => vector'[w] = vector[w]
<1> DEFINE s == vector[v]
           t == <<o>> \o s
<1>1. /\ s \in Seq(Program) /\ Distinct(s) /\ Linked(s, Saved(v)) /\ ~Among(o, s)
  BY DEF ChainTypes, ChainsIntact, On, Among
<1>2. /\ o \in Program /\ o \notin Instances
      /\ \A w \in Vec : Saved(w)' = Saved(w)
  <2>1. o \in Program /\ o \notin Instances
    BY OtherNotCopy
  <2>2. ASSUME NEW w \in Vec PROVE Saved(w)' = Saved(w)
    <3>1. \A j \in Instances : original'[j][w] = original[j][w]
      BY DEF Push
    <3> QED BY <3>1 DEF Saved
  <2> QED BY <2>1, <2>2
<1>5. /\ t \in Seq(Program) /\ Distinct(t) /\ Linked(t, Saved(v)')
      /\ \A p : Among(p, t) <=> p = o \/ Among(p, s)
  <2>1. Saves(o, s, Saved(v), Saved(v)')
    BY <1>2 DEF Saves
  <2> HIDE DEF s
  <2> QED BY <1>1, <1>2, <2>1, PushChain
<1>6. /\ vector' \in [Vec -> Seq(Program)] /\ ChainsIntact'
      /\ vector'[v] = t
      /\ \A w \in Vec : w # v => vector'[w] = vector[w]
  <2> HIDE DEF t
  <2>1. vector' = [vector EXCEPT ![v] = t]
    BY DEF t, Push
  <2> QED BY <2>1, <1>2, <1>5, OneVector
<1>9. \A p : On(p, v)' <=> p = o \/ On(p, v)
  BY <1>5, <1>6 DEF On, Among
<1> QED BY <1>6, <1>9 DEF ChainTypes, Push

\* The first program is taken off interrupt v: what is written is the rest of
\* the chain, whether the program is a copy of ours or another one.
LEMMA TopLeaves ==
  ASSUME ChainTypes, ChainsIntact, NEW v \in Vec, NEW x \in Program, HeadIs(v, x),
         NEW t, vector' = [vector EXCEPT ![v] = t],
         (x \in Instances /\ t = original[x][v]) \/ t = Tail(vector[v]),
         original' = original
  PROVE  /\ ChainTypes' /\ ChainsIntact'
         /\ \A p : On(p, v)' <=> p # x /\ On(p, v)
         /\ \A w \in Vec : w # v => vector'[w] = vector[w]
<1> DEFINE s == vector[v]
<1>1. /\ s \in Seq(Program) /\ s # <<>> /\ Head(s) = x
      /\ Distinct(s) /\ Linked(s, Saved(v))
  BY DEF ChainTypes, ChainsIntact, HeadIs
<1>2. \A w \in Vec : Saved(w)' = Saved(w)
  BY DEF Saved
<1>3. /\ Tail(s) \in Seq(Program) /\ (x \in Instances => Saved(v)[x] = Tail(s))
      /\ Distinct(Tail(s)) /\ Linked(Tail(s), Saved(v))
      /\ \A p : Among(p, Tail(s)) <=> p # x /\ Among(p, s)
  <2> HIDE DEF s
  <2> QED BY <1>1, PopChain
<1>4. t = Tail(s)
  BY <1>3 DEF Saved
<1>6. /\ vector' \in [Vec -> Seq(Program)] /\ ChainsIntact'
      /\ vector'[v] = t
      /\ \A w \in Vec : w # v => vector'[w] = vector[w]
  <2> HIDE DEF s
  <2> QED BY <1>2, <1>3, <1>4, OneVector
<1>9. \A p : On(p, v)' <=> p # x /\ On(p, v)
  BY <1>3, <1>4, <1>6 DEF On, Among
<1> QED BY <1>6, <1>9 DEF ChainTypes

LEMMA RestoreStep ==
  ASSUME ChainTypes, ChainsIntact, NEW v \in Vec, NEW i \in Instances, HeadIs(v, i),
         Restore(i, v)
  PROVE  /\ ChainTypes' /\ ChainsIntact'
         /\ \A p : On(p, v)' <=> p # i /\ On(p, v)
         /\ \A w \in Vec : w # v => vector'[w] = vector[w]
<1> DEFINE t == original[i][v]
<1>1. /\ vector' = [vector EXCEPT ![v] = t] /\ original' = original
      /\ i \in Program /\ i \in Instances /\ t = original[i][v]
  BY DEF Restore, Program
<1> HIDE DEF t
<1> QED BY <1>1, TopLeaves

LEMMA PopStep ==
  ASSUME ChainTypes, ChainsIntact, NEW v \in Vec, NEW o \in Others, HeadIs(v, o),
         Pop(v)
  PROVE  /\ ChainTypes' /\ ChainsIntact'
         /\ \A p : On(p, v)' <=> p # o /\ On(p, v)
         /\ \A w \in Vec : w # v => vector'[w] = vector[w]
<1> DEFINE t == Tail(vector[v])
<1>1. /\ vector' = [vector EXCEPT ![v] = t] /\ original' = original
      /\ o \in Program /\ t = Tail(vector[v])
  BY OtherNotCopy DEF Pop
<1> HIDE DEF t
<1> QED BY <1>1, TopLeaves

-----------------------------------------------------------------------------
(* The foreground.                                                         *)

ProgTypes == /\ self \in Instances \cup {NoInstance}
             /\ victim \in Instances \cup {NoInstance}
             /\ mem \in [Instances -> {"none", "loaded", "resident"}]
             /\ pc \in PC

LEMMA ReachedCopies ==
  ASSUME NEW k \in Reached
  PROVE  vector[47][k] \in Instances /\ On(vector[47][k], 47)
BY DEF Reached, On

\* The copy that answers int 2Fh is one of ours.
LEMMA AnswererIsCopy ==
  ASSUME ChainTypes, Reached # {}
  PROVE  Answerer \in Instances /\ On(Answerer, 47)
<1>1. Reached \subseteq Nat
  BY DEF ChainTypes, Reached, Vec
<1>2. \E k \in Reached : \A j \in Reached : k <= j
  BY <1>1, LeastOf
<1>3. PICK k \in Reached : Answerer = vector[47][k]
  BY <1>2 DEF Answerer
<1> QED BY <1>3, ReachedCopies

LEMMA ForegroundStart ==
  ASSUME ProgTypes, ChainTypes, Foreground, Chained, Start
  PROVE  ProgTypes' /\ Foreground'
<1> USE ProgramAssumption DEF ProgTypes, Foreground, PC, Uninstalling, Installing
<1>1. ASSUME NEW i \in Instances, Run(i) PROVE ProgTypes' /\ Foreground'
  BY <1>1 DEF Run, driver
<1>2. CASE CheckInstall
  <2>1. ASSUME Reached = {}, NEW i \in Instances PROVE mem[i] # "resident"
    <3>1. ~On(i, 47)
      BY <2>1 DEF On, Reached
    <3> QED BY <1>2, <3>1 DEF Chained, Stays, CheckInstall
  <2>2. CASE Reached = {}
    BY <1>2, <2>1, <2>2 DEF CheckInstall, Goto
  <2>3. CASE Reached # {}
    BY <1>2, <2>3 DEF CheckInstall, Exit
  <2> QED BY <2>2, <2>3
<1>3. CASE CheckUnload
  <2>1. CASE Reached # {} /\ MayUninstall(Answerer)
    <3>1. Answerer \in Instances /\ On(Answerer, 47)
      BY <2>1, AnswererIsCopy
    <3>2. mem[Answerer] = "resident"
      BY <1>3, <3>1 DEF Chained, Stays, CheckUnload
    <3> QED BY <1>3, <2>1, <3>1, <3>2 DEF CheckUnload
  <2>2. CASE ~(Reached # {} /\ MayUninstall(Answerer))
    BY <1>3, <2>2 DEF CheckUnload, Exit
  <2> QED BY <2>1, <2>2
<1> QED BY <1>1, <1>2, <1>3 DEF Start

LEMMA ForegroundMoves ==
  ASSUME ProgTypes, Foreground,
         Connect \/ Install \/ Fail \/ resident_do_uninstall \/ OtherTsr
  PROVE  ProgTypes' /\ Foreground'
<1> USE ProgramAssumption DEF ProgTypes, Foreground, PC, Uninstalling, Installing, Goto, Exit
<1>1. CASE Connect
  BY <1>1 DEF Connect, InitBuffers, AccessType, AccessFails, DriverInfo, GetAddress, InfoFails
<1>2. CASE Install
  BY <1>2 DEF Install, Hook08, Hook2f, GoTsr
<1>3. CASE Fail
  BY <1>3 DEF Fail, TsrFails, Fail08, Fail2f, FailDone
<1>4. CASE resident_do_uninstall
  BY <1>4 DEF resident_do_uninstall, UnCheck, Un08, Un2f, UnDone, UnFree
<1>5. CASE OtherTsr
  BY <1>5 DEF OtherTsr, OtherHooks, OtherUnhooks, prog
<1> QED BY <1>1, <1>2, <1>3, <1>4, <1>5

-----------------------------------------------------------------------------
(* The chains.                                                             *)

Chains == ChainTypes /\ ChainsIntact /\ Chained /\ OnTop

\* Steps that hook and unhook nothing.
LEMMA SameChains ==
  ASSUME Chains, UNCHANGED machine
  PROVE  /\ ChainTypes' /\ ChainsIntact'
         /\ \A p, v : (On(p, v)' <=> On(p, v)) /\ (HeadIs(v, p)' <=> HeadIs(v, p))
<1>1. vector' = vector /\ original' = original
  BY DEF machine
<1>2. \A v \in Vec : Saved(v)' = Saved(v)
  BY <1>1 DEF Saved
<1>3. ChainTypes' /\ ChainsIntact'
  BY <1>1, <1>2 DEF Chains, ChainTypes, ChainsIntact
<1> QED BY <1>1, <1>3 DEF On, HeadIs

LEMMA ChainsStart ==
  ASSUME ProgTypes, Foreground, Foreground', Chains, Start
  PROVE  Chains'
<1> USE ProgramAssumption DEF ProgTypes, Foreground, PC, Uninstalling, Installing
<1>1. ASSUME NEW i \in Instances, Run(i) PROVE Chains'
  <2>0. /\ vector' = vector
        /\ original' = [original EXCEPT ![i] = [v \in Vec |-> <<>>]]
    BY <1>1 DEF Run, driver
  <2>1. \A v \in Vec : ~On(i, v)
    BY <1>1 DEF Chains, Chained, Stays, Vec, Run
  <2>2. original' \in [Instances -> [Vec -> Seq(Program)]]
    BY <2>0 DEF Chains, ChainTypes
  <2>3. ASSUME NEW v \in Vec, NEW k \in DOMAIN vector[v], vector[v][k] \in Instances
        PROVE  Saved(v)'[vector[v][k]] = Saved(v)[vector[v][k]]
    <3>1. vector[v][k] # i
      BY <2>1 DEF On
    <3> QED BY <2>0, <2>3, <3>1 DEF Chains, ChainTypes, Saved
  <2>4. ChainTypes'
    BY <2>0, <2>2 DEF Chains, ChainTypes
  <2>5. ChainsIntact'
    BY <2>0, <2>3 DEF Chains, ChainsIntact, Linked
  <2>6. \A p, v : (On(p, v)' <=> On(p, v)) /\ (HeadIs(v, p)' <=> HeadIs(v, p))
    BY <2>0 DEF On, HeadIs
  <2>7. Chained'
    BY <1>1, <2>1, <2>6 DEF Chains, Chained, Stays, Run
  <2>8. OnTop'
    BY <1>1, <2>6 DEF Chains, OnTop, Run
  <2> QED BY <2>4, <2>5, <2>7, <2>8 DEF Chains
<1>2. CASE CheckInstall \/ CheckUnload
  <2>1. UNCHANGED machine
    BY <1>2 DEF CheckInstall, CheckUnload
  <2>2. /\ ChainTypes' /\ ChainsIntact'
        /\ \A p, v : (On(p, v)' <=> On(p, v)) /\ (HeadIs(v, p)' <=> HeadIs(v, p))
    BY <2>1, SameChains
  <2>3. Chained'
    BY <1>2, <2>2 DEF Chains, Chained, Stays, CheckInstall, CheckUnload, Goto, Exit
  <2>4. OnTop'
    BY <1>2, <2>2 DEF Chains, OnTop, CheckInstall, CheckUnload, Goto, Exit
  <2> QED BY <2>2, <2>3, <2>4 DEF Chains
<1> QED BY <1>1, <1>2 DEF Start

LEMMA ChainsConnect ==
  ASSUME ProgTypes, Foreground, Foreground', Chains, Connect
  PROVE  Chains'
<1> USE ProgramAssumption DEF ProgTypes, Foreground, PC, Uninstalling, Installing
<1> USE DEF Connect, InitBuffers, AccessType, AccessFails, DriverInfo, GetAddress, InfoFails
<1>1. UNCHANGED machine
  OBVIOUS
<1>2. /\ ChainTypes' /\ ChainsIntact'
      /\ \A p, v : (On(p, v)' <=> On(p, v)) /\ (HeadIs(v, p)' <=> HeadIs(v, p))
  BY <1>1, SameChains
<1>3. Chained'
  BY <1>2 DEF Chains, Chained, Stays, Goto, Exit
<1>4. OnTop'
  BY <1>2 DEF Chains, OnTop, Goto, Exit
<1> QED BY <1>2, <1>3, <1>4 DEF Chains

\* HookStep with the parts spelled out: the copy stays the one that runs.
LEMMA HookSelf ==
  ASSUME Chains, NEW v \in Vec, NEW w \in Vec, v # w, self \in Instances, ~On(self, v),
         Hook(self, v), self' = self
  PROVE  /\ ChainTypes' /\ ChainsIntact' /\ HeadIs(v, self)'
         /\ \A p : (On(p, v)' <=> p = self \/ On(p, v)) /\ (On(p, w)' <=> On(p, w))
         /\ \A p : HeadIs(w, p)' <=> HeadIs(w, p)
<1>1. PICK i \in Instances : i = self
  OBVIOUS
<1>2. ~On(i, v) /\ Hook(i, v)
  BY <1>1
<1>3. /\ ChainTypes' /\ ChainsIntact' /\ HeadIs(v, i)'
      /\ \A p : On(p, v)' <=> p = i \/ On(p, v)
      /\ vector'[w] = vector[w]
  BY <1>2, HookStep DEF Chains
<1>4. \A p : (On(p, w)' <=> On(p, w)) /\ (HeadIs(w, p)' <=> HeadIs(w, p))
  BY <1>3 DEF On, HeadIs
<1>5. HeadIs(v, self)'
  BY <1>1, <1>3 DEF HeadIs
<1> QED BY <1>1, <1>3, <1>4, <1>5

LEMMA ChainsInstall ==
  ASSUME ProgTypes, Foreground, Foreground', Chains, Install
  PROVE  Chains'
<1> USE ProgramAssumption DEF ProgTypes, Foreground, PC, Uninstalling, Installing, Goto, Exit
<1>1. CASE Hook08
  <2>1. Hook(self, 8) /\ self \in Instances /\ self' = self /\ 8 \in Vec /\ 47 \in Vec
    BY <1>1 DEF Hook08, Vec
  <2>2. ~On(self, 8)
    BY <1>1, <2>1 DEF Chains, Chained, Stays, Hook08
  <2>3. /\ ChainTypes' /\ ChainsIntact' /\ HeadIs(8, self)'
        /\ \A p : (On(p, 8)' <=> p = self \/ On(p, 8)) /\ (On(p, 47)' <=> On(p, 47))
        /\ \A p : HeadIs(47, p)' <=> HeadIs(47, p)
    BY <2>1, <2>2, HookSelf
  <2>4. Chained'
    BY <1>1, <2>1, <2>3 DEF Chains, Chained, Stays, Hook08
  <2>5. OnTop'
    BY <1>1, <2>1, <2>3 DEF Chains, OnTop, Hook08
  <2> QED BY <2>3, <2>4, <2>5 DEF Chains
<1>2. CASE Hook2f
  <2>1. Hook(self, 47) /\ self \in Instances /\ self' = self /\ 47 \in Vec /\ 8 \in Vec
    BY <1>2 DEF Hook2f, Vec
  <2>2. ~On(self, 47)
    BY <1>2, <2>1 DEF Chains, Chained, Stays, Hook2f
  <2>3. /\ ChainTypes' /\ ChainsIntact' /\ HeadIs(47, self)'
        /\ \A p : (On(p, 47)' <=> p = self \/ On(p, 47)) /\ (On(p, 8)' <=> On(p, 8))
        /\ \A p : HeadIs(8, p)' <=> HeadIs(8, p)
    BY <2>1, <2>2, HookSelf
  <2>4. Chained'
    BY <1>2, <2>1, <2>3 DEF Chains, Chained, Stays, Hook2f
  <2>5. OnTop'
    BY <1>2, <2>1, <2>3 DEF Chains, OnTop, Hook2f
  <2> QED BY <2>3, <2>4, <2>5 DEF Chains
<1>3. CASE GoTsr
  <2>1. UNCHANGED machine
    BY <1>3 DEF GoTsr
  <2>2. /\ ChainTypes' /\ ChainsIntact'
        /\ \A p, v : (On(p, v)' <=> On(p, v)) /\ (HeadIs(v, p)' <=> HeadIs(v, p))
    BY <2>1, SameChains
  <2>3. Chained'
    BY <1>3, <2>2 DEF Chains, Chained, Stays, GoTsr
  <2>4. OnTop'
    BY <1>3, <2>2 DEF Chains, OnTop, GoTsr
  <2> QED BY <2>2, <2>3, <2>4 DEF Chains
<1> QED BY <1>1, <1>2, <1>3 DEF Install

LEMMA ChainsFail ==
  ASSUME ProgTypes, Foreground, Foreground', Chains, Fail
  PROVE  Chains'
<1> USE ProgramAssumption DEF ProgTypes, Foreground, PC, Uninstalling, Installing, Goto, Exit
<1>1. CASE Fail08
  <2>1. Restore(self, 8) /\ self \in Instances /\ 8 \in Vec /\ 47 \in Vec
    BY <1>1 DEF Fail08, Vec
  <2>2. HeadIs(8, self)
    BY <1>1 DEF Chains, OnTop, Fail08
  <2>3. /\ ChainTypes' /\ ChainsIntact' /\ vector'[47] = vector[47]
        /\ \A p : On(p, 8)' <=> p # self /\ On(p, 8)
    BY <2>1, <2>2, RestoreStep DEF Chains
  <2>4. \A p : (On(p, 47)' <=> On(p, 47)) /\ (HeadIs(47, p)' <=> HeadIs(47, p))
    BY <2>3 DEF On, HeadIs
  <2>5. Chained'
    BY <1>1, <2>1, <2>3, <2>4 DEF Chains, Chained, Stays, Fail08
  <2>6. OnTop'
    BY <1>1, <2>3, <2>4 DEF Chains, OnTop, Fail08
  <2> QED BY <2>3, <2>5, <2>6 DEF Chains
<1>2. CASE Fail2f
  <2>1. Restore(self, 47) /\ self \in Instances /\ 47 \in Vec /\ 8 \in Vec
    BY <1>2 DEF Fail2f, Vec
  <2>2. HeadIs(47, self)
    BY <1>2 DEF Chains, OnTop, Fail2f
  <2>3. /\ ChainTypes' /\ ChainsIntact' /\ vector'[8] = vector[8]
        /\ \A p : On(p, 47)' <=> p # self /\ On(p, 47)
    BY <2>1, <2>2, RestoreStep DEF Chains
  <2>4. \A p : (On(p, 8)' <=> On(p, 8)) /\ (HeadIs(8, p)' <=> HeadIs(8, p))
    BY <2>3 DEF On, HeadIs
  <2>5. Chained'
    BY <1>2, <2>1, <2>3, <2>4 DEF Chains, Chained, Stays, Fail2f
  <2>6. OnTop'
    BY <1>2, <2>3, <2>4 DEF Chains, OnTop, Fail2f
  <2> QED BY <2>3, <2>5, <2>6 DEF Chains
<1>3. CASE TsrFails \/ FailDone
  <2>1. UNCHANGED machine
    BY <1>3 DEF TsrFails, FailDone
  <2>2. /\ ChainTypes' /\ ChainsIntact'
        /\ \A p, v : (On(p, v)' <=> On(p, v)) /\ (HeadIs(v, p)' <=> HeadIs(v, p))
    BY <2>1, SameChains
  <2>3. Chained'
    BY <1>3, <2>2 DEF Chains, Chained, Stays, TsrFails, FailDone
  <2>4. OnTop'
    BY <1>3, <2>2 DEF Chains, OnTop, TsrFails, FailDone
  <2> QED BY <2>2, <2>3, <2>4 DEF Chains
<1> QED BY <1>1, <1>2, <1>3 DEF Fail

LEMMA ChainsUninstall ==
  ASSUME ProgTypes, Foreground, Foreground', Chains, resident_do_uninstall
  PROVE  Chains'
<1> USE ProgramAssumption DEF ProgTypes, Foreground, PC, Uninstalling, Installing, Goto, Exit
<1>1. CASE Un08
  <2>1. Restore(victim, 8) /\ victim \in Instances /\ 8 \in Vec /\ 47 \in Vec
    BY <1>1 DEF Un08, Vec
  <2>2. HeadIs(8, victim)
    BY <1>1 DEF Chains, OnTop, Un08
  <2>3. /\ ChainTypes' /\ ChainsIntact' /\ vector'[47] = vector[47]
        /\ \A p : On(p, 8)' <=> p # victim /\ On(p, 8)
    BY <2>1, <2>2, RestoreStep DEF Chains
  <2>4. \A p : (On(p, 47)' <=> On(p, 47)) /\ (HeadIs(47, p)' <=> HeadIs(47, p))
    BY <2>3 DEF On, HeadIs
  <2>5. Chained'
    BY <1>1, <2>1, <2>3, <2>4 DEF Chains, Chained, Stays, Un08
  <2>6. OnTop'
    BY <1>1, <2>3, <2>4 DEF Chains, OnTop, Un08
  <2> QED BY <2>3, <2>5, <2>6 DEF Chains
<1>2. CASE Un2f
  <2>1. Restore(victim, 47) /\ victim \in Instances /\ 47 \in Vec /\ 8 \in Vec
    BY <1>2 DEF Un2f, Vec
  <2>2. HeadIs(47, victim)
    BY <1>2 DEF Chains, OnTop, Un2f
  <2>3. /\ ChainTypes' /\ ChainsIntact' /\ vector'[8] = vector[8]
        /\ \A p : On(p, 47)' <=> p # victim /\ On(p, 47)
    BY <2>1, <2>2, RestoreStep DEF Chains
  <2>4. \A p : (On(p, 8)' <=> On(p, 8)) /\ (HeadIs(8, p)' <=> HeadIs(8, p))
    BY <2>3 DEF On, HeadIs
  <2>5. Chained'
    BY <1>2, <2>1, <2>3, <2>4 DEF Chains, Chained, Stays, Un2f
  <2>6. OnTop'
    BY <1>2, <2>3, <2>4 DEF Chains, OnTop, Un2f
  <2> QED BY <2>3, <2>5, <2>6 DEF Chains
<1>3. CASE UnCheck \/ UnDone \/ UnFree
  <2>1. UNCHANGED machine
    BY <1>3 DEF UnCheck, UnDone, UnFree
  <2>2. /\ ChainTypes' /\ ChainsIntact'
        /\ \A p, v : (On(p, v)' <=> On(p, v)) /\ (HeadIs(v, p)' <=> HeadIs(v, p))
    BY <2>1, SameChains
  <2>3. Chained'
    BY <1>3, <2>2 DEF Chains, Chained, Stays, MayUninstall, UnCheck, UnDone, UnFree
  <2>4. OnTop'
    BY <1>3, <2>2 DEF Chains, OnTop, MayUninstall, UnCheck, UnDone, UnFree
  <2> QED BY <2>2, <2>3, <2>4 DEF Chains
<1> QED BY <1>1, <1>2, <1>3 DEF resident_do_uninstall

LEMMA ChainsOther ==
  ASSUME ProgTypes, Foreground, Foreground', Chains,
         NEW o \in Others, NEW v \in Vec, OtherHooks(o, v) \/ OtherUnhooks(o, v)
  PROVE  Chains'
<1>1. pc = "shell" /\ UNCHANGED <<mem, self, victim, pc>>
  BY DEF OtherHooks, OtherUnhooks, prog
<1>2. /\ ChainTypes' /\ ChainsIntact'
      /\ \A p : p # o => (On(p, v)' <=> On(p, v))
      /\ \A w \in Vec : w # v => vector'[w] = vector[w]
  <2>1. CASE OtherHooks(o, v)
    BY <2>1, OtherHookStep DEF OtherHooks, Chains
  <2>2. CASE OtherUnhooks(o, v)
    BY <2>2, PopStep DEF OtherUnhooks, Chains
  <2> QED BY <2>1, <2>2
<1>3. ASSUME NEW i \in Instances, NEW w \in Vec PROVE On(i, w)' <=> On(i, w)
  <2>1. i # o
    BY OtherNotCopy
  <2>2. CASE w = v BY <1>2, <2>1, <2>2
  <2>3. CASE w # v BY <1>2, <2>3 DEF On
  <2> QED BY <2>2, <2>3
<1>4. Chained'
  BY <1>1, <1>3 DEF Chains, Chained, Stays, Vec
<1>5. OnTop'
  BY <1>1 DEF OnTop
<1> QED BY <1>2, <1>4, <1>5 DEF Chains

-----------------------------------------------------------------------------
(* What the copies know of the driver.                                     *)

ImageTypes == /\ nbufs \in [Instances -> 0..MAX_BUFFERS]
              /\ pktdrv_irq \in [Instances -> DriverIrqs \cup {0}]
              /\ handle \in [Instances -> Handles \cup {0}]
              /\ mac \in [Instances -> BOOLEAN]
              /\ drivers \in SUBSET DriverIrqs
              /\ receivers \in SUBSET (DriverIrqs \X Instances)
              /\ refused \in BOOLEAN

LEMMA TypesParts == ResidentTypeOK <=> ProgTypes /\ ChainTypes /\ ImageTypes
BY DEF ResidentTypeOK, ProgTypes, ChainTypes, ImageTypes

LEMMA WordSize == MAX_WORD \in Nat
BY SMT DEF MAX_WORD

LEMMA HandleIsNotNone == \A h \in Handles : h # 0
BY ResidentAssumption, WordSize, SMT

LEMMA ClampInRange ==
  ASSUME NEW n \in BufferOptions
  PROVE  Clamp(n) \in 0..MAX_BUFFERS /\ Clamp(n) > 0
<1>1. n \in Int
  BY ResidentAssumption, WordSize, SMT
<1> QED BY <1>1, SMT DEF Clamp, MAX_BUFFERS

\* The driver that is called is one that is loaded.
LEMMA IrqIsDriver ==
  ASSUME ImageTypes
  PROVE  \A q \in Irq : q \in DriverIrqs
<1>1. pktdrv_probe_all = 0 \/ pktdrv_probe_all \in drivers
  <2> DEFINE found == drivers \cap MIN_IRQ..(MAX_IRQ - 1)
  <2>1. CASE found = {}
    BY <2>1 DEF pktdrv_probe_all
  <2>2. CASE found # {}
    <3>1. found \subseteq Nat
      BY ResidentAssumption, SMT DEF ImageTypes
    <3>2. \E q \in found : \A r \in found : q <= r
      BY <2>2, <3>1, LeastOf
    <3>3. pktdrv_probe_all = CHOOSE q \in found : \A r \in found : q <= r
      BY <2>2 DEF pktdrv_probe_all
    <3> HIDE DEF found
    <3>4. pktdrv_probe_all \in found
      BY <3>2, <3>3
    <3> QED BY <3>4 DEF found
  <2> QED BY <2>1, <2>2
<1> QED BY <1>1 DEF Irq, ImageTypes

LEMMA ImageTypesStep ==
  ASSUME ProgTypes, Foreground, ImageTypes, ResidentNext
  PROVE  ImageTypes'
<1> USE ProgramAssumption DEF ProgTypes, Foreground, ImageTypes, Uninstalling, Installing, Goto, Exit
<1>1. ASSUME NEW i \in Instances, Run(i) PROVE ImageTypes'
  BY <1>1 DEF Run, MAX_BUFFERS, driver
<1>2. CASE CheckInstall \/ CheckUnload
  BY <1>2 DEF CheckInstall, CheckUnload, image, driver
<1>3. CASE InitBuffers
  <2>1. CASE UNCHANGED nbufs
    BY <1>3, <2>1 DEF InitBuffers, driver
  <2>2. ASSUME NEW n \in BufferOptions, nbufs' = [nbufs EXCEPT ![self] = Clamp(n)]
        PROVE  ImageTypes'
    BY <1>3, <2>2, ClampInRange DEF InitBuffers, driver
  <2> QED BY <1>3, <2>1, <2>2 DEF InitBuffers
<1>4. CASE AccessType \/ AccessFails \/ DriverInfo \/ GetAddress \/ InfoFails
  <2>1. CASE AccessType
    <3>1. PICK h \in Handles : handle' = [handle EXCEPT ![self] = h]
      BY <2>1 DEF AccessType
    <3>2. self \in Instances
      BY <2>1 DEF AccessType
    <3>3. handle' \in [Instances -> Handles \cup {0}]
      BY <3>1
    <3>4. PICK q \in Irq : /\ receivers' = receivers \cup {<<q, self>>}
                           /\ pktdrv_irq' = [pktdrv_irq EXCEPT ![self] = q]
      BY <2>1 DEF AccessType
    <3>5. q \in DriverIrqs
      BY <3>4, IrqIsDriver
    <3>6. receivers' \in SUBSET (DriverIrqs \X Instances)
      BY <3>2, <3>4, <3>5
    <3>7. pktdrv_irq' \in [Instances -> DriverIrqs \cup {0}]
      BY <3>4, <3>5
    <3> QED BY <2>1, <3>3, <3>6, <3>7 DEF AccessType
  <2>2. CASE AccessFails \/ DriverInfo \/ GetAddress \/ InfoFails
    BY <2>2 DEF AccessFails, DriverInfo, GetAddress, InfoFails, image, driver
  <2> QED BY <1>4, <2>1, <2>2
<1>5. CASE Install
  BY <1>5 DEF Install, Hook08, Hook2f, GoTsr, image, driver
<1>6. CASE Fail
  BY <1>6 DEF Fail, TsrFails, Fail08, Fail2f, FailDone, PktdrvDone, image, driver
<1>7. CASE resident_do_uninstall
  BY <1>7 DEF resident_do_uninstall, UnCheck, Un08, Un2f, UnDone, UnFree, PktdrvDone, image, driver
<1>8. CASE OtherTsr
  BY <1>8 DEF OtherTsr, OtherHooks, OtherUnhooks, image, driver
<1> QED BY <1>1, <1>2, <1>3, <1>4, <1>5, <1>6, <1>7, <1>8 DEF ResidentNext, Start, Connect

LEMMA DriverKnownStep ==
  ASSUME ProgTypes, Foreground, Foreground', ImageTypes, DriverKnown, ResidentNext
  PROVE  DriverKnown'
<1> USE ProgramAssumption DEF ProgTypes, Foreground, ImageTypes, DriverKnown, Connected,
        Stays, Uninstalling, Installing, Goto, Exit
<1>1. ASSUME NEW i \in Instances, Run(i) PROVE DriverKnown'
  BY <1>1 DEF Run, driver
<1>2. CASE CheckInstall \/ CheckUnload
  BY <1>2 DEF CheckInstall, CheckUnload, image, driver
<1>3. CASE InitBuffers \/ AccessFails \/ DriverInfo \/ InfoFails
  BY <1>3 DEF InitBuffers, AccessFails, DriverInfo, InfoFails, image, driver
<1>4. CASE AccessType
  BY <1>4, HandleIsNotNone DEF AccessType
<1>5. CASE GetAddress
  BY <1>5 DEF GetAddress, driver
<1>6. CASE Install
  BY <1>6 DEF Install, Hook08, Hook2f, GoTsr, image, driver
<1>7. CASE Fail
  BY <1>7 DEF Fail, TsrFails, Fail08, Fail2f, FailDone, PktdrvDone, image, driver
<1>8. CASE resident_do_uninstall
  BY <1>8 DEF resident_do_uninstall, UnCheck, Un08, Un2f, UnDone, UnFree, PktdrvDone, image, driver
<1>9. CASE OtherTsr
  BY <1>9 DEF OtherTsr, OtherHooks, OtherUnhooks, image, driver, prog
<1> QED BY <1>1, <1>2, <1>3, <1>4, <1>5, <1>6, <1>7, <1>8, <1>9 DEF ResidentNext, Start, Connect

-----------------------------------------------------------------------------
(* Code in place.                                                          *)

\* Steps that leave the driver alone.
LEMMA SameCalls ==
  ASSUME UNCHANGED <<pktdrv_irq, receivers>>
  PROVE  (Accounted' <=> Accounted) /\ \A i : Called(i)' <=> Called(i)
BY DEF Accounted, Called

\* A copy that nobody calls may forget its driver.
LEMMA ForgetCalls ==
  ASSUME ImageTypes, Accounted, NEW i \in Instances, ~Called(i), UNCHANGED receivers,
         pktdrv_irq' = [pktdrv_irq EXCEPT ![i] = 0]
  PROVE  Accounted' /\ \A j : Called(j)' <=> Called(j)
<1>1. ASSUME NEW r \in receivers PROVE r[1] = pktdrv_irq'[r[2]]
  <2>1. PICK q \in DriverIrqs, j \in Instances : r = <<q, j>>
    BY DEF ImageTypes
  <2>2. j # i
    BY <2>1 DEF Called
  <2>3. pktdrv_irq'[j] = pktdrv_irq[j]
    BY <2>2 DEF ImageTypes
  <2> QED BY <2>1, <2>3 DEF Accounted
<1> QED BY <1>1 DEF Accounted, Called

\* access_type: one more copy is called.
LEMMA AccessCalls ==
  ASSUME ImageTypes, Accounted, NEW q \in DriverIrqs, NEW i \in Instances, ~Called(i),
         receivers' = receivers \cup {<<q, i>>},
         pktdrv_irq' = [pktdrv_irq EXCEPT ![i] = q]
  PROVE  Accounted' /\ \A j : Called(j)' => Called(j) \/ j = i
<1>1. ASSUME NEW r \in receivers' PROVE r[1] = pktdrv_irq'[r[2]]
  <2>1. CASE r = <<q, i>>
    BY <2>1 DEF ImageTypes
  <2>2. CASE r \in receivers
    <3>1. PICK p \in DriverIrqs, j \in Instances : r = <<p, j>>
      BY <2>2 DEF ImageTypes
    <3>2. j # i
      BY <2>2, <3>1 DEF Called
    <3>3. pktdrv_irq'[j] = pktdrv_irq[j]
      BY <3>2 DEF ImageTypes
    <3> QED BY <2>2, <3>1, <3>3 DEF Accounted
  <2> QED BY <2>1, <2>2
<1> QED BY <1>1 DEF Accounted, Called

\* release_type, unless the driver refuses it: the copy is called no more.
LEMMA DoneCalls ==
  ASSUME ImageTypes, Accounted, NEW i \in Instances, handle[i] # 0, PktdrvDone(i), ~refused'
  PROVE  Accounted' /\ ~Called(i)' /\ \A j : Called(j)' => Called(j)
<1>1. /\ receivers' = receivers \ {<<pktdrv_irq[i], i>>}
      /\ pktdrv_irq' = [pktdrv_irq EXCEPT ![i] = 0]
  BY DEF PktdrvDone
<1>2. ASSUME NEW r \in receivers' PROVE r[2] # i /\ r[1] = pktdrv_irq'[r[2]]
  <2>1. PICK p \in DriverIrqs, j \in Instances : r = <<p, j>>
    BY <1>1 DEF ImageTypes
  <2>2. p = pktdrv_irq[j]
    BY <1>1, <2>1 DEF Accounted
  <2>3. j # i
    BY <1>1, <2>1, <2>2
  <2>4. pktdrv_irq'[j] = pktdrv_irq[j]
    BY <1>1, <2>3 DEF ImageTypes
  <2> QED BY <2>1, <2>2, <2>3, <2>4
<1>3. ~Called(i)'
  <2> SUFFICES ASSUME NEW q \in DriverIrqs, <<q, i>> \in receivers' PROVE FALSE
    BY DEF Called
  <2> QED BY <1>2
<1> QED BY <1>1, <1>2, <1>3 DEF Accounted, Called

LEMMA InPlaceStep ==
  ASSUME ProgTypes, Foreground, Foreground', ImageTypes, DriverKnown, InPlace,
         ResidentNext
  PROVE  InPlace'
<1> USE ProgramAssumption DEF ProgTypes, Foreground, InPlace, Stays, Uninstalling, Installing,
        Goto, Exit
<1>1. ASSUME NEW i \in Instances, Run(i) PROVE InPlace'
  <2>1. ~refused' => Accounted' /\ \A j : Called(j)' <=> Called(j)
    <3> SUFFICES ASSUME ~refused' PROVE Accounted' /\ \A j : Called(j)' <=> Called(j)
      OBVIOUS
    <3>1. ~refused /\ UNCHANGED receivers /\ pktdrv_irq' = [pktdrv_irq EXCEPT ![i] = 0]
      BY <1>1 DEF Run, driver
    <3>2. ~Called(i)
      BY <1>1, <3>1 DEF Run
    <3> QED BY <3>1, <3>2, ForgetCalls
  <2> QED BY <1>1, <2>1 DEF Run, driver, ImageTypes
<1>2. CASE UNCHANGED <<pktdrv_irq, receivers>> /\ ~AccessType /\ ~FailDone /\ ~UnDone
  <2>1. (Accounted' <=> Accounted) /\ \A i : Called(i)' <=> Called(i)
    BY <1>2, SameCalls
  <2>2. ASSUME NEW i \in Instances, Run(i) PROVE InPlace'
    BY <2>2, <1>1
  <2>3. CASE CheckInstall \/ CheckUnload
    BY <2>1, <2>3 DEF CheckInstall, CheckUnload, image, driver
  <2>4. CASE InitBuffers
    <3>1. CASE UNCHANGED nbufs /\ mem' = [mem EXCEPT ![self] = "none"]
      BY <2>1, <2>4, <3>1 DEF InitBuffers, driver
    <3>2. ASSUME NEW n \in BufferOptions, nbufs' = [nbufs EXCEPT ![self] = Clamp(n)],
                 pc' = "access", UNCHANGED <<mem, self, victim>>
          PROVE  InPlace'
      BY <2>1, <2>4, <3>2, ClampInRange DEF InitBuffers, driver, ImageTypes
    <3> QED BY <2>4, <3>1, <3>2 DEF InitBuffers
  <2>5. CASE AccessFails \/ DriverInfo \/ GetAddress \/ InfoFails
    BY <2>1, <2>5 DEF AccessFails, DriverInfo, GetAddress, InfoFails, image, driver
  <2>6. CASE Install
    BY <2>1, <2>6 DEF Install, Hook08, Hook2f, GoTsr, image, driver
  <2>7. CASE TsrFails \/ Fail08 \/ Fail2f
    BY <2>1, <2>7 DEF TsrFails, Fail08, Fail2f, image, driver
  <2>8. CASE UnCheck \/ Un08 \/ Un2f \/ UnFree
    BY <2>1, <2>8 DEF UnCheck, Un08, Un2f, UnFree, image, driver
  <2>9. CASE OtherTsr
    BY <2>1, <2>9 DEF OtherTsr, OtherHooks, OtherUnhooks, image, driver, prog
  <2> QED BY <1>2, <2>2, <2>3, <2>4, <2>5, <2>6, <2>7, <2>8, <2>9
          DEF ResidentNext, Start, Connect, Fail, resident_do_uninstall
<1>3. CASE AccessType
  <2>1. PICK q \in Irq : /\ receivers' = receivers \cup {<<q, self>>}
                         /\ pktdrv_irq' = [pktdrv_irq EXCEPT ![self] = q]
    BY <1>3 DEF AccessType
  <2>2. q \in DriverIrqs /\ self \in Instances
    BY <1>3, <2>1, IrqIsDriver DEF AccessType
  <2>3. ~refused => ~Called(self)
    BY <1>3, <2>2 DEF AccessType
  <2>4. ~refused => Accounted' /\ \A j : Called(j)' => Called(j) \/ j = self
    BY <2>1, <2>2, <2>3, AccessCalls
  <2> QED BY <1>3, <2>4 DEF AccessType
<1>4. CASE FailDone
  <2>1. self \in Instances /\ handle[self] # 0 /\ PktdrvDone(self)
    BY <1>4 DEF FailDone, DriverKnown, Connected
  <2>2. refused => refused'
    BY <2>1 DEF PktdrvDone
  <2>3. ASSUME ~refused'
        PROVE  Accounted' /\ \A j : Called(j)' => Called(j) /\ j # self
    <3>1. Accounted
      BY <2>2, <2>3
    <3>2. PICK i \in Instances : i = self
      BY <2>1
    <3>3. handle[i] # 0 /\ PktdrvDone(i)
      BY <2>1, <3>2
    <3>4. Accounted' /\ ~Called(i)' /\ \A j : Called(j)' => Called(j)
      BY <2>3, <3>1, <3>3, DoneCalls
    <3> QED BY <3>2, <3>4
  <2>4. /\ pc' = "shell" /\ self' = NoInstance /\ mem' = [mem EXCEPT ![self] = "none"]
        /\ pc = "fail_done" /\ UNCHANGED nbufs
    BY <1>4 DEF FailDone
  <2>5. ASSUME ~refused', NEW i \in Instances, Called(i)' PROVE Stays(i, {"un_free"})'
    <3>1. i # self /\ Called(i) /\ ~refused
      BY <2>2, <2>3, <2>5
    <3>2. mem[i] = "resident" /\ mem'[i] = mem[i]
      BY <2>4, <3>1
    <3> QED BY <2>4, <3>2
  <2>6. \A i \in Instances : mem'[i] = "resident" => nbufs'[i] > 0
    BY <2>4
  <2> QED BY <2>2, <2>3, <2>4, <2>5, <2>6
<1>5. CASE UnDone
  <2>1. victim \in Instances /\ handle[victim] # 0 /\ PktdrvDone(victim)
    BY <1>5 DEF UnDone, DriverKnown, Connected
  <2>2. refused => refused'
    BY <2>1 DEF PktdrvDone
  <2>3. ASSUME ~refused'
        PROVE  Accounted' /\ \A j : Called(j)' => Called(j) /\ j # victim
    <3>1. Accounted
      BY <2>2, <2>3
    <3>2. PICK i \in Instances : i = victim
      BY <2>1
    <3>3. handle[i] # 0 /\ PktdrvDone(i)
      BY <2>1, <3>2
    <3>4. Accounted' /\ ~Called(i)' /\ \A j : Called(j)' => Called(j)
      BY <2>3, <3>1, <3>3, DoneCalls
    <3> QED BY <3>2, <3>4
  <2> QED BY <1>5, <2>2, <2>3 DEF UnDone
<1>6. UNCHANGED <<pktdrv_irq, receivers>> \/ AccessType \/ FailDone \/ UnDone
      \/ \E i \in Instances : Run(i)
  BY DEF ResidentNext, Start, CheckInstall, CheckUnload, Connect, InitBuffers, AccessFails,
     DriverInfo, GetAddress, InfoFails, Install, Hook08, Hook2f, GoTsr, Fail, TsrFails, Fail08,
     Fail2f, resident_do_uninstall, UnCheck, Un08, Un2f, UnFree, OtherTsr, OtherHooks,
     OtherUnhooks, image, driver
<1> QED BY <1>1, <1>2, <1>3, <1>4, <1>5, <1>6

-----------------------------------------------------------------------------
(* The theorems.                                                           *)

LEMMA RInitInv == ResidentInit => RInv
<1> SUFFICES ASSUME ResidentInit PROVE RInv
  OBVIOUS
<1> USE ProgramAssumption DEF ResidentInit
<1>1. ProgTypes /\ Foreground
  BY DEF ProgTypes, Foreground, PC, Uninstalling, Installing
<1>2. <<>> \in Seq(Program) /\ Distinct(<<>>) /\ \A f : Linked(<<>>, f)
  BY DEF Distinct, Linked
<1>3. ChainTypes /\ ChainsIntact
  BY <1>2 DEF ChainTypes, ChainsIntact
<1>4. ImageTypes
  <2>1. refused \in BOOLEAN
    OBVIOUS
  <2>2. /\ nbufs \in [Instances -> 0..MAX_BUFFERS] /\ handle \in [Instances -> Handles \cup {0}]
        /\ mac \in [Instances -> BOOLEAN]
    BY DEF MAX_BUFFERS
  <2>3. /\ drivers \in SUBSET DriverIrqs /\ receivers \in SUBSET (DriverIrqs \X Instances)
        /\ pktdrv_irq \in [Instances -> DriverIrqs \cup {0}]
    OBVIOUS
  <2> QED BY <2>1, <2>2, <2>3 DEF ImageTypes
<1>5. \A p : ~On(p, 8) /\ ~On(p, 47)
  BY DEF On, Vec
<1>6. Chained /\ OnTop /\ DriverKnown /\ InPlace
  BY <1>5 DEF Chained, OnTop, DriverKnown, InPlace, Stays, Called, Accounted,
     Installing
<1> QED BY <1>1, <1>3, <1>4, <1>6, TypesParts DEF RInv

LEMMA RStepInv == RInv /\ [ResidentNext]_rvars => RInv'
<1> SUFFICES ASSUME RInv, [ResidentNext]_rvars PROVE RInv'
  OBVIOUS
<1>1. ProgTypes /\ ImageTypes /\ Foreground /\ Chains /\ DriverKnown /\ InPlace
  BY TypesParts DEF RInv, Chains
<1>2. CASE ResidentNext
  <2>1. ProgTypes' /\ Foreground'
    BY <1>1, <1>2, ForegroundStart, ForegroundMoves DEF ResidentNext, Chains
  <2>2. ImageTypes' /\ DriverKnown' /\ InPlace'
    BY <1>1, <1>2, <2>1, ImageTypesStep, DriverKnownStep, InPlaceStep
  <2>3. ASSUME OtherTsr PROVE Chains'
    BY <1>1, <2>1, <2>3, ChainsOther DEF OtherTsr
  <2>4. Chains'
    BY <1>1, <1>2, <2>1, <2>3, ChainsStart, ChainsConnect, ChainsInstall, ChainsFail,
       ChainsUninstall DEF ResidentNext
  <2>5. ResidentTypeOK'
    BY <2>1, <2>2, <2>4 DEF ResidentTypeOK, ProgTypes, ChainTypes, ImageTypes, Chains
  <2> QED BY <2>1, <2>2, <2>4, <2>5 DEF RInv, Chains
<1>3. CASE UNCHANGED rvars
  <2>1. /\ UNCHANGED machine /\ UNCHANGED <<mem, nbufs, pktdrv_irq, handle, mac>>
        /\ UNCHANGED <<drivers, receivers, refused, self, victim, pc>>
    BY <1>3 DEF rvars, image, driver, prog
  <2>2. ProgTypes' /\ ImageTypes' /\ Foreground'
    BY <1>1, <2>1 DEF ProgTypes, ImageTypes, Foreground
  <2>3. /\ ChainTypes' /\ ChainsIntact'
        /\ \A p, v : (On(p, v)' <=> On(p, v)) /\ (HeadIs(v, p)' <=> HeadIs(v, p))
    BY <1>1, <2>1, SameChains
  <2>4. Chained'
    BY <1>1, <2>1, <2>3 DEF Chains, Chained, Stays
  <2>5. OnTop'
    BY <1>1, <2>1, <2>3 DEF Chains, OnTop
  <2>6. DriverKnown' /\ InPlace'
    BY <1>1, <2>1 DEF DriverKnown, InPlace, Stays, Connected, Called, Accounted
  <2>7. ResidentTypeOK'
    BY <2>2, <2>3 DEF ResidentTypeOK, ProgTypes, ChainTypes, ImageTypes
  <2> QED BY <2>2, <2>3, <2>4, <2>5, <2>6, <2>7 DEF RInv
<1> QED BY <1>2, <1>3

LEMMA RInvAlways == ResidentSpec => []RInv
BY RInitInv, RStepInv, PTL DEF ResidentSpec

\* Type correctness.
THEOREM ResidentTypeCorrect == ResidentSpec => []ResidentTypeOK
<1>1. RInv => ResidentTypeOK
  BY DEF RInv
<1> QED BY <1>1, RInvAlways, PTL

\* Whatever fails, a timer tick that enters the program finds the driver
\* connected and the station's address known (int08_handler).
THEOREM TimerSeesDriverAlways == ResidentSpec => []TimerSeesDriver
<1>1. RInv => TimerSeesDriver
  BY DEF RInv, Chained, DriverKnown, TimerSeesDriver, Stays, Vec
<1> QED BY <1>1, RInvAlways, PTL

\* Whatever fails and whatever other programs hook, at most one copy is
\* resident, and it can be reached unless it is being removed (main.c's
\* installation check, resident_uninstall_check).
THEOREM OneResidentAlways == ResidentSpec => []OneResident
<1>1. RInv => OneResident
  BY DEF RInv, Foreground, Chained, Stays, OneResident, Leaving, Vec
<1> QED BY <1>1, RInvAlways, PTL

\* What a restored vector does to the other programs.
LEMMA RestoreSpares ==
  ASSUME Chains, NEW v \in Vec, NEW w \in Vec, v # w, NEW i \in Instances,
         HeadIs(v, i), Restore(i, v)
  PROVE  \A o \in Others : (On(o, v)' <=> On(o, v)) /\ (On(o, w)' <=> On(o, w))
<1>1. /\ \A p : On(p, v)' <=> p # i /\ On(p, v)
      /\ vector'[w] = vector[w]
  BY RestoreStep DEF Chains
<1>2. \A o \in Others : o # i
  BY OtherNotCopy
<1>3. \A o : On(o, w)' <=> On(o, w)
  BY <1>1 DEF On
<1> QED BY <1>1, <1>2, <1>3

LEMMA OthersStep == RInv /\ [ResidentNext]_rvars => OthersUndisturbedStep
<1> SUFFICES ASSUME RInv, [ResidentNext]_rvars, pc # "shell"
             PROVE  \A o \in Others, v \in Vec : On(o, v)' <=> On(o, v)
  BY DEF OthersUndisturbedStep
<1>1. ProgTypes /\ Foreground /\ Chains
  BY TypesParts DEF RInv, Chains
<1>2. SUFFICES ASSUME vector' # vector
               PROVE  \A o \in Others : (On(o, 8)' <=> On(o, 8)) /\ (On(o, 47)' <=> On(o, 47))
  BY <1>1 DEF On, Vec
<1> USE ProgramAssumption DEF ProgTypes, Foreground, PC, Uninstalling, Installing
<1>3. \/ Hook08 \/ Hook2f \/ Fail08 \/ Fail2f \/ Un08 \/ Un2f
  BY <1>2 DEF ResidentNext, Start, Run, CheckInstall, CheckUnload, Connect, InitBuffers,
     AccessType, AccessFails, DriverInfo, GetAddress, InfoFails, Install, GoTsr,
     Fail, TsrFails, FailDone, resident_do_uninstall, UnCheck, UnDone, UnFree,
     OtherTsr, OtherHooks, OtherUnhooks, machine, rvars
<1>4. 8 \in Vec /\ 47 \in Vec
  BY DEF Vec
<1>5. CASE Hook08 \/ Hook2f
  <2>1. /\ self \in Instances /\ self' = self
        /\ \/ Hook(self, 8) /\ ~On(self, 8)
           \/ Hook(self, 47) /\ ~On(self, 47)
    BY <1>1, <1>5 DEF Hook08, Hook2f, Chains, Chained, Stays, Goto
  <2>2. \A o \in Others : o # self
    BY <2>1, OtherNotCopy
  <2>3. CASE Hook(self, 8) /\ ~On(self, 8)
    BY <1>1, <1>4, <2>1, <2>2, <2>3, HookSelf
  <2>4. CASE Hook(self, 47) /\ ~On(self, 47)
    BY <1>1, <1>4, <2>1, <2>2, <2>4, HookSelf
  <2> QED BY <2>1, <2>3, <2>4
<1>6. CASE Fail08 \/ Fail2f
  <2>1. /\ self \in Instances
        /\ \/ Restore(self, 8) /\ HeadIs(8, self)
           \/ Restore(self, 47) /\ HeadIs(47, self)
    BY <1>1, <1>6 DEF Fail08, Fail2f, Chains, OnTop
  <2> QED BY <1>1, <1>4, <2>1, RestoreSpares
<1>7. CASE Un08 \/ Un2f
  <2>1. /\ victim \in Instances
        /\ \/ Restore(victim, 8) /\ HeadIs(8, victim)
           \/ Restore(victim, 47) /\ HeadIs(47, victim)
    BY <1>1, <1>7 DEF Un08, Un2f, Chains, OnTop
  <2> QED BY <1>1, <1>4, <2>1, RestoreSpares
<1> QED BY <1>3, <1>5, <1>6, <1>7

\* restore_interrupt_handlers never unhooks somebody else.
THEOREM OthersUndisturbedAlways == ResidentSpec => OthersUndisturbed
BY RInvAlways, OthersStep, PTL DEF ResidentSpec, OthersUndisturbed

\* Whatever an interrupt enters is in memory and has its buffers, and so is
\* what the packet driver calls, until the driver refuses a call that the code
\* takes for granted (pktdrv_init, pktdrv_done).
THEOREM CodeInPlaceAlways == ResidentSpec => []CodeInPlace
<1>1. RInv => CodeInPlace
  <2> SUFFICES ASSUME RInv, NEW i \in Instances, Entered(i)
               PROVE  mem[i] # "none" /\ nbufs[i] > 0
    BY DEF CodeInPlace, HasCode
  <2>1. (Called(i) /\ ~refused) \/ On(i, 8) \/ On(i, 47)
    BY DEF Entered, Vec
  <2>2. mem[i] = "resident" \/ (i = self /\ pc \in Installing \ {"init"})
    BY <2>1 DEF RInv, InPlace, Chained, Stays, Installing
  <2> QED BY <2>2 DEF RInv, Foreground, InPlace
<1> QED BY <1>1, RInvAlways, PTL

=============================================================================
