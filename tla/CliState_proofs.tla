--------------------------- MODULE CliState_proofs ---------------------------
(***************************************************************************)
(* What the commands keep, for any number of airdrops, names, files and      *)
(* processes and with kills at any point.  The argument: call what one may   *)
(* come across, in a state file or in a running command, the states around.  *)
(* A step adds at most one to them, which is a new airdrop's or contains one *)
(* that was there.  So a set of operations that all states of an airdrop     *)
(* contain (Safe) stays contained, whatever overlaps.  What is reported or    *)
(* registered becomes safe when both files are written, if no other command  *)
(* on that airdrop was running meanwhile (contested).  Two more facts need   *)
(* commands that do not overlap: the claim recorded is the claim sent, and   *)
(* every named copy is found.                                               *)
(***************************************************************************)
EXTENDS CliState, SequenceTheorems, TLAPS

StateFiles == NamedFiles \cup {"state.json"}
AllFiles == SharedFiles \cup NamedFiles

OwnStates == {s \in States : \A op \in s.ops : op.kind = "claim" => op.id = s.airdrop_id}

Content(file) ==
    IF file \in StateFiles THEN OwnStates
    ELSE IF file = "airdrops.json" THEN SUBSET States
    ELSE IF file = "bundle.json" THEN Ids ELSE ClaimFiles
Texts == OwnStates \cup (SUBSET States) \cup Ids \cup ClaimFiles

Writes == {w \in [file: AllFiles, content: Texts] : w.content \in Content(w.file)}
Works ==
    [step: {"submit", "save", "report"}, state: OwnStates, op: Operations, todo: Seq(Writes),
     open: BOOLEAN, tx: ClaimFiles \cup {Absent}]
Provings == [step: {"prove"}, open: BOOLEAN, todo: Seq(Writes)]

Types ==
    /\ attempts \in Nat /\ drawn \subseteq Ids /\ acked \in [Ids -> SUBSET Operations]
    /\ contested \in [Ids -> SUBSET Operations]
    /\ disk \in [AllFiles -> Texts \cup {Absent, Torn}]
    /\ \A file \in AllFiles : Readable(file) => disk[file] \in Content(file)
    /\ process \in [Processes -> {Idle} \cup Works \cup Provings]

Working(p) == process[p].step \in {"submit", "save", "report"}
StateOf(p) == process[p].state
Elements(s) == {s[i] : i \in DOMAIN s}
Left(p) == {w.file : w \in Elements(process[p].todo)}

\* The states one may come across.
Held(s) == \E file \in StateFiles : Readable(file) /\ s = disk[file]
Around(s) == Held(s) \/ \E p \in Processes : Working(p) /\ s = StateOf(p)

\* An airdrop id has been drawn and belongs to one name.
Known ==
    /\ \A s : Around(s) => s.airdrop_id \in drawn
    /\ \A s, t : Around(s) /\ Around(t) /\ s.airdrop_id = t.airdrop_id => s.name = t.name

\* The operation of a running command has met a rival on its airdrop.
Contested(p) == process[p].op \in contested[StateOf(p).airdrop_id]

\* Two commands on one airdrop know of it.
Apart ==
    \A p, q \in Processes :
      Working(p) /\ Working(q) /\ p # q /\ StateOf(p).airdrop_id = StateOf(q).airdrop_id
        => Contested(p)

Located == \A file \in NamedFiles : Readable(file) => named_state_path(disk[file].name) = file

\* Commands write their own state, into the two files it belongs to.
WriteOK(p, w) ==
    w.file \in StateFiles =>
      /\ Working(p) /\ w.content = StateOf(p)
      /\ w.file \in {"state.json", named_state_path(StateOf(p).name)}
OwnWrites ==
    \A p \in Processes :
      /\ Working(p) => process[p].op \in StateOf(p).ops
      /\ process[p] # Idle => \A w \in Elements(process[p].todo) : WriteOK(p, w)

\* Every state of the airdrop contains the operations.
Safe(id, ops) ==
    /\ ops # {} => id \in drawn
    /\ \A s : Around(s) /\ s.airdrop_id = id => ops \subseteq s.ops

\* An airdrop no two commands have contended for.
Quiet(id) == id \in Ids /\ contested[id] = {}

SafeEntries(entries) == \A e \in entries : Quiet(e.airdrop_id) => Safe(e.airdrop_id, e.ops)

AckedSafe == \A id \in Ids : Safe(id, acked[id])
RegistrySafe == Readable("airdrops.json") => SafeEntries(disk["airdrops.json"])
WritesSafe ==
    \A p \in Processes : process[p] # Idle =>
      \A w \in Elements(process[p].todo) :
        w.file = "airdrops.json" => SafeEntries(w.content)

\* A command without a rival that has written a file finds its state in it.
Written ==
    \A p \in Processes : process[p].step \in {"save", "report"} /\ ~Contested(p) =>
      \A file \in StateFiles \ Left(p) :
        Readable(file) /\ disk[file].airdrop_id = StateOf(p).airdrop_id
          => StateOf(p).ops \subseteq disk[file].ops

CliInv ==
    /\ Types /\ Known /\ Apart /\ Located /\ OwnWrites
    /\ AckedSafe /\ RegistrySafe /\ WritesSafe /\ Written
-----------------------------------------------------------------------------
(* Sequences and files.                                                     *)

LEMMA ElementsEmpty == Elements(<<>>) = {}
BY DEF Elements

LEMMA ElementsOf ==
    ASSUME NEW S, NEW s \in Seq(S)
    PROVE  Elements(s) \subseteq S
BY ElementOfSeq, LenProperties DEF Elements

LEMMA ElementsOne ==
    ASSUME NEW S, NEW w \in S
    PROVE  <<w>> \in Seq(S) /\ Elements(<<w>>) = {w}
BY DEF Elements

LEMMA ElementsTwo ==
    ASSUME NEW S, NEW v \in S, NEW w \in S
    PROVE  <<v, w>> \in Seq(S) /\ Elements(<<v, w>>) = {v, w}
<1>1. <<v, w>> \in Seq(S) /\ DOMAIN <<v, w>> = 1 .. 2 /\ 1 .. 2 = {1, 2}
      OBVIOUS
<1> QED BY <1>1 DEF Elements

LEMMA ElementsTail ==
    ASSUME NEW S, NEW s \in Seq(S), s # <<>>
    PROVE  /\ Tail(s) \in Seq(S) /\ Head(s) \in Elements(s)
           /\ Elements(Tail(s)) \subseteq Elements(s)
           /\ Elements(s) \subseteq Elements(Tail(s)) \cup {Head(s)}
<1>1. /\ Len(s) \in Nat \ {0} /\ DOMAIN s = 1 .. Len(s)
      /\ Tail(s) \in Seq(S) /\ Len(Tail(s)) = Len(s) - 1
      /\ \A i \in 1 .. Len(Tail(s)) : Tail(s)[i] = s[i + 1]
      BY EmptySeq, LenProperties, HeadTailProperties
<1>2. DOMAIN Tail(s) = 1 .. (Len(s) - 1)
      BY <1>1, LenProperties
<1>3. Head(s) = s[1]
      OBVIOUS
<1>4. Elements(Tail(s)) \subseteq Elements(s)
      BY <1>1, <1>2 DEF Elements
<1>5. \A i \in DOMAIN s : i = 1 \/ (i - 1 \in DOMAIN Tail(s) /\ Tail(s)[i - 1] = s[i])
      BY <1>1, <1>2
<1>6. Elements(s) \subseteq Elements(Tail(s)) \cup {Head(s)}
      BY <1>3, <1>5 DEF Elements
<1> QED BY <1>1, <1>3, <1>4, <1>6 DEF Elements

LEMMA Files ==
    ASSUME CliAssumption
    PROVE  /\ StateFiles \subseteq AllFiles
           /\ \A f \in StateFiles :
                f \notin {"airdrops.json", "bundle.json", "proof.json", "claim.tx"}
           /\ \A name \in Names : named_state_path(name) \in StateFiles
BY DEF CliAssumption, StateFiles, AllFiles, SharedFiles, named_state_path

\* What a file may hold by its name.
LEMMA Contents ==
    ASSUME CliAssumption
    PROVE  /\ \A f \in StateFiles : Content(f) = OwnStates
           /\ Content("airdrops.json") = SUBSET States /\ Content("bundle.json") = Ids
           /\ Content("proof.json") = ClaimFiles /\ Content("claim.tx") = ClaimFiles
BY Files DEF Content

LEMMA Shape ==
    ASSUME Types, NEW p \in Processes
    PROVE  /\ Working(p) => process[p] \in Works /\ process[p] # Idle
           /\ process[p] # Idle /\ ~Working(p) => process[p] \in Provings
           /\ process[p] # Idle => process[p].step # "idle"
           /\ process[p] # Idle => process[p].todo \in Seq(Writes)
<1>1. process[p] \in {Idle} \cup Works \cup Provings
      BY DEF Types
<1>2. Idle.step = "idle"
      BY DEF Idle
<1>3. process[p] \in Works => process[p].step \in {"submit", "save", "report"} /\ process[p].todo \in Seq(Writes)
      BY DEF Works
<1>4. process[p] \in Provings => process[p].step = "prove" /\ process[p].todo \in Seq(Writes)
      BY DEF Provings
<1> QED BY <1>1, <1>2, <1>3, <1>4 DEF Working

LEMMA WorkShape ==
    ASSUME Types, NEW p \in Processes, Working(p)
    PROVE  /\ StateOf(p) \in OwnStates /\ StateOf(p) \in States
           /\ StateOf(p).airdrop_id \in Ids /\ StateOf(p).name \in Names
           /\ process[p].op \in Operations
           /\ Elements(process[p].todo) \subseteq Writes
<1>1. process[p] \in Works
      BY Shape
<1>2. StateOf(p) \in OwnStates /\ process[p].op \in Operations /\ process[p].todo \in Seq(Writes)
      BY <1>1 DEF Works, StateOf
<1> QED BY <1>2, ElementsOf DEF OwnStates, States

LEMMA HeldStates ==
    ASSUME CliAssumption, Types, NEW s, Held(s)
    PROVE  s \in OwnStates /\ s \in States /\ s.airdrop_id \in Ids /\ s.name \in Names
<1>1. PICK file \in StateFiles : Readable(file) /\ s = disk[file]
      BY DEF Held
<1>2. s \in OwnStates
      BY <1>1, Files, Contents DEF Types
<1> QED BY <1>2 DEF OwnStates, States

\* A command works on a state some file holds.
LEMMA LoadedIsHeld ==
    ASSUME CliAssumption, Types, NEW airdrop, NEW state \in Loaded(airdrop)
    PROVE  Held(state) /\ ensure_airdrop(state, airdrop)
<1>1. PICK file \in SourceFile(airdrop) : Readable(file) /\ state = disk[file]
      BY DEF Loaded, load_state_for
<1>2. CASE file = "state.json"
      BY <1>1, <1>2 DEF Held, StateFiles, Loaded
<1>3. CASE file # "state.json"
  <2>1. disk["airdrops.json"] # Torn
        BY <1>1, <1>3 DEF SourceFile
  <2>2. PICK entry \in load_registry : file = named_state_path(entry.name)
        BY <1>1, <1>3, <2>1 DEF SourceFile
  <2>3. "airdrops.json" \in AllFiles
        BY DEF AllFiles, SharedFiles
  <2>4. load_registry \subseteq States
        BY <2>1, <2>3, Contents DEF load_registry, Types, Readable
  <2>5. entry.name \in Names
        BY <2>2, <2>4 DEF States
  <2>6. file \in StateFiles
        BY <2>2, <2>5, Files
  <2> QED BY <1>1, <2>6 DEF Held, Loaded
<1> QED BY <1>2, <1>3

-----------------------------------------------------------------------------
(* What a step may add to the states around.                                *)

Grows ==
    /\ drawn \subseteq drawn'
    /\ \A id \in Ids : contested[id] \subseteq contested'[id]
    /\ \A s : Around(s)' =>
         \/ Around(s)
         \/ /\ s.airdrop_id \in drawn' \ drawn
            /\ \A t : Around(t)' /\ t.airdrop_id = s.airdrop_id => t = s
         \/ /\ s.airdrop_id \in drawn
            /\ \E t : /\ Around(t) /\ t.ops \subseteq s.ops
                      /\ t.airdrop_id = s.airdrop_id /\ t.name = s.name

LEMMA KnownStays ==
    ASSUME Known, Grows
    PROVE  Known'
<1>1. ASSUME NEW s, Around(s)'
      PROVE  s.airdrop_id \in drawn'
      BY <1>1 DEF Grows, Known
<1>2. ASSUME NEW s, NEW t, Around(s)', Around(t)', s.airdrop_id = t.airdrop_id
      PROVE  s.name = t.name
  <2>1. CASE \/ s.airdrop_id \in drawn' \ drawn /\ (\A u : Around(u)' /\ u.airdrop_id = s.airdrop_id => u = s)
             \/ t.airdrop_id \in drawn' \ drawn /\ (\A u : Around(u)' /\ u.airdrop_id = t.airdrop_id => u = t)
        BY <1>2, <2>1
  <2>2. CASE /\ \E u : Around(u) /\ u.airdrop_id = s.airdrop_id /\ u.name = s.name
             /\ \E u : Around(u) /\ u.airdrop_id = t.airdrop_id /\ u.name = t.name
        BY <1>2, <2>2 DEF Known
  <2> QED BY <1>2, <2>1, <2>2 DEF Grows
<1> QED BY <1>1, <1>2 DEF Known

LEMMA SafeStays ==
    ASSUME Known, Grows, NEW id, NEW ops, Safe(id, ops)
    PROVE  Safe(id, ops)'
<1>1. ops # {} => id \in drawn'
      BY DEF Safe, Grows
<1>2. ASSUME NEW s, Around(s)', s.airdrop_id = id
      PROVE  ops \subseteq s.ops
  <2>1. CASE Around(s)
        BY <1>2, <2>1 DEF Safe
  <2>2. CASE s.airdrop_id \notin drawn
        BY <1>2, <2>2 DEF Safe
  <2>3. CASE \E t : Around(t) /\ t.ops \subseteq s.ops /\ t.airdrop_id = s.airdrop_id
        BY <1>2, <2>3 DEF Safe
  <2> QED BY <1>2, <2>1, <2>2, <2>3 DEF Grows
<1> QED BY <1>1, <1>2 DEF Safe

LEMMA EntriesStay ==
    ASSUME Known, Grows, NEW entries, SafeEntries(entries)
    PROVE  SafeEntries(entries)'
<1> SUFFICES ASSUME NEW e \in entries, Quiet(e.airdrop_id)' PROVE Safe(e.airdrop_id, e.ops)'
    BY DEF SafeEntries
<1>1. Quiet(e.airdrop_id)
      BY DEF Quiet, Grows
<1>2. PICK id, ops : id = e.airdrop_id /\ ops = e.ops
      OBVIOUS
<1>3. Safe(id, ops)
      BY <1>1, <1>2 DEF SafeEntries
<1>4. Safe(id, ops)'
      BY <1>3, SafeStays
<1> QED BY <1>2, <1>4

LEMMA AckedStays ==
    ASSUME Known, Grows, AckedSafe, UNCHANGED acked
    PROVE  AckedSafe'
<1> SUFFICES ASSUME NEW id \in Ids PROVE Safe(id, acked[id])'
    BY DEF AckedSafe
<1>1. PICK ops : ops = acked[id]
      OBVIOUS
<1>2. Safe(id, ops)
      BY <1>1 DEF AckedSafe
<1>3. Safe(id, ops)'
      BY <1>2, SafeStays
<1> QED BY <1>1, <1>3 DEF Safe

LEMMA RegistryStays ==
    ASSUME Known, Grows, RegistrySafe,
           Readable("airdrops.json")' => Readable("airdrops.json") /\ disk'["airdrops.json"] = disk["airdrops.json"]
    PROVE  RegistrySafe'
<1> SUFFICES ASSUME Readable("airdrops.json")' PROVE SafeEntries(disk["airdrops.json"])'
    BY DEF RegistrySafe
<1>1. PICK entries : entries = disk["airdrops.json"]
      OBVIOUS
<1>2. SafeEntries(entries)
      BY <1>1 DEF RegistrySafe
<1>3. SafeEntries(entries)'
      BY <1>2, EntriesStay
<1> QED BY <1>1, <1>3 DEF SafeEntries

LEMMA WritesStay ==
    ASSUME Known, Grows, WritesSafe,
           \A p \in Processes : process'[p] # Idle =>
             \A w \in Elements(process'[p].todo) : w.file = "airdrops.json" =>
               process[p] # Idle /\ w \in Elements(process[p].todo)
    PROVE  WritesSafe'
<1> SUFFICES ASSUME NEW p \in Processes, process'[p] # Idle,
                    NEW w \in Elements(process'[p].todo), w.file = "airdrops.json"
             PROVE  SafeEntries(w.content)'
    BY DEF WritesSafe
<1>1. SafeEntries(w.content)
      BY DEF WritesSafe
<1> QED BY <1>1, EntriesStay

-----------------------------------------------------------------------------
(* A step of one process.                                                   *)

Moves(p, c) == process' = [process EXCEPT ![p] = c]

LEMMA Moved ==
    ASSUME Types, NEW p \in Processes, NEW c, Moves(p, c)
    PROVE  /\ process'[p] = c
           /\ \A q \in Processes \ {p} :
                /\ process'[q] = process[q] /\ Left(q)' = Left(q)
                /\ Working(q)' = Working(q) /\ StateOf(q)' = StateOf(q)
BY DEF Types, Moves, Left, Working, StateOf

LEMMA HeldStays ==
    ASSUME UNCHANGED disk, NEW s
    PROVE  Held(s)' <=> Held(s)
BY DEF Held, Readable

\* The rest of the invariant when no file changes.
LEMMA FilesStay ==
    ASSUME Types, Located, UNCHANGED disk, attempts' \in Nat, drawn' \subseteq Ids,
           acked' \in [Ids -> SUBSET Operations], contested' \in [Ids -> SUBSET Operations],
           NEW p \in Processes, NEW c \in {Idle} \cup Works \cup Provings, Moves(p, c)
    PROVE  Types' /\ Located'
<1>1. process' \in [Processes -> {Idle} \cup Works \cup Provings]
      BY DEF Types, Moves
<1> QED BY <1>1 DEF Types, Located, Readable

\* Whoever runs on the airdrop, the newcomer's operation and theirs are contested.
Noted(c) ==
    contested' = IF Rivals(c.state.airdrop_id) = {} THEN contested
                 ELSE [contested EXCEPT ![c.state.airdrop_id] =
                         @ \cup {c.op} \cup {process[q].op : q \in Rivals(c.state.airdrop_id)}]

LEMMA RivalsWork ==
    ASSUME Types, NEW id
    PROVE  Rivals(id) = {q \in Processes : Working(q) /\ StateOf(q).airdrop_id = id}
<1>1. \A q \in Processes : process[q].step \notin {"idle", "prove"} <=> Working(q)
  <2> SUFFICES ASSUME NEW q \in Processes
               PROVE  process[q].step \notin {"idle", "prove"} <=> Working(q)
      OBVIOUS
  <2>1. process[q] = Idle \/ Working(q) \/ process[q] \in Provings
        BY Shape
  <2> QED BY <2>1 DEF Working, Idle, Provings
<1> QED BY <1>1 DEF Rivals, StateOf

\* What a newcomer's start does to the record of rivals.
LEMMA NotedMeans ==
    ASSUME Types, NEW c \in Works, Noted(c)
    PROVE  /\ contested' \in [Ids -> SUBSET Operations]
           /\ \A id \in Ids : contested[id] \subseteq contested'[id]
           /\ \A q \in Processes : Working(q) /\ StateOf(q).airdrop_id = c.state.airdrop_id =>
                {c.op, process[q].op} \subseteq contested'[c.state.airdrop_id]
<1> DEFINE id == c.state.airdrop_id
           new == {c.op} \cup {process[q].op : q \in Rivals(id)}
<1>1. id \in Ids /\ c.op \in Operations
      BY DEF Works, OwnStates, States
<1>2. new \subseteq Operations
      BY <1>1, RivalsWork, WorkShape
<1>3. contested \in [Ids -> SUBSET Operations]
      BY DEF Types
<1>4. CASE Rivals(id) = {}
      BY <1>3, <1>4, RivalsWork DEF Noted
<1>5. CASE Rivals(id) # {}
  <2>1. contested' = [contested EXCEPT ![id] = contested[id] \cup new]
        BY <1>5 DEF Noted
  <2>2. \A q \in Processes : Working(q) /\ StateOf(q).airdrop_id = id => process[q].op \in new
        BY RivalsWork
  <2>3. c.op \in new
        OBVIOUS
  <2> HIDE DEF new, id
  <2>4. contested'[id] = contested[id] \cup new /\ \A i \in Ids \ {id} : contested'[i] = contested[i]
        BY <1>1, <1>3, <2>1
  <2>5. contested' \in [Ids -> SUBSET Operations]
        BY <1>1, <1>2, <1>3, <2>1
  <2> QED BY <1>3, <2>2, <2>3, <2>4, <2>5 DEF id
<1> QED BY <1>4, <1>5

\* A command that changes a state begins.
LEMMA Begun ==
    ASSUME CliAssumption, CliInv,
           NEW p \in Processes, process[p] = Idle,
           NEW c \in Works, c.step = "submit", Moves(p, c),
           c.op \in c.state.ops,
           \A w \in Elements(c.todo) : w.file \notin StateFiles \cup {"airdrops.json"},
           Noted(c),
           \/ c.state.airdrop_id \notin drawn
           \/ \E t : /\ Around(t) /\ t.ops \subseteq c.state.ops
                     /\ t.airdrop_id = c.state.airdrop_id /\ t.name = c.state.name,
           attempts' = attempts + 1, drawn' = drawn \cup {c.state.airdrop_id},
           UNCHANGED <<disk, acked>>
    PROVE  CliInv'
<1>1. process'[p] = c /\ Working(p)' /\ ~Working(p) /\ StateOf(p)' = c.state
      /\ c # Idle /\ process'[p].step = "submit"
      BY Moved DEF CliInv, Working, StateOf, Idle
<1>2. \A q \in Processes \ {p} :
        /\ process'[q] = process[q] /\ Left(q)' = Left(q)
        /\ Working(q)' = Working(q) /\ StateOf(q)' = StateOf(q)
      BY Moved DEF CliInv
<1>3. c.state.airdrop_id \in Ids
      BY DEF Works, OwnStates, States
<1>a. /\ contested' \in [Ids -> SUBSET Operations]
      /\ \A id \in Ids : contested[id] \subseteq contested'[id]
      /\ \A q \in Processes : Working(q) /\ StateOf(q).airdrop_id = c.state.airdrop_id =>
            {c.op, process[q].op} \subseteq contested'[c.state.airdrop_id]
      BY NotedMeans DEF CliInv
<1>b. \A q \in Processes \ {p} : Working(q) /\ Contested(q) => Contested(q)'
      BY <1>2, <1>a, WorkShape DEF CliInv, Contested
<1>4. Types' /\ Located'
      BY <1>3, <1>a, FilesStay DEF CliInv, Types
<1>5. \A s : Around(s)' <=> Around(s) \/ s = c.state
      BY <1>1, <1>2, HeldStays DEF Around
<1>6. Grows
  <2>1. CASE c.state.airdrop_id \notin drawn
    <3>1. \A t : Around(t)' /\ t.airdrop_id = c.state.airdrop_id => t = c.state
          BY <1>5, <2>1 DEF CliInv, Known
    <3> QED BY <1>5, <1>a, <2>1, <3>1 DEF Grows
  <2>2. CASE \E t : /\ Around(t) /\ t.ops \subseteq c.state.ops
                    /\ t.airdrop_id = c.state.airdrop_id /\ t.name = c.state.name
        BY <1>5, <1>a, <2>2 DEF Grows, CliInv, Known
  <2> QED BY <2>1, <2>2
<1>7. Known' /\ AckedSafe' /\ RegistrySafe'
      BY <1>6, KnownStays, AckedStays, RegistryStays DEF CliInv, Readable
<1>8. WritesSafe'
      BY <1>1, <1>2, <1>6, WritesStay DEF CliInv
<1>9. Apart'
  <2> SUFFICES ASSUME NEW q \in Processes, NEW r \in Processes, q # r, Working(q)', Working(r)',
                      StateOf(q)'.airdrop_id = StateOf(r)'.airdrop_id
               PROVE  Contested(q)'
      BY DEF Apart
  <2>1. CASE q = p
        BY <1>1, <1>2, <1>a, <2>1 DEF Contested
  <2>2. CASE r = p
        BY <1>1, <1>2, <1>a, <2>2 DEF Contested
  <2>3. CASE q # p /\ r # p
        BY <1>2, <1>b, <2>3 DEF CliInv, Apart
  <2> QED BY <2>1, <2>2, <2>3
<1>10. OwnWrites'
  <2>1. Working(p)' => process'[p].op \in StateOf(p)'.ops
        BY <1>1
  <2>2. \A w \in Elements(process'[p].todo) : WriteOK(p, w)'
        BY <1>1 DEF WriteOK
  <2>3. \A q \in Processes \ {p} :
          /\ Working(q)' => process'[q].op \in StateOf(q)'.ops
          /\ process'[q] # Idle => \A w \in Elements(process'[q].todo) : WriteOK(q, w)'
        BY <1>2 DEF CliInv, OwnWrites, WriteOK
  <2> QED BY <2>1, <2>2, <2>3 DEF OwnWrites
<1>11. Written'
  <2> SUFFICES ASSUME NEW q \in Processes, process'[q].step \in {"save", "report"}, ~Contested(q)',
                      NEW file \in StateFiles, file \notin Left(q)', Readable(file)',
                      disk'[file].airdrop_id = StateOf(q)'.airdrop_id
               PROVE  StateOf(q)'.ops \subseteq disk'[file].ops
      BY DEF Written
  <2>1. q # p /\ process[q].step \in {"save", "report"} /\ Working(q)
        BY <1>1, <1>2 DEF Working
  <2>2. ~Contested(q)
        BY <1>b, <2>1
  <2> QED BY <1>2, <2>1, <2>2 DEF CliInv, Written, Readable
<1> QED BY <1>4, <1>7, <1>8, <1>9, <1>10, <1>11 DEF CliInv

\* A command ends, or one that only proves begins.
LEMMA Rested ==
    ASSUME CliAssumption, CliInv,
           NEW p \in Processes, NEW c \in {Idle} \cup Provings, Moves(p, c),
           c # Idle => \A w \in Elements(c.todo) : w.file \notin StateFiles \cup {"airdrops.json"},
           attempts' \in Nat, UNCHANGED <<disk, drawn, contested>>,
           acked' \in [Ids -> SUBSET Operations], Grows /\ Known' => AckedSafe'
    PROVE  CliInv'
<1>1. process'[p] = c /\ ~Working(p)' /\ process'[p].step \in {"idle", "prove"}
      BY Moved DEF CliInv, Working, Idle, Provings
<1>2. \A q \in Processes \ {p} :
        /\ process'[q] = process[q] /\ Left(q)' = Left(q)
        /\ Working(q)' = Working(q) /\ StateOf(q)' = StateOf(q)
      BY Moved DEF CliInv
<1>3. Types' /\ Located'
      BY FilesStay DEF CliInv, Types
<1>4. Grows
      BY <1>1, <1>2, HeldStays DEF Around, Grows
<1>c. \A q \in Processes \ {p} : Contested(q)' <=> Contested(q)
      BY <1>2 DEF Contested, StateOf
<1>5. Known' /\ AckedSafe' /\ RegistrySafe'
      BY <1>4, KnownStays, RegistryStays DEF CliInv, Readable
<1>6. WritesSafe'
      BY <1>1, <1>2, <1>4, WritesStay DEF CliInv
<1>7. Apart'
      BY <1>1, <1>2, <1>c DEF CliInv, Apart
<1>8. OwnWrites'
  <2>1. process'[p] # Idle => \A w \in Elements(process'[p].todo) : WriteOK(p, w)'
        BY <1>1 DEF WriteOK
  <2>2. \A q \in Processes \ {p} :
          /\ Working(q)' => process'[q].op \in StateOf(q)'.ops
          /\ process'[q] # Idle => \A w \in Elements(process'[q].todo) : WriteOK(q, w)'
        BY <1>2 DEF CliInv, OwnWrites, WriteOK
  <2> QED BY <1>1, <2>1, <2>2 DEF OwnWrites
<1>9. Written'
      BY <1>1, <1>2, <1>c DEF CliInv, Written, Readable
<1> QED BY <1>3, <1>5, <1>6, <1>7, <1>8, <1>9 DEF CliInv

\* A command that changes a state goes on to its next writes.
LEMMA Continued ==
    ASSUME CliAssumption, CliInv,
           NEW p \in Processes, Working(p), NEW c \in Works, Moves(p, c),
           c.state = StateOf(p), c.op = process[p].op,
           UNCHANGED <<disk, attempts, drawn, acked, contested>>,
           \A w \in Elements(c.todo) : w.file \in StateFiles =>
             w.content = c.state /\ w.file \in {"state.json", named_state_path(c.state.name)},
           \A w \in Elements(c.todo) : w.file = "airdrops.json" => SafeEntries(w.content),
           ~Contested(p) => \A file \in StateFiles \ {w.file : w \in Elements(c.todo)} :
             Readable(file) /\ disk[file].airdrop_id = c.state.airdrop_id
               => c.state.ops \subseteq disk[file].ops
    PROVE  CliInv'
<1>1. process'[p] = c /\ Working(p)' /\ StateOf(p)' = StateOf(p) /\ c # Idle
      /\ Left(p)' = {w.file : w \in Elements(c.todo)}
      BY Moved DEF CliInv, Working, StateOf, Idle, Works, Left
<1>2. \A q \in Processes \ {p} :
        /\ process'[q] = process[q] /\ Left(q)' = Left(q)
        /\ Working(q)' = Working(q) /\ StateOf(q)' = StateOf(q)
      BY Moved DEF CliInv
<1>3. Types' /\ Located'
      BY FilesStay DEF CliInv, Types
<1>4. Grows
      BY <1>1, <1>2, HeldStays DEF Around, Grows
<1>c. \A q \in Processes : Contested(q)' <=> Contested(q)
      BY <1>1, <1>2 DEF Contested, StateOf
<1>5. Known' /\ AckedSafe' /\ RegistrySafe'
      BY <1>4, KnownStays, AckedStays, RegistryStays DEF CliInv, Readable
<1>6. WritesSafe'
  <2>1. \A q \in Processes \ {p} : process'[q] # Idle =>
          \A w \in Elements(process'[q].todo) : w.file = "airdrops.json" => SafeEntries(w.content)'
        BY <1>2, <1>4, EntriesStay DEF CliInv, WritesSafe
  <2>2. \A w \in Elements(process'[p].todo) : w.file = "airdrops.json" => SafeEntries(w.content)'
        BY <1>1, <1>4, EntriesStay DEF CliInv
  <2> QED BY <2>1, <2>2 DEF WritesSafe
<1>7. Apart'
      BY <1>1, <1>2, <1>c DEF CliInv, Apart
<1>8. OwnWrites'
  <2>1. Working(p)' => process'[p].op \in StateOf(p)'.ops
        BY <1>1 DEF CliInv, OwnWrites
  <2>2. \A w \in Elements(process'[p].todo) : WriteOK(p, w)'
        BY <1>1 DEF WriteOK
  <2>3. \A q \in Processes \ {p} :
          /\ Working(q)' => process'[q].op \in StateOf(q)'.ops
          /\ process'[q] # Idle => \A w \in Elements(process'[q].todo) : WriteOK(q, w)'
        BY <1>2 DEF CliInv, OwnWrites, WriteOK
  <2> QED BY <2>1, <2>2, <2>3 DEF OwnWrites
<1>9. Written'
      BY <1>1, <1>2, <1>c DEF CliInv, Written, Readable
<1> QED BY <1>3, <1>5, <1>6, <1>7, <1>8, <1>9 DEF CliInv

\* A process opens a file it has to write, or fills it.
LEMMA Wrote ==
    ASSUME CliAssumption, CliInv,
           NEW p \in Processes, process[p] # Idle, NEW c \in Works \cup Provings, Moves(p, c),
           c.step = process[p].step,
           Working(p) => c.state = StateOf(p) /\ c.op = process[p].op,
           NEW f \in AllFiles, NEW x, disk' = [disk EXCEPT ![f] = x],
           x = Torn \/ \E w \in Elements(process[p].todo) : w.file = f /\ w.content = x,
           Elements(c.todo) \subseteq Elements(process[p].todo),
           Left(p) \subseteq {w.file : w \in Elements(c.todo)} \cup {f},
           UNCHANGED <<attempts, drawn, acked, contested>>
    PROVE  CliInv'
<1>1. /\ process'[p] = c /\ Working(p)' = Working(p)
      /\ Working(p) => StateOf(p)' = StateOf(p) /\ process'[p].op = process[p].op
      /\ Left(p)' = {w.file : w \in Elements(c.todo)}
      BY Moved DEF CliInv, Working, StateOf, Left
<1>2. \A q \in Processes \ {p} :
        /\ process'[q] = process[q] /\ Left(q)' = Left(q)
        /\ Working(q)' = Working(q) /\ StateOf(q)' = StateOf(q)
      BY Moved DEF CliInv
<1>c. \A q \in Processes : Working(q) => (Contested(q)' <=> Contested(q))
      BY <1>1, <1>2 DEF Contested
<1>3. /\ DOMAIN disk = AllFiles /\ disk'[f] = x
      /\ \A g \in AllFiles \ {f} : disk'[g] = disk[g] /\ Readable(g)' = Readable(g)
      BY DEF CliInv, Types, Readable
<1>4. Readable(f)' => \E w \in Elements(process[p].todo) : w.file = f /\ w.content = x
      BY <1>3 DEF Readable
<1>5. Elements(process[p].todo) \subseteq Writes
      BY Shape, ElementsOf DEF CliInv
<1>6. Readable(f)' => x \in Content(f) /\ x \in Texts
      BY <1>4, <1>5 DEF Writes
<1>7. Types'
  <2>1. process' \in [Processes -> {Idle} \cup Works \cup Provings]
        BY DEF CliInv, Types, Moves
  <2>2. disk' \in [AllFiles -> Texts \cup {Absent, Torn}]
        BY <1>3, <1>6 DEF CliInv, Types, Readable
  <2>3. \A file \in AllFiles : Readable(file)' => disk'[file] \in Content(file)
        BY <1>3, <1>6 DEF CliInv, Types
  <2> QED BY <2>1, <2>2, <2>3 DEF CliInv, Types
<1>8. f \in StateFiles /\ Readable(f)' =>
        /\ Working(p) /\ x = StateOf(p) /\ f \in {"state.json", named_state_path(StateOf(p).name)}
      BY <1>4 DEF CliInv, OwnWrites, WriteOK
<1>9. \A s : Around(s)' => Around(s)
  <2> SUFFICES ASSUME NEW s, Held(s)' PROVE Around(s)
      BY <1>1, <1>2 DEF Around
  <2>1. PICK g \in StateFiles : Readable(g)' /\ s = disk'[g]
        BY DEF Held
  <2>2. CASE g = f
        BY <1>3, <1>8, <2>1, <2>2 DEF Around
  <2>3. CASE g # f
        BY <1>3, <2>1, <2>3, Files DEF Around, Held
  <2> QED BY <2>2, <2>3
<1>10. Grows
      BY <1>9 DEF Grows
<1>11. Known' /\ AckedSafe'
      BY <1>10, KnownStays, AckedStays DEF CliInv
<1>12. RegistrySafe'
  <2>1. CASE f = "airdrops.json"
    <3> SUFFICES ASSUME Readable(f)' PROVE SafeEntries(x)'
        BY <1>3, <2>1 DEF RegistrySafe, SafeEntries
    <3>1. SafeEntries(x)
          BY <1>4, <2>1 DEF CliInv, WritesSafe
    <3> QED BY <3>1, <1>10, EntriesStay DEF CliInv
  <2>2. CASE f # "airdrops.json"
    <3>1. "airdrops.json" \in AllFiles \ {f}
          BY <2>2 DEF AllFiles, SharedFiles
    <3> QED BY <3>1, <1>3, <1>10, RegistryStays DEF CliInv
  <2> QED BY <2>1, <2>2
<1>13. WritesSafe'
      BY <1>1, <1>2, <1>10, WritesStay DEF CliInv
<1>14. Apart'
      BY <1>1, <1>2, <1>c DEF CliInv, Apart
<1>15. Located'
  <2> SUFFICES ASSUME NEW file \in NamedFiles, Readable(file)'
               PROVE  named_state_path(disk'[file].name) = file
      BY DEF Located, named_state_path
  <2>1. file \in AllFiles /\ file \in StateFiles /\ file # "state.json"
        BY DEF CliAssumption, AllFiles, StateFiles, SharedFiles
  <2>2. CASE file = f
        BY <1>3, <1>8, <2>1, <2>2
  <2>3. CASE file # f
        BY <1>3, <2>1, <2>3 DEF CliInv, Located
  <2> QED BY <2>2, <2>3
<1>16. OwnWrites'
  <2>1. Working(p)' => process'[p].op \in StateOf(p)'.ops
        BY <1>1 DEF CliInv, OwnWrites
  <2>2. \A w \in Elements(process'[p].todo) : WriteOK(p, w)'
        BY <1>1 DEF CliInv, OwnWrites, WriteOK
  <2>3. \A q \in Processes \ {p} :
          /\ Working(q)' => process'[q].op \in StateOf(q)'.ops
          /\ process'[q] # Idle => \A w \in Elements(process'[q].todo) : WriteOK(q, w)'
        BY <1>2 DEF CliInv, OwnWrites, WriteOK
  <2> QED BY <2>1, <2>2, <2>3 DEF OwnWrites
<1>17. Written'
  <2> SUFFICES ASSUME NEW q \in Processes, process'[q].step \in {"save", "report"}, ~Contested(q)',
                      NEW file \in StateFiles, file \notin Left(q)', Readable(file)',
                      disk'[file].airdrop_id = StateOf(q)'.airdrop_id
               PROVE  StateOf(q)'.ops \subseteq disk'[file].ops
      BY DEF Written
  <2>1. /\ Working(q) /\ process[q].step \in {"save", "report"} /\ StateOf(q)' = StateOf(q)
        /\ ~Contested(q)
        BY <1>1, <1>2, <1>c DEF Working
  <2>2. CASE file # f
    <3>1. file \in AllFiles \ {f}
          BY <2>2, Files
    <3>2. file \notin Left(q)
          BY <1>1, <1>2, <2>2
    <3> QED BY <1>3, <2>1, <3>1, <3>2 DEF CliInv, Written
  <2>3. CASE file = f /\ q = p
        BY <1>3, <1>8, <2>1, <2>3
  <2>4. CASE file = f /\ q # p
    <3>1. Working(p) /\ StateOf(p).airdrop_id = StateOf(q).airdrop_id
          BY <1>3, <1>8, <2>1, <2>4
    <3> QED BY <2>1, <2>4, <3>1 DEF CliInv, Apart
  <2> QED BY <2>2, <2>3, <2>4
<1> QED BY <1>7, <1>11, <1>12, <1>13, <1>14, <1>15, <1>16, <1>17 DEF CliInv

-----------------------------------------------------------------------------
(* The actions.                                                             *)

\* A loaded state with one more operation that is not another airdrop's claim.
LEMMA Applied ==
    ASSUME CliAssumption, CliInv, NEW airdrop, NEW state \in Loaded(airdrop),
           NEW op \in Operations, op.kind = "claim" => op.id = state.airdrop_id
    PROVE  /\ Apply(state, op) \in OwnStates /\ op \in Apply(state, op).ops
           /\ Apply(state, op).name = state.name
           /\ Apply(state, op).airdrop_id = state.airdrop_id
           /\ Around(state) /\ state.ops \subseteq Apply(state, op).ops
<1>1. state \in OwnStates /\ state \in States /\ Around(state)
      BY LoadedIsHeld, HeldStates DEF CliInv, Around
<1>2. Apply(state, op) = [name |-> state.name, airdrop_id |-> state.airdrop_id, ops |-> state.ops \cup {op}]
      BY <1>1 DEF Apply, States
<1>3. state.name \in Names /\ state.airdrop_id \in Ids /\ state.ops \subseteq Operations
      /\ \A o \in state.ops : o.kind = "claim" => o.id = state.airdrop_id
      BY <1>1 DEF States, OwnStates
<1>4. [name |-> state.name, airdrop_id |-> state.airdrop_id, ops |-> state.ops \cup {op}] \in States
      BY <1>3 DEF States
<1> QED BY <1>1, <1>2, <1>3, <1>4 DEF OwnStates

\* A command that changes a loaded state begins.
LEMMA ChangeBegins ==
    ASSUME CliAssumption, CliInv, NEW p \in Processes, process[p] = Idle,
           NEW airdrop, NEW state \in Loaded(airdrop),
           NEW op \in Operations, op.kind = "claim" => op.id = state.airdrop_id,
           NEW tx \in ClaimFiles \cup {Absent},
           Start(p, Change(state, op, "submit", <<>>, tx))
    PROVE  CliInv'
<1> DEFINE c == Change(state, op, "submit", <<>>, tx)
<1>1. /\ Apply(state, op) \in OwnStates /\ op \in Apply(state, op).ops
      /\ Apply(state, op).name = state.name
      /\ Apply(state, op).airdrop_id = state.airdrop_id
      /\ Around(state) /\ state.ops \subseteq Apply(state, op).ops
      BY Applied
<1>2. /\ c.step = "submit" /\ c.state = Apply(state, op) /\ c.op = op /\ c.todo = <<>>
      BY DEF Change
<1>3. <<>> \in Seq(Writes)
      BY EmptySeq
<1>4. c \in Works
      BY <1>1, <1>3 DEF Change, Works
<1>5. Moves(p, c) /\ process[p] = Idle /\ attempts' = attempts + 1
      /\ drawn' = drawn \cup {c.state.airdrop_id} /\ UNCHANGED <<disk, acked>> /\ Noted(c)
      BY <1>2 DEF Start, Moves, Noted
<1>6. \A w \in Elements(c.todo) : w.file \notin StateFiles \cup {"airdrops.json"}
      BY <1>2, ElementsEmpty
<1> HIDE DEF c
<1> QED BY <1>1, <1>2, <1>4, <1>5, <1>6, Begun

LEMMA InitStep ==
    ASSUME CliAssumption, CliInv, NEW p \in Processes, process[p] = Idle, NEW name \in Names, NEW id \in Ids,
           init(p, name, id)
    PROVE  CliInv'
<1> DEFINE first == [name |-> name, airdrop_id |-> id, ops |-> {}]
           write == [file |-> "bundle.json", content |-> id]
<1>1. PICK op : op = [kind |-> "init", n |-> attempts]
      OBVIOUS
<1> DEFINE c == Change(first, op, "submit", <<write>>, Absent)
<1>2. op \in Operations /\ op.kind = "init"
      BY <1>1 DEF CliInv, Types, Operations
<1>3. id \notin drawn /\ Start(p, c)
      BY <1>1 DEF init
<1>4. /\ c.step = "submit" /\ c.state = [name |-> name, airdrop_id |-> id, ops |-> {op}]
      /\ c.op = op /\ c.todo = <<write>>
      BY DEF Change, Apply
<1>5. c.state \in OwnStates
  <2> DEFINE s == [name |-> name, airdrop_id |-> id, ops |-> {op}]
  <2>1. s \in States /\ s.ops = {op} /\ s.airdrop_id = id
        BY <1>2 DEF States
  <2>2. s \in OwnStates
    <3> HIDE DEF s
    <3> QED BY <1>2, <2>1 DEF OwnStates
  <2> QED BY <1>4, <2>2
<1>6. write \in Writes /\ write.file = "bundle.json"
      BY Contents DEF Writes, Texts, AllFiles, SharedFiles
<1> HIDE DEF write
<1>7. <<write>> \in Seq(Writes) /\ Elements(<<write>>) = {write}
      BY <1>6, ElementsOne
<1>8. c \in Works
      BY <1>2, <1>5, <1>7 DEF Change, Works
<1>9. \A w \in Elements(c.todo) : w.file \notin StateFiles \cup {"airdrops.json"}
      BY <1>4, <1>6, <1>7, Files
<1>10. c.state.name = name /\ c.state.airdrop_id = id /\ c.op \in c.state.ops
      BY <1>4
<1>11. Moves(p, c) /\ process[p] = Idle /\ attempts' = attempts + 1
       /\ drawn' = drawn \cup {c.state.airdrop_id} /\ UNCHANGED <<disk, acked>> /\ Noted(c)
      BY <1>3, <1>4 DEF Start, Moves, Noted
<1> HIDE DEF c
<1> QED BY <1>3, <1>4, <1>8, <1>9, <1>10, <1>11, Begun

LEMMA FundStep ==
    ASSUME CliAssumption, CliInv, NEW p \in Processes, process[p] = Idle, NEW airdrop, fund(p, airdrop)
    PROVE  CliInv'
<1>1. PICK op : op = [kind |-> "fund", n |-> attempts]
      OBVIOUS
<1>2. op \in Operations /\ op.kind = "fund"
      BY <1>1 DEF CliInv, Types, Operations
<1>3. PICK state \in Loaded(airdrop) :
        Start(p, Change(state, op, "submit", <<>>, Absent))
      BY <1>1 DEF fund
<1> QED BY <1>2, <1>3, ChangeBegins

LEMMA ClaimStep ==
    ASSUME CliAssumption, CliInv, NEW p \in Processes, process[p] = Idle, NEW airdrop, claim(p, airdrop)
    PROVE  CliInv'
<1>1. PICK state \in Loaded(airdrop) :
        /\ Readable("claim.tx") /\ (disk["claim.tx"].private \/ Readable("proof.json"))
        /\ CheckedClaim.id = state.airdrop_id
        /\ Start(p, Change(state, [kind |-> "claim", id |-> CheckedClaim.id, row |-> CheckedClaim.row],
                           "submit", <<>>, disk["claim.tx"]))
      BY DEF claim
<1>2. PICK op : op = [kind |-> "claim", id |-> CheckedClaim.id, row |-> CheckedClaim.row]
      OBVIOUS
<1>3. PICK tx : tx = disk["claim.tx"]
      OBVIOUS
<1>4. "claim.tx" \in AllFiles /\ "proof.json" \in AllFiles
      BY DEF AllFiles, SharedFiles
<1>5. tx \in ClaimFiles /\ CheckedClaim \in ClaimFiles
      BY <1>1, <1>3, <1>4, Contents DEF CliInv, Types, CheckedClaim
<1>6. op \in Operations /\ op.id = state.airdrop_id
      BY <1>1, <1>2, <1>5 DEF Operations, ClaimFiles
<1> QED BY <1>1, <1>2, <1>3, <1>5, <1>6, ChangeBegins

\* Neither prove nor prepare-claim-tx touches a state.
LEMMA ProvingBegins ==
    ASSUME CliAssumption, CliInv, NEW p \in Processes, process[p] = Idle,
           NEW c \in Provings, Moves(p, c),
           \A w \in Elements(c.todo) : w.file \in {"proof.json", "claim.tx"},
           attempts' = attempts + 1, UNCHANGED <<disk, drawn, acked, contested>>
    PROVE  CliInv'
<1>1. \A w \in Elements(c.todo) : w.file \notin StateFiles \cup {"airdrops.json"}
      BY Files
<1>2. attempts' \in Nat /\ acked' \in [Ids -> SUBSET Operations]
      BY DEF CliInv, Types
<1>3. Grows => AckedSafe'
      BY AckedStays DEF CliInv
<1> QED BY <1>1, <1>2, <1>3, Rested

LEMMA Claimings ==
    ASSUME CliAssumption, CliInv, NEW p \in Processes, process[p] = Idle, NEW tx \in ClaimFiles,
           NEW files, files = <<"proof.json", "claim.tx">> \/ files = <<"claim.tx">>,
           Claiming(p, tx, files)
    PROVE  CliInv'
<1> DEFINE todo == [i \in DOMAIN files |-> [file |-> files[i], content |-> tx]]
           c == [step |-> "prove", open |-> FALSE, todo |-> todo]
<1>1. /\ DOMAIN files \in {1 .. 1, 1 .. 2}
      /\ \A i \in DOMAIN files : files[i] \in {"proof.json", "claim.tx"}
      OBVIOUS
<1>2. \A f \in {"proof.json", "claim.tx"} : [file |-> f, content |-> tx] \in Writes
      BY Contents DEF Writes, Texts, AllFiles, SharedFiles
<1>3. todo \in [DOMAIN files -> Writes] /\ DOMAIN todo = DOMAIN files
      BY <1>1, <1>2
<1>4. \A S : Seq(S) = UNION {[1 .. n -> S] : n \in Nat}
      BY SeqDef
<1>5. todo \in Seq(Writes)
  <2>1. 1 \in Nat /\ 2 \in Nat
        OBVIOUS
  <2> HIDE DEF todo
  <2> QED BY <1>1, <1>3, <1>4, <2>1
<1>6. \A w \in Elements(todo) : w.file \in {"proof.json", "claim.tx"}
      BY <1>1, <1>3 DEF Elements
<1>7. Start(p, c)
      BY DEF Claiming
<1> HIDE DEF todo
<1>8. c \in Provings /\ c.todo = todo /\ c.step = "prove"
      BY <1>5 DEF Provings
<1>9. /\ Moves(p, c) /\ process[p] = Idle /\ attempts' = attempts + 1
      /\ UNCHANGED <<disk, drawn, acked, contested>>
      BY <1>7, <1>8 DEF Start, Moves
<1> HIDE DEF c
<1> QED BY <1>6, <1>8, <1>9, ProvingBegins

LEMMA ProveStep ==
    ASSUME CliAssumption, CliInv, NEW p \in Processes, process[p] = Idle, NEW airdrop, NEW row \in Rows,
           NEW private \in Packets,
           prove(p, airdrop, row, private) \/ prepare_claim_tx(p, airdrop, row, private)
    PROVE  CliInv'
<1>1. PICK state \in Loaded(airdrop) : disk["bundle.json"] = state.airdrop_id
      BY DEF prove, prepare_claim_tx, prepare_checked_claim
<1>2. disk["bundle.json"] \in Ids /\ private \in BOOLEAN
      BY <1>1, LoadedIsHeld, HeldStates DEF CliInv, CliAssumption
<1>3. \A receipt \in BOOLEAN :
        [id |-> disk["bundle.json"], row |-> row, private |-> private, receipt |-> receipt] \in ClaimFiles
      BY <1>2 DEF ClaimFiles
<1>4. CASE prove(p, airdrop, row, private)
  <2>1. PICK tx : tx = [id |-> disk["bundle.json"], row |-> row, private |-> private, receipt |-> TRUE]
        OBVIOUS
  <2> QED BY <1>3, <1>4, <2>1, Claimings DEF prove
<1>5. CASE prepare_claim_tx(p, airdrop, row, private)
  <2>1. PICK receipt \in BOOLEAN :
          Claiming(p, [id |-> disk["bundle.json"], row |-> row, private |-> private,
                       receipt |-> receipt], <<"claim.tx">>)
        BY <1>5 DEF prepare_claim_tx
  <2>2. PICK tx : tx = [id |-> disk["bundle.json"], row |-> row, private |-> private, receipt |-> receipt]
        OBVIOUS
  <2> QED BY <1>3, <2>1, <2>2, Claimings
<1> QED BY <1>4, <1>5

LEMMA TruncateStep ==
    ASSUME CliAssumption, CliInv, NEW p \in Processes, truncate(p)
    PROVE  CliInv'
<1>1. process[p] # Idle /\ process[p].todo # <<>> /\ process[p] \in Works \cup Provings
      /\ process[p].todo \in Seq(Writes)
      BY Shape DEF truncate, CliInv
<1>2. PICK c : c = [process[p] EXCEPT !.open = TRUE]
      OBVIOUS
<1>3. /\ c \in Works \cup Provings /\ c.step = process[p].step /\ c.todo = process[p].todo
      /\ Working(p) => c.state = StateOf(p) /\ c.op = process[p].op
      BY <1>1, <1>2 DEF Works, Provings, Working, StateOf
<1>4. Moves(p, c)
      BY <1>2 DEF truncate, Moves
<1>5. PICK f : f = Head(process[p].todo).file
      OBVIOUS
<1>6. f \in AllFiles
      BY <1>1, <1>5, HeadTailProperties DEF Writes
<1>7. disk' = [disk EXCEPT ![f] = Torn] /\ UNCHANGED <<attempts, drawn, acked, contested>>
      BY <1>5 DEF truncate
<1>8. Left(p) \subseteq {w.file : w \in Elements(c.todo)} \cup {f}
      BY <1>3 DEF Left
<1> QED BY <1>1, <1>3, <1>4, <1>6, <1>7, <1>8, Wrote

LEMMA FillStep ==
    ASSUME CliAssumption, CliInv, NEW p \in Processes, fill(p)
    PROVE  CliInv'
<1>1. process[p] # Idle /\ process[p].todo # <<>> /\ process[p] \in Works \cup Provings
      /\ process[p].todo \in Seq(Writes)
      BY Shape DEF fill, CliInv
<1>2. PICK c : c = [process[p] EXCEPT !.open = FALSE, !.todo = Tail(process[p].todo)]
      OBVIOUS
<1>3. PICK write : write = Head(process[p].todo)
      OBVIOUS
<1>4. /\ Tail(process[p].todo) \in Seq(Writes) /\ write \in Elements(process[p].todo)
      /\ Elements(Tail(process[p].todo)) \subseteq Elements(process[p].todo)
      /\ Elements(process[p].todo) \subseteq Elements(Tail(process[p].todo)) \cup {write}
      BY <1>1, <1>3, ElementsTail
<1>5. /\ c \in Works \cup Provings /\ c.step = process[p].step /\ c.todo = Tail(process[p].todo)
      /\ Working(p) => c.state = StateOf(p) /\ c.op = process[p].op
      BY <1>1, <1>2, <1>4 DEF Works, Provings, Working, StateOf
<1>6. Moves(p, c)
      BY <1>1, <1>2 DEF fill, Moves
<1>7. write.file \in AllFiles
      BY <1>1, <1>3, HeadTailProperties DEF Writes
<1>8. PICK x : disk' = [disk EXCEPT ![write.file] = x] /\ (x = Torn \/ x = write.content)
  <2>1. \E mixed \in BOOLEAN :
          disk' = [disk EXCEPT ![write.file] = IF mixed THEN Torn ELSE write.content]
        BY <1>3 DEF fill
  <2> QED BY <2>1
<1>9. UNCHANGED <<attempts, drawn, acked, contested>>
      BY DEF fill
<1>10. Left(p) \subseteq {w.file : w \in Elements(c.todo)} \cup {write.file}
      BY <1>4, <1>5 DEF Left
<1> QED BY <1>1, <1>4, <1>5, <1>6, <1>7, <1>8, <1>9, <1>10, Wrote

\* Between the submission and the end of its writes, a command may be found
\* ahead of the two files of its airdrop and of no other.
LEMMA SubmitStep ==
    ASSUME CliAssumption, CliInv, NEW p \in Processes, submit(p)
    PROVE  CliInv'
<1>1. Working(p) /\ process[p].step = "submit"
      BY DEF submit, At, Working
<1>2. process[p] \in Works /\ StateOf(p) \in OwnStates /\ StateOf(p).name \in Names
      BY <1>1, Shape, WorkShape DEF CliInv
<1>3. PICK tx \in ClaimFiles \cup {Absent} :
        process' = [process EXCEPT ![p].step = "save", ![p].todo = save_state(process[p].state),
                                   ![p].tx = tx]
  <2>1. "claim.tx" \in AllFiles
        BY DEF AllFiles, SharedFiles
  <2>2. process[p].op.kind = "claim" => disk["claim.tx"] \in ClaimFiles
        BY <2>1, Contents DEF submit, Submittable, CliInv, Types
  <2> QED BY <2>2 DEF submit
<1> DEFINE current == [file |-> "state.json", content |-> StateOf(p)]
           named == [file |-> named_state_path(StateOf(p).name), content |-> StateOf(p)]
<1>4. /\ current \in Writes /\ current.file = "state.json" /\ current.content = StateOf(p)
      /\ named \in Writes /\ named.file = named_state_path(StateOf(p).name)
      /\ named.content = StateOf(p)
  <2>1. /\ "state.json" \in StateFiles /\ named_state_path(StateOf(p).name) \in StateFiles
        /\ StateFiles \subseteq AllFiles
        BY <1>2, Files DEF StateFiles
  <2> QED BY <1>2, <2>1, Contents DEF Writes, Texts
<1>5. save_state(process[p].state) = <<current, named>>
      BY DEF save_state, StateOf
<1> HIDE DEF current, named
<1>6. <<current, named>> \in Seq(Writes) /\ Elements(<<current, named>>) = {current, named}
      BY <1>4, ElementsTwo
<1>7. PICK c : c = [process[p] EXCEPT !.step = "save", !.todo = <<current, named>>, !.tx = tx]
      OBVIOUS
<1>8. /\ c \in Works /\ c.state = StateOf(p) /\ c.op = process[p].op
      /\ c.todo = <<current, named>>
      BY <1>2, <1>6, <1>7 DEF Works, StateOf
<1>9. Moves(p, c)
      BY <1>3, <1>5, <1>7 DEF Moves
<1>10. {w.file : w \in Elements(c.todo)} = {"state.json", named_state_path(StateOf(p).name)}
      BY <1>4, <1>6, <1>8
<1>11. ASSUME NEW file \in StateFiles \ {w.file : w \in Elements(c.todo)},
              Readable(file), disk[file].airdrop_id = c.state.airdrop_id
       PROVE  FALSE
  <2>1. disk[file].name = StateOf(p).name
        BY <1>1, <1>8, <1>11 DEF CliInv, Known, Around, Held
  <2>2. file \in NamedFiles
        BY <1>10, <1>11 DEF StateFiles
  <2> QED BY <1>10, <1>11, <2>1, <2>2 DEF CliInv, Located
<1>12. \A w \in Elements(c.todo) : w.file \in StateFiles =>
         w.content = c.state /\ w.file \in {"state.json", named_state_path(c.state.name)}
      BY <1>4, <1>6, <1>8
<1>13. \A w \in Elements(c.todo) : w.file # "airdrops.json"
      BY <1>2, <1>4, <1>6, <1>8, Files
<1>14. UNCHANGED <<disk, attempts, drawn, acked, contested>>
      BY DEF submit
<1> QED BY <1>1, <1>8, <1>9, <1>11, <1>12, <1>13, <1>14, Continued

\* Both files written and no rival met, every state of the airdrop counts what the
\* command did.
LEMMA WrittenIsSafe ==
    ASSUME CliAssumption, CliInv, NEW p \in Processes, ~Contested(p),
           process[p].step \in {"save", "report"}, process[p].todo = <<>>
    PROVE  Safe(StateOf(p).airdrop_id, StateOf(p).ops)
<1>1. Working(p) /\ Left(p) = {}
      BY ElementsEmpty DEF Working, Left
<1>2. StateOf(p).airdrop_id \in drawn
      BY <1>1 DEF CliInv, Known, Around
<1>3. ASSUME NEW s, Around(s), s.airdrop_id = StateOf(p).airdrop_id
      PROVE  StateOf(p).ops \subseteq s.ops
  <2>1. CASE Held(s)
        BY <1>1, <1>3, <2>1 DEF Held, CliInv, Written
  <2>2. ASSUME NEW q \in Processes, Working(q), s = StateOf(q)
        PROVE  StateOf(p).ops \subseteq s.ops
    <3>1. q = p
          BY <1>1, <1>3, <2>2 DEF CliInv, Apart
    <3> QED BY <2>2, <3>1
  <2> QED BY <1>3, <2>1, <2>2 DEF Around
<1> QED BY <1>2, <1>3 DEF Safe

LEMMA UpsertStep ==
    ASSUME CliAssumption, CliInv, NEW p \in Processes, upsert_registry(p)
    PROVE  CliInv'
<1>1. Working(p) /\ process[p].step = "save" /\ process[p].todo = <<>>
      BY DEF upsert_registry, At, Working
<1>2. process[p] \in Works /\ StateOf(p) \in States
      BY <1>1, Shape, WorkShape DEF CliInv
<1> DEFINE entries == {e \in load_registry : e.airdrop_id # StateOf(p).airdrop_id
                                               /\ e.name # StateOf(p).name} \cup {StateOf(p)}
           write == [file |-> "airdrops.json", content |-> entries]
<1>3. load_registry \subseteq States /\ SafeEntries(load_registry)
  <2>1. CASE disk["airdrops.json"] = Absent
        BY <2>1 DEF load_registry, SafeEntries
  <2>2. CASE disk["airdrops.json"] # Absent
    <3>1. Readable("airdrops.json") /\ "airdrops.json" \in AllFiles
          BY <2>2 DEF upsert_registry, Readable, AllFiles, SharedFiles
    <3> QED BY <2>2, <3>1, Contents DEF load_registry, CliInv, Types, RegistrySafe
  <2> QED BY <2>1, <2>2
<1>4. SafeEntries(entries)
  <2>1. Quiet(StateOf(p).airdrop_id) => ~Contested(p)
        BY DEF Quiet, Contested
  <2> QED BY <1>1, <1>3, <2>1, WrittenIsSafe DEF SafeEntries
<1>5. write \in Writes /\ write.file = "airdrops.json" /\ write.content = entries
  <2>1. entries \in SUBSET States
        BY <1>2, <1>3
  <2> HIDE DEF entries
  <2> QED BY <2>1, Contents DEF Writes, Texts, AllFiles, SharedFiles
<1>6. process' = [process EXCEPT ![p].step = "report", ![p].todo = <<write>>]
      /\ UNCHANGED <<disk, attempts, drawn, acked, contested>>
      BY DEF upsert_registry, Continue, StateOf
<1> HIDE DEF entries, write
<1>7. <<write>> \in Seq(Writes) /\ Elements(<<write>>) = {write}
      BY <1>5, ElementsOne
<1>8. PICK c : c = [process[p] EXCEPT !.step = "report", !.todo = <<write>>]
      OBVIOUS
<1>9. c \in Works /\ c.state = StateOf(p) /\ c.op = process[p].op /\ c.todo = <<write>>
      BY <1>2, <1>7, <1>8 DEF Works, StateOf
<1>10. Moves(p, c)
      BY <1>6, <1>8 DEF Moves
<1>11. \A w \in Elements(c.todo) : w.file \notin StateFiles /\ SafeEntries(w.content)
      BY <1>4, <1>5, <1>7, <1>9, Files
<1>12. ~Contested(p) => \A file \in StateFiles :
         Readable(file) /\ disk[file].airdrop_id = c.state.airdrop_id
           => c.state.ops \subseteq disk[file].ops
  <2>1. Left(p) = {}
        BY <1>1, ElementsEmpty DEF Left
  <2> QED BY <1>1, <1>9, <2>1 DEF CliInv, Written
<1> QED BY <1>1, <1>6, <1>9, <1>10, <1>11, <1>12, Continued

LEMMA EndStep ==
    ASSUME CliAssumption, CliInv, NEW p \in Processes,
           report(p) \/ proved(p) \/ fail(p) \/ crash(p)
    PROVE  CliInv'
<1>1. Moves(p, Idle) /\ UNCHANGED <<disk, attempts, drawn, contested>>
      BY DEF report, proved, fail, crash, End, Moves
<1>2. attempts' \in Nat
      BY <1>1 DEF CliInv, Types
<1>3. CASE UNCHANGED acked
      BY <1>1, <1>2, <1>3, Rested, AckedStays DEF CliInv, Types
<1>4. CASE report(p)
  <2>1. Working(p) /\ process[p].step = "report" /\ process[p].todo = <<>>
        BY <1>4 DEF report, At, Working
  <2>2. PICK id, op : id = StateOf(p).airdrop_id /\ op = process[p].op
        OBVIOUS
  <2>3. id \in Ids /\ op \in Operations /\ op \in StateOf(p).ops
        BY <2>1, <2>2, WorkShape DEF CliInv, OwnWrites
  <2>4. acked' = [acked EXCEPT ![id] = @ \cup ({op} \ contested[id])]
        BY <1>4, <2>2 DEF report, StateOf
  <2>5. acked' \in [Ids -> SUBSET Operations] /\ acked'[id] = acked[id] \cup ({op} \ contested[id])
        /\ \A i \in Ids \ {id} : acked'[i] = acked[i]
        BY <2>3, <2>4 DEF CliInv, Types
  <2>6. Safe(id, {op} \ contested[id])
    <3>1. CASE Contested(p)
          BY <2>2, <3>1 DEF Contested, Safe
    <3>2. CASE ~Contested(p)
          BY <2>1, <2>2, <2>3, <3>2, WrittenIsSafe DEF Safe
    <3> QED BY <3>1, <3>2
  <2>7. ASSUME Grows PROVE AckedSafe'
    <3> SUFFICES ASSUME NEW i \in Ids PROVE Safe(i, acked[i])'
        BY DEF AckedSafe
    <3>1. PICK ops, own : ops = acked[i] /\ own = {op} \ contested[id]
          OBVIOUS
    <3>2. Safe(i, ops)' /\ Safe(id, own)'
          BY <2>6, <2>7, <3>1, SafeStays DEF CliInv, AckedSafe
    <3>3. acked'[i] \subseteq ops \cup (IF i = id THEN own ELSE {})
          BY <2>3, <2>5, <3>1
    <3> QED BY <3>2, <3>3 DEF Safe
  <2> QED BY <1>1, <1>2, <2>5, <2>7, Rested
<1> QED BY <1>3, <1>4 DEF proved, fail, crash

-----------------------------------------------------------------------------
(* The invariant and what follows.                                          *)

LEMMA CliInvInit ==
    ASSUME CliAssumption, CliInit
    PROVE  CliInv
<1>1. /\ \A file \in AllFiles : ~Readable(file)
      /\ \A p \in Processes : process[p] = Idle /\ ~Working(p)
      BY DEF CliInit, AllFiles, Readable, Working, Idle
<1>2. \A file \in StateFiles : ~Readable(file)
      BY <1>1, Files
<1>3. \A s : ~Around(s)
      BY <1>1, <1>2 DEF Around, Held
<1>4. Types
      BY <1>1 DEF CliInit, Types, AllFiles
<1>5. Known /\ Apart /\ OwnWrites /\ WritesSafe
      BY <1>1, <1>3 DEF Known, Apart, OwnWrites, WritesSafe
<1>6. Located /\ Written
      BY <1>1, <1>2 DEF Located, Written, Idle, StateFiles
<1>7. AckedSafe /\ RegistrySafe
      BY <1>1, <1>3 DEF CliInit, AckedSafe, RegistrySafe, Safe, AllFiles, SharedFiles
<1> QED BY <1>4, <1>5, <1>6, <1>7 DEF CliInv

LEMMA CliInvStays ==
    ASSUME CliAssumption, CliInv, NEW p \in Processes, CliStart(p) \/ CliWork(p)
    PROVE  CliInv'
<1>1. CASE process[p] = Idle /\ \E name \in Names, id \in Ids : init(p, name, id)
      BY <1>1, InitStep
<1>2. CASE process[p] = Idle /\ \E airdrop \in Names \cup Ids : fund(p, airdrop)
      BY <1>2, FundStep
<1>3. CASE process[p] = Idle /\ \E airdrop \in Names \cup Ids : claim(p, airdrop)
      BY <1>3, ClaimStep
<1>4. CASE process[p] = Idle /\ \E airdrop \in Names \cup Ids, row \in Rows, private \in Packets :
             prove(p, airdrop, row, private) \/ prepare_claim_tx(p, airdrop, row, private)
      BY <1>4, ProveStep
<1>5. CASE truncate(p)
      BY <1>5, TruncateStep
<1>6. CASE fill(p)
      BY <1>6, FillStep
<1>7. CASE submit(p)
      BY <1>7, SubmitStep
<1>8. CASE upsert_registry(p)
      BY <1>8, UpsertStep
<1>9. CASE report(p) \/ proved(p) \/ fail(p) \/ crash(p)
      BY <1>9, EndStep
<1> QED BY <1>1, <1>2, <1>3, <1>4, <1>5, <1>6, <1>7, <1>8, <1>9 DEF CliStart, CliWork

\* The inductive invariant: types, one owner per airdrop id, own writes, and
\* every reported or registered operation in all states of its airdrop.
THEOREM CliInvariant == CliSpec => []CliInv
<1>1. CliInit => CliInv
      BY CliInvInit, CliAssumption
<1>2. CliInv /\ [CliNext]_cliVars => CliInv'
  <2> SUFFICES ASSUME CliInv, [CliNext]_cliVars PROVE CliInv'
      OBVIOUS
  <2>1. CASE CliNext
        BY <2>1, CliInvStays, CliAssumption DEF CliNext
  <2>2. CASE UNCHANGED cliVars
    <3>1. Types' /\ Located'
          BY <2>2 DEF cliVars, CliInv, Types, Located, Readable
    <3>2. \A s : Around(s)' <=> Around(s)
          BY <2>2 DEF cliVars, Around, Held, Readable, Working, StateOf
    <3>3. Known' /\ AckedSafe'
          BY <2>2, <3>2 DEF cliVars, CliInv, Known, AckedSafe, Safe
    <3>4. Grows
          BY <2>2, <3>2 DEF cliVars, Grows
    <3>5. RegistrySafe' /\ WritesSafe'
          BY <2>2, <3>4, RegistryStays, WritesStay DEF cliVars, CliInv, Readable
    <3>6. Apart' /\ OwnWrites'
          BY <2>2 DEF cliVars, CliInv, Apart, Contested, OwnWrites, WriteOK, Working, StateOf
    <3>7. Written'
          BY <2>2 DEF cliVars, CliInv, Written, Contested, Left, StateOf, Readable
    <3> QED BY <3>1, <3>3, <3>5, <3>6, <3>7 DEF CliInv
  <2> QED BY <2>1, <2>2
<1> QED BY <1>1, <1>2, PTL DEF CliSpec

\* A file that parses is of its kind, whoever wrote, overwrote or left it half
\* written (load_state_for, read_json).
THEOREM CliTypeCorrect == CliSpec => []CliTypeOK
<1>1. CliInv => CliTypeOK
  <2> SUFFICES ASSUME CliInv PROVE CliTypeOK
      OBVIOUS
  <2>1. \A file \in NamedFiles \cup {"state.json"} : Readable(file) => disk[file] \in States
        BY CliAssumption, Files, Contents DEF CliInv, Types, StateFiles, OwnStates
  <2>2. SharedFiles \subseteq AllFiles
        BY DEF AllFiles
  <2> QED BY <2>1, <2>2, CliAssumption, Contents DEF CliTypeOK, CliInv, Types, SharedFiles
<1> QED BY <1>1, CliInvariant, PTL

\* However many airdrops share the files, a state counts only the claims of its
\* own airdrop (ensure_airdrop, claim's E_AIRDROP_ID_MISMATCH).
THEOREM OwnClaimsOnly == CliSpec => []OnlyOwnClaims
<1>1. CliInv => OnlyOwnClaims
      BY CliAssumption, Files, Contents DEF CliInv, Types, StateFiles, OwnStates, OnlyOwnClaims
<1> QED BY <1>1, CliInvariant, PTL

\* However commands overlap and wherever one is killed, the state a later command
\* loads has every operation that was reported OK by a command no other on its
\* airdrop overlapped (save_state, load_state_for).
THEOREM AckedIsKept == CliSpec => []NoAckedLost
<1>1. CliInv => NoAckedLost
  <2> SUFFICES ASSUME CliInv, NEW airdrop, NEW state \in Loaded(airdrop)
               PROVE  acked[state.airdrop_id] \subseteq state.ops
      BY DEF NoAckedLost
  <2>1. Around(state) /\ state.airdrop_id \in Ids
        BY CliAssumption, LoadedIsHeld, HeldStates DEF CliInv, Around
  <2> QED BY <2>1 DEF CliInv, AckedSafe, Safe
<1> QED BY <1>1, CliInvariant, PTL

\* The registry never counts an operation the state of the airdrop does not, as
\* long as no two commands on the airdrop have overlapped, whatever those on other
\* airdrops do (upsert_registry after save_state).
THEOREM RegistryIsBehind == CliSpec => []RegistryNeverAhead
<1>1. CliInv => RegistryNeverAhead
  <2> SUFFICES ASSUME CliInv, Readable("airdrops.json"), NEW entry \in disk["airdrops.json"],
                      NEW state \in Loaded(entry.airdrop_id), contested[entry.airdrop_id] = {}
               PROVE  entry.ops \subseteq state.ops
      BY DEF RegistryNeverAhead
  <2>1. Around(state) /\ state.name \in Names /\ ensure_airdrop(state, entry.airdrop_id)
        BY CliAssumption, LoadedIsHeld, HeldStates DEF CliInv, Around
  <2>2. entry.airdrop_id \in Ids
    <3>1. "airdrops.json" \in AllFiles
          BY DEF AllFiles, SharedFiles
    <3> QED BY <3>1, CliAssumption, Contents DEF CliInv, Types, States
  <2>3. state.airdrop_id = entry.airdrop_id
        BY <2>1, <2>2, CliAssumption DEF ensure_airdrop, CliAssumption
  <2>4. Safe(entry.airdrop_id, entry.ops)
        BY <2>2 DEF CliInv, RegistrySafe, SafeEntries, Quiet
  <2> QED BY <2>1, <2>3, <2>4 DEF Safe
<1> QED BY <1>1, CliInvariant, PTL

-----------------------------------------------------------------------------
(* One command at a time.  Then nobody writes claim.tx between the two times *)
(* claim reads it, a file being written is torn until it is filled, and when *)
(* none is killed every named copy gets the registry entry it is found by.   *)

OneAtATime == \A p, q \in Processes : p = q

\* The claim in claim.tx is still the one the command read, and the one it records.
ClaimSent(c) ==
    c.op.kind = "claim" =>
      /\ c.step = "submit" =>
           /\ c.todo = <<>> /\ c.tx = disk["claim.tx"]
           /\ c.tx.private => c.tx.id = c.op.id /\ c.tx.row = c.op.row
      /\ c.step \in {"save", "report"} => c.tx.id = c.op.id /\ c.tx.row = c.op.row

SentInv == \A p \in Processes : Working(p) => ClaimSent(process[p])

\* The entries name the airdrop of every copy among the files.
Listed(entries, files) ==
    \A file \in files : Readable(file) =>
      \E e \in entries : e.name = disk[file].name /\ e.airdrop_id = disk[file].airdrop_id

\* How a command finds the files and how it leaves them.
Settled ==
    /\ disk["airdrops.json"] # Torn
    /\ Listed(load_registry, NamedFiles)
    /\ Readable("state.json") =>
         disk[named_state_path(disk["state.json"].name)] = disk["state.json"]

OwnFiles(c) == {"state.json", named_state_path(c.state.name)}
ToWrite(c) == {w.file : w \in Elements(c.todo)}

\* In between: its two files have its state once written, and its registry entry
\* comes before the end.
Progress(c) ==
    /\ c.step \in {"submit", "prove"} =>
         Settled /\ ToWrite(c) \cap (StateFiles \cup {"airdrops.json"}) = {}
    /\ c.step \in {"save", "report"} =>
         \A file \in OwnFiles(c) \ ToWrite(c) : disk[file] = c.state
    /\ c.step = "save" =>
         /\ ToWrite(c) \subseteq OwnFiles(c)
         /\ disk["airdrops.json"] # Torn
         /\ Listed(load_registry, NamedFiles \ OwnFiles(c))
    /\ c.step = "report" =>
         /\ ToWrite(c) \subseteq {"airdrops.json"}
         /\ \A w \in Elements(c.todo) : Listed(w.content, NamedFiles) /\ w.content \in SUBSET States
         /\ c.todo = <<>> => disk["airdrops.json"] # Torn /\ Listed(load_registry, NamedFiles)
    /\ c.open => c.todo # <<>> /\ disk[Head(c.todo).file] = Torn

FilesInv ==
    /\ (\A p \in Processes : process[p] = Idle) => Settled
    /\ \A p \in Processes : process[p] # Idle => Progress(process[p])

\* Stand for a missing and an unreadable file, which no list of states is.
NoTexts == Absent \notin SUBSET States /\ Torn \notin SUBSET States

\* What every command is when it starts.
Started(p, c) ==
    /\ process[p] = Idle /\ Moves(p, c) /\ UNCHANGED disk
    /\ c # Idle /\ c.step \in {"submit", "prove"} /\ c.open = FALSE
    /\ ToWrite(c) \cap (StateFiles \cup {"airdrops.json"}) = {}
    /\ c.step = "submit" => ClaimSent(c)

\* A command that loads a state has nothing to write before the submission.
LEMMA ChangeStarts ==
    ASSUME CliAssumption, NEW p \in Processes, process[p] = Idle, NEW state, NEW op, NEW tx,
           Start(p, Change(state, op, "submit", <<>>, tx)),
           op.kind = "claim" =>
             /\ tx = disk["claim.tx"]
             /\ tx.private => tx.id = op.id /\ tx.row = op.row
    PROVE  \E c : Started(p, c)
<1>1. PICK c : c = Change(state, op, "submit", <<>>, tx)
      OBVIOUS
<1>2. /\ c.step = "submit" /\ c.op = op /\ c.todo = <<>> /\ c.tx = tx /\ c.open = FALSE
      /\ c # Idle
      BY <1>1 DEF Change, Idle
<1>3. process[p] = Idle /\ Moves(p, c) /\ UNCHANGED disk
      BY <1>1 DEF Start, Moves
<1>4. ToWrite(c) = {}
      BY <1>2, ElementsEmpty DEF ToWrite
<1> QED BY <1>2, <1>3, <1>4 DEF Started, ClaimSent

LEMMA InitStarts ==
    ASSUME CliAssumption, NEW p \in Processes, process[p] = Idle, NEW name \in Names, NEW id \in Ids,
           init(p, name, id)
    PROVE  \E c : Started(p, c)
<1>1. PICK op : op = [kind |-> "init", n |-> attempts]
      OBVIOUS
<1>2. PICK w : w = [file |-> "bundle.json", content |-> id]
      OBVIOUS
<1>3. PICK c : c = Change([name |-> name, airdrop_id |-> id, ops |-> {}], op, "submit", <<w>>, Absent)
      OBVIOUS
<1>4. /\ c.step = "submit" /\ c.op = op /\ c.todo = <<w>> /\ c.open = FALSE /\ c # Idle
      BY <1>3 DEF Change, Idle
<1>5. process[p] = Idle /\ Moves(p, c) /\ UNCHANGED disk
      BY <1>1, <1>2, <1>3 DEF init, Start, Moves
<1>6. Elements(<<w>>) = {w}
      BY ElementsOne
<1>7. ToWrite(c) = {"bundle.json"}
      BY <1>2, <1>4, <1>6 DEF ToWrite
<1>8. op.kind # "claim"
      BY <1>1
<1> QED BY <1>4, <1>5, <1>7, <1>8, Files DEF Started, ClaimSent

LEMMA FundStarts ==
    ASSUME CliAssumption, NEW p \in Processes, process[p] = Idle, NEW airdrop, fund(p, airdrop)
    PROVE  \E c : Started(p, c)
<1>1. PICK op : op = [kind |-> "fund", n |-> attempts]
      OBVIOUS
<1>2. PICK state \in Loaded(airdrop) : Start(p, Change(state, op, "submit", <<>>, Absent))
      BY <1>1 DEF fund
<1>3. op.kind # "claim"
      BY <1>1
<1> QED BY <1>2, <1>3, ChangeStarts

LEMMA ClaimStarts ==
    ASSUME CliAssumption, NEW p \in Processes, process[p] = Idle, NEW airdrop, claim(p, airdrop)
    PROVE  \E c : Started(p, c)
<1>1. PICK tx, op : tx = disk["claim.tx"] /\ op = [kind |-> "claim", id |-> CheckedClaim.id, row |-> CheckedClaim.row]
      OBVIOUS
<1>2. PICK state \in Loaded(airdrop) : Start(p, Change(state, op, "submit", <<>>, tx))
      BY <1>1 DEF claim
<1>3. tx.private => tx.id = op.id /\ tx.row = op.row
      BY <1>1 DEF CheckedClaim
<1> QED BY <1>1, <1>2, <1>3, ChangeStarts

LEMMA ClaimingStarts ==
    ASSUME CliAssumption, NEW p \in Processes, process[p] = Idle, NEW tx,
           NEW files, files = <<"proof.json", "claim.tx">> \/ files = <<"claim.tx">>,
           Claiming(p, tx, files)
    PROVE  \E c : Started(p, c)
<1>1. PICK todo : todo = [i \in DOMAIN files |-> [file |-> files[i], content |-> tx]]
      OBVIOUS
<1>2. PICK c : c = [step |-> "prove", open |-> FALSE, todo |-> todo]
      OBVIOUS
<1>3. \A i \in DOMAIN files : files[i] \in {"proof.json", "claim.tx"}
      OBVIOUS
<1>4. \A i \in DOMAIN todo : todo[i].file \in {"proof.json", "claim.tx"}
      BY <1>1, <1>3
<1>5. c.step = "prove" /\ c.open = FALSE /\ c.todo = todo /\ c # Idle
      BY <1>2 DEF Idle
<1>6. process[p] = Idle /\ Moves(p, c) /\ UNCHANGED disk
      BY <1>1, <1>2 DEF Claiming, Start, Moves
<1>7. ToWrite(c) \subseteq {"proof.json", "claim.tx"}
      BY <1>4, <1>5 DEF ToWrite, Elements
<1> QED BY <1>5, <1>6, <1>7, Files DEF Started

LEMMA ProveStarts ==
    ASSUME CliAssumption, NEW p \in Processes, process[p] = Idle, NEW airdrop, NEW row \in Rows,
           NEW private \in Packets,
           prove(p, airdrop, row, private) \/ prepare_claim_tx(p, airdrop, row, private)
    PROVE  \E c : Started(p, c)
<1>1. CASE prove(p, airdrop, row, private)
  <2>1. PICK tx : tx = [id |-> disk["bundle.json"], row |-> row, private |-> private, receipt |-> TRUE]
        OBVIOUS
  <2> QED BY <1>1, <2>1, ClaimingStarts DEF prove
<1>2. CASE prepare_claim_tx(p, airdrop, row, private)
  <2>1. PICK receipt \in BOOLEAN :
          Claiming(p, [id |-> disk["bundle.json"], row |-> row, private |-> private,
                       receipt |-> receipt], <<"claim.tx">>)
        BY <1>2 DEF prepare_claim_tx
  <2>2. PICK tx : tx = [id |-> disk["bundle.json"], row |-> row, private |-> private, receipt |-> receipt]
        OBVIOUS
  <2> QED BY <2>1, <2>2, ClaimingStarts
<1> QED BY <1>1, <1>2

LEMMA CommandStarts ==
    ASSUME CliAssumption, NEW p \in Processes, CliStart(p)
    PROVE  \E c : Started(p, c)
BY InitStarts, FundStarts, ClaimStarts, ProveStarts DEF CliStart

\* What a command becomes by its own steps.
LEMMA Opened ==
    ASSUME CliAssumption, CliInv, NEW p \in Processes, truncate(p)
    PROVE  /\ process[p].todo # <<>> /\ process[p].todo \in Seq(Writes) /\ process[p] # Idle
           /\ disk' = [disk EXCEPT ![Head(process[p].todo).file] = Torn]
           /\ \E c : /\ Moves(p, c) /\ c # Idle /\ c.step = process[p].step /\ c.open = TRUE
                     /\ c.todo = process[p].todo
                     /\ Working(p) => /\ c.state = StateOf(p) /\ c.op = process[p].op
                                      /\ c.tx = process[p].tx
<1>1. process[p] # Idle /\ process[p].todo # <<>> /\ process[p] \in Works \cup Provings
      /\ process[p].todo \in Seq(Writes) /\ process[p].step # "idle"
      BY Shape DEF truncate, CliInv
<1>2. PICK c : c = [process[p] EXCEPT !.open = TRUE]
      OBVIOUS
<1>3. /\ c.step = process[p].step /\ c.todo = process[p].todo /\ c.open = TRUE
      /\ Working(p) => /\ c.state = StateOf(p) /\ c.op = process[p].op /\ c.tx = process[p].tx
      BY <1>1, <1>2 DEF Works, Provings, Working, StateOf
<1>4. Moves(p, c) /\ disk' = [disk EXCEPT ![Head(process[p].todo).file] = Torn]
      BY <1>2 DEF truncate, Moves
<1>5. c # Idle
      BY <1>1, <1>3 DEF Idle
<1> QED BY <1>1, <1>3, <1>4, <1>5

LEMMA Filled ==
    ASSUME CliAssumption, CliInv, NEW p \in Processes, fill(p)
    PROVE  /\ process[p].todo # <<>> /\ process[p].todo \in Seq(Writes) /\ process[p] # Idle
           /\ process[p].open
           /\ \E c : /\ Moves(p, c) /\ c # Idle /\ c.step = process[p].step /\ c.open = FALSE
                     /\ c.todo = Tail(process[p].todo)
                     /\ Working(p) => /\ c.state = StateOf(p) /\ c.op = process[p].op
                                      /\ c.tx = process[p].tx
           /\ \E mixed \in BOOLEAN :
                /\ mixed => disk[Head(process[p].todo).file] # Torn
                /\ disk' = [disk EXCEPT ![Head(process[p].todo).file] =
                              IF mixed THEN Torn ELSE Head(process[p].todo).content]
<1>1. process[p] # Idle /\ process[p].todo # <<>> /\ process[p] \in Works \cup Provings
      /\ process[p].todo \in Seq(Writes) /\ process[p].step # "idle" /\ process[p].open
      BY Shape DEF fill, CliInv
<1>2. PICK c : c = [process[p] EXCEPT !.open = FALSE, !.todo = Tail(process[p].todo)]
      OBVIOUS
<1>3. /\ c.step = process[p].step /\ c.todo = Tail(process[p].todo) /\ c.open = FALSE
      /\ Working(p) => /\ c.state = StateOf(p) /\ c.op = process[p].op /\ c.tx = process[p].tx
      BY <1>1, <1>2 DEF Works, Provings, Working, StateOf
<1>4. Moves(p, c)
      BY <1>1, <1>2 DEF fill, Moves
<1>5. \E mixed \in BOOLEAN :
        /\ mixed => disk[Head(process[p].todo).file] # Torn
        /\ disk' = [disk EXCEPT ![Head(process[p].todo).file] =
                      IF mixed THEN Torn ELSE Head(process[p].todo).content]
      BY DEF fill
<1>6. c # Idle
      BY <1>1, <1>3 DEF Idle
<1> QED BY <1>1, <1>3, <1>4, <1>5, <1>6

LEMMA Submitted ==
    ASSUME CliAssumption, CliInv, NEW p \in Processes, submit(p)
    PROVE  /\ Working(p) /\ process[p] # Idle /\ process[p].step = "submit"
           /\ process[p].todo = <<>> /\ UNCHANGED disk
           /\ \E c : /\ Moves(p, c) /\ c # Idle /\ c.step = "save" /\ c.open = process[p].open
                     /\ c.todo = save_state(StateOf(p)) /\ c.state = StateOf(p)
                     /\ c.op = process[p].op
                     /\ c.op.kind = "claim" => c.tx = disk["claim.tx"]
<1>1. Working(p) /\ process[p].step = "submit" /\ process[p].todo = <<>>
      BY DEF submit, At, Working
<1>2. process[p] \in Works /\ process[p] # Idle
      BY <1>1, Shape DEF CliInv
<1>3. PICK tx : tx = IF process[p].op.kind = "claim" THEN disk["claim.tx"] ELSE Absent
      OBVIOUS
<1>4. PICK c : c = [process[p] EXCEPT !.step = "save", !.todo = save_state(StateOf(p)), !.tx = tx]
      OBVIOUS
<1>5. /\ c.step = "save" /\ c.open = process[p].open /\ c.todo = save_state(StateOf(p))
      /\ c.state = StateOf(p) /\ c.op = process[p].op /\ c.tx = tx
      BY <1>2, <1>4 DEF Works, StateOf
<1>6. Moves(p, c) /\ UNCHANGED disk
      BY <1>3, <1>4 DEF submit, Moves, StateOf
<1>7. c # Idle
      BY <1>5 DEF Idle
<1> QED BY <1>1, <1>2, <1>3, <1>5, <1>6, <1>7

LEMMA Upserted ==
    ASSUME CliAssumption, CliInv, NEW p \in Processes, upsert_registry(p)
    PROVE  /\ Working(p) /\ process[p] # Idle /\ process[p].step = "save"
           /\ process[p].todo = <<>> /\ UNCHANGED disk
           /\ \E c : /\ Moves(p, c) /\ c # Idle /\ c.step = "report" /\ c.open = process[p].open
                     /\ c.state = StateOf(p) /\ c.op = process[p].op /\ c.tx = process[p].tx
                     /\ c.todo = <<[file |-> "airdrops.json",
                                    content |-> {e \in load_registry :
                                      e.airdrop_id # StateOf(p).airdrop_id
                                        /\ e.name # StateOf(p).name} \cup {StateOf(p)}]>>
<1>1. Working(p) /\ process[p].step = "save" /\ process[p].todo = <<>>
      BY DEF upsert_registry, At, Working
<1>2. process[p] \in Works /\ process[p] # Idle
      BY <1>1, Shape DEF CliInv
<1>3. PICK todo : todo = <<[file |-> "airdrops.json",
                            content |-> {e \in load_registry :
                              e.airdrop_id # StateOf(p).airdrop_id
                                /\ e.name # StateOf(p).name} \cup {StateOf(p)}]>>
      OBVIOUS
<1>4. PICK c : c = [process[p] EXCEPT !.step = "report", !.todo = todo]
      OBVIOUS
<1>5. /\ c.step = "report" /\ c.open = process[p].open /\ c.todo = todo
      /\ c.state = StateOf(p) /\ c.op = process[p].op /\ c.tx = process[p].tx
      BY <1>2, <1>4 DEF Works, StateOf
<1>6. Moves(p, c) /\ UNCHANGED disk
      BY <1>3, <1>4 DEF upsert_registry, Continue, Moves, StateOf
<1>7. c # Idle
      BY <1>5 DEF Idle
<1> QED BY <1>1, <1>2, <1>3, <1>5, <1>6, <1>7

-----------------------------------------------------------------------------
(* The claim sent is the claim recorded.                                    *)

LEMMA SentMoves ==
    ASSUME OneAtATime, Types, NEW p \in Processes, NEW c, Moves(p, c),
           c.step \in {"submit", "save", "report"} => ClaimSent(c)'
    PROVE  SentInv'
<1>1. process'[p] = c /\ \A q \in Processes : q = p
      BY Moved DEF OneAtATime
<1>2. (Working(p) => ClaimSent(process[p]))'
      BY <1>1 DEF Working, ClaimSent
<1> QED BY <1>1, <1>2 DEF SentInv

LEMMA SentStays ==
    ASSUME CliAssumption, OneAtATime, CliInv, SentInv, NEW p \in Processes,
           CliStart(p) \/ CliWork(p)
    PROVE  SentInv'
<1>0. Types /\ (Working(p) => ClaimSent(process[p]))
      BY DEF CliInv, SentInv
<1>1. CASE CliStart(p)
  <2>1. PICK c : Started(p, c)
        BY <1>1, CommandStarts
  <2>2. c.step \in {"submit", "save", "report"} => ClaimSent(c)'
        BY <2>1 DEF Started, ClaimSent
  <2> QED BY <1>0, <2>1, <2>2, SentMoves DEF Started
<1>2. CASE truncate(p) \/ fill(p)
  <2>1. process[p].todo # <<>>
        BY <1>2, Opened, Filled
  <2>2. PICK c : /\ Moves(p, c) /\ c.step = process[p].step
                 /\ Working(p) => c.op = process[p].op /\ c.tx = process[p].tx
    <3>1. CASE truncate(p)
          BY <3>1, Opened
    <3>2. CASE fill(p)
          BY <3>2, Filled
    <3> QED BY <1>2, <3>1, <3>2
  <2>3. c.step \in {"submit", "save", "report"} => ClaimSent(c)'
        BY <1>0, <2>1, <2>2 DEF Working, ClaimSent
  <2> QED BY <1>0, <2>2, <2>3, SentMoves
<1>3. CASE submit(p)
  <2>1. /\ Working(p) /\ process[p].step = "submit" /\ process[p].todo = <<>> /\ UNCHANGED disk
        BY <1>3, Submitted
  <2>2. PICK c : /\ Moves(p, c) /\ c.step = "save" /\ c.op = process[p].op
                 /\ c.op.kind = "claim" => c.tx = disk["claim.tx"]
        BY <1>3, Submitted
  <2>3. c.op.kind = "claim" => c.tx.id = c.op.id /\ c.tx.row = c.op.row
        BY <1>0, <1>3, <2>1, <2>2 DEF submit, Submittable, ClaimSent
  <2>4. ClaimSent(c)'
        BY <2>2, <2>3 DEF ClaimSent
  <2> QED BY <1>0, <2>2, <2>4, SentMoves
<1>4. CASE upsert_registry(p)
  <2>1. PICK c : /\ Moves(p, c) /\ c.step = "report" /\ c.op = process[p].op /\ c.tx = process[p].tx
        BY <1>4, Upserted
  <2>2. Working(p) /\ process[p].step = "save"
        BY <1>4, Upserted
  <2>3. ClaimSent(c)'
        BY <1>0, <2>1, <2>2 DEF ClaimSent
  <2> QED BY <1>0, <2>1, <2>3, SentMoves
<1>5. CASE report(p) \/ proved(p) \/ fail(p) \/ crash(p)
  <2>1. Moves(p, Idle)
        BY <1>5 DEF report, proved, fail, crash, End, Moves
  <2>2. Idle.step = "idle"
        BY DEF Idle
  <2> QED BY <1>0, <2>1, <2>2, SentMoves
<1> QED BY <1>1, <1>2, <1>3, <1>4, <1>5 DEF CliWork

\* One command at a time, the claim a command records is the one the adapter
\* sent, whichever of claim.tx and proof.json it came from, whether or not
\* commands are killed (claim, submit_claim).
THEOREM RecordedIsSent == OneAtATime => (CliSpec => []SentIsRecorded)
<1> SUFFICES ASSUME OneAtATime PROVE CliSpec => []SentIsRecorded
    OBVIOUS
<1>1. CliInit => SentInv
      BY DEF CliInit, SentInv, Working, Idle
<1>2. CliInv /\ SentInv /\ [CliNext]_cliVars => SentInv'
  <2> SUFFICES ASSUME CliInv, SentInv, [CliNext]_cliVars PROVE SentInv'
      OBVIOUS
  <2>1. CASE CliNext
        BY <2>1, SentStays, CliAssumption DEF CliNext
  <2>2. CASE UNCHANGED cliVars
        BY <2>2 DEF cliVars, SentInv, Working, ClaimSent
  <2> QED BY <2>1, <2>2
<1>3. SentInv => SentIsRecorded
      BY DEF SentInv, SentIsRecorded, ClaimSent, Working
<1> QED BY <1>1, <1>2, <1>3, CliInvariant, PTL DEF CliSpec

-----------------------------------------------------------------------------
(* Every copy is listed.                                                    *)

LEMMA FilesMove ==
    ASSUME OneAtATime, Types, NEW p \in Processes, NEW c, Moves(p, c),
           c # Idle => Progress(c)', c = Idle => Settled'
    PROVE  FilesInv'
<1>1. process'[p] = c /\ \A q \in Processes : q = p
      BY Moved DEF OneAtATime
<1>2. (process[p] # Idle => Progress(process[p]))'
      BY <1>1 DEF Progress, Settled, Listed, ToWrite, OwnFiles, load_registry, Readable
<1>3. (process[p] = Idle => Settled)'
      BY <1>1
<1> QED BY <1>1, <1>2, <1>3 DEF FilesInv

LEMMA SettledStays ==
    ASSUME Settled, disk'["airdrops.json"] = disk["airdrops.json"],
           \A f \in StateFiles : disk'[f] = disk[f], CliAssumption, Types
    PROVE  Settled'
<1>1. Readable("state.json") => named_state_path(disk["state.json"].name) \in StateFiles
  <2>1. Readable("state.json") => disk["state.json"] \in States
        BY Files, Contents DEF Types, StateFiles, OwnStates
  <2> QED BY <2>1, Files DEF States
<1>2. "state.json" \in StateFiles /\ NamedFiles \subseteq StateFiles
      BY DEF StateFiles
<1>3. Listed(load_registry, NamedFiles)'
      BY <1>2 DEF Settled, Listed, load_registry, Readable
<1>4. (Readable("state.json") =>
         disk[named_state_path(disk["state.json"].name)] = disk["state.json"])'
      BY <1>1, <1>2 DEF Settled, Readable, named_state_path
<1> QED BY <1>3, <1>4 DEF Settled

LEMMA StartProgress ==
    ASSUME CliAssumption, OneAtATime, CliInv, FilesInv, NEW p \in Processes, CliStart(p)
    PROVE  FilesInv'
<1>1. PICK c : Started(p, c)
      BY CommandStarts
<1>2. Settled'
      BY <1>1, SettledStays DEF Started, OneAtATime, FilesInv, CliInv
<1>3. Progress(c)'
      BY <1>1, <1>2 DEF Started, Progress, ToWrite
<1> QED BY <1>1, <1>3, FilesMove DEF Started, CliInv

LEMMA OpenProgress ==
    ASSUME CliAssumption, OneAtATime, CliInv, FilesInv, NEW p \in Processes, truncate(p)
    PROVE  FilesInv'
<1>1. /\ process[p].todo # <<>> /\ process[p].todo \in Seq(Writes) /\ process[p] # Idle
      BY Opened
<1>2. PICK c : /\ Moves(p, c) /\ c # Idle /\ c.step = process[p].step /\ c.open = TRUE
               /\ c.todo = process[p].todo
               /\ Working(p) => c.state = StateOf(p)
      BY Opened
<1>3. PICK f : f = Head(c.todo).file /\ disk' = [disk EXCEPT ![f] = Torn]
      BY <1>2, Opened
<1>4. f \in ToWrite(c) /\ f \in AllFiles
      BY <1>1, <1>2, <1>3, ElementsTail, HeadTailProperties DEF ToWrite, Writes
<1>5. disk'[f] = Torn /\ \A g \in AllFiles \ {f} : disk'[g] = disk[g]
      BY <1>3, <1>4 DEF CliInv, Types
<1>6. Progress(process[p]) /\ ToWrite(c) = ToWrite(process[p])
      BY <1>1, <1>2 DEF FilesInv, ToWrite
<1>7. "airdrops.json" \in AllFiles /\ StateFiles \subseteq AllFiles /\ NamedFiles \subseteq StateFiles
      /\ "airdrops.json" \notin StateFiles
      BY Files DEF AllFiles, SharedFiles, StateFiles
<1>8. CASE c.step \in {"submit", "prove"}
  <2>1. Settled /\ f \notin StateFiles \cup {"airdrops.json"}
        BY <1>2, <1>4, <1>6, <1>8 DEF Progress
  <2>2. Settled'
        BY <1>5, <1>7, <2>1, SettledStays DEF CliInv
  <2>3. Progress(c)'
        BY <1>1, <1>2, <1>3, <1>5, <1>6, <1>8, <2>2 DEF Progress, ToWrite
  <2> QED BY <1>2, <2>3, FilesMove DEF CliInv
<1>9. CASE c.step \in {"save", "report"}
  <2>1. Working(p) /\ c.state = process[p].state /\ OwnFiles(c) = OwnFiles(process[p])
        BY <1>2, <1>9 DEF Working, StateOf, OwnFiles
  <2>2. OwnFiles(c) \subseteq StateFiles
        BY <1>2, <2>1, Files, WorkShape DEF OwnFiles, StateFiles, CliInv
  <2>3. \A file \in OwnFiles(c) \ ToWrite(c) : disk'[file] = c.state
        BY <1>2, <1>4, <1>5, <1>6, <1>7, <1>9, <2>1, <2>2 DEF Progress
  <2>4. CASE c.step = "save"
    <3>1. f \in OwnFiles(c) /\ f # "airdrops.json"
          BY <1>2, <1>4, <1>6, <1>7, <2>1, <2>2, <2>4 DEF Progress
    <3>2. disk'["airdrops.json"] # Torn /\ load_registry' = load_registry
          BY <1>2, <1>5, <1>6, <1>7, <2>4, <3>1 DEF Progress, load_registry
    <3>3. Listed(load_registry, NamedFiles \ OwnFiles(c))
          BY <1>2, <1>6, <2>1, <2>4 DEF Progress
    <3>4. Listed(load_registry, NamedFiles \ OwnFiles(c))'
          BY <1>5, <1>7, <3>1, <3>2, <3>3 DEF Listed, Readable, OwnFiles, named_state_path
    <3>5. ToWrite(c) \subseteq OwnFiles(c)
          BY <1>2, <1>6, <2>1, <2>4 DEF Progress
    <3>6. Progress(c)'
          BY <1>1, <1>2, <1>3, <1>5, <2>3, <2>4, <3>2, <3>4, <3>5
          DEF Progress, ToWrite, OwnFiles, named_state_path
    <3> QED BY <1>2, <3>6, FilesMove DEF CliInv
  <2>5. CASE c.step = "report"
    <3>1. /\ ToWrite(c) \subseteq {"airdrops.json"}
          /\ \A w \in Elements(c.todo) : Listed(w.content, NamedFiles) /\ w.content \in SUBSET States
          BY <1>2, <1>6, <2>5 DEF Progress, ToWrite
    <3>2. f = "airdrops.json"
          BY <1>4, <3>1
    <3>3. \A w \in Elements(c.todo) : Listed(w.content, NamedFiles)'
          BY <1>5, <1>7, <3>1, <3>2 DEF Listed, Readable
    <3>4. Progress(c)'
          BY <1>1, <1>2, <1>3, <1>5, <2>3, <2>5, <3>1, <3>3
          DEF Progress, ToWrite, OwnFiles, named_state_path
    <3> QED BY <1>2, <3>4, FilesMove DEF CliInv
  <2> QED BY <1>9, <2>4, <2>5
<1>10. c.step \in {"submit", "save", "report", "prove"}
  <2>1. process[p] \in Works \cup Provings
        BY <1>1, Shape DEF CliInv
  <2> QED BY <1>2, <2>1 DEF Works, Provings
<1> QED BY <1>8, <1>9, <1>10

LEMMA FillProgress ==
    ASSUME CliAssumption, NoTexts, OneAtATime, CliInv, FilesInv, NEW p \in Processes, fill(p)
    PROVE  FilesInv'
<1>1. /\ process[p].todo # <<>> /\ process[p].todo \in Seq(Writes) /\ process[p] # Idle
      /\ process[p].open
      BY Filled
<1>2. PICK c : /\ Moves(p, c) /\ c # Idle /\ c.step = process[p].step /\ c.open = FALSE
               /\ c.todo = Tail(process[p].todo)
               /\ Working(p) => c.state = StateOf(p)
      BY Filled
<1>3. PICK w : w = Head(process[p].todo)
      OBVIOUS
<1>4. /\ w \in Elements(process[p].todo) /\ w \in Writes /\ w.file \in AllFiles
      /\ Elements(c.todo) \subseteq Elements(process[p].todo)
      /\ Elements(process[p].todo) \subseteq Elements(c.todo) \cup {w}
      BY <1>1, <1>2, <1>3, ElementsTail, HeadTailProperties DEF Writes
<1>5. Progress(process[p]) /\ disk[w.file] = Torn
      BY <1>1, <1>3 DEF FilesInv, Progress
<1>6. disk' = [disk EXCEPT ![w.file] = w.content]
  <2>1. PICK mixed \in BOOLEAN :
          /\ mixed => disk[w.file] # Torn
          /\ disk' = [disk EXCEPT ![w.file] = IF mixed THEN Torn ELSE w.content]
        BY <1>3, Filled
  <2> QED BY <1>5, <2>1
<1>7. disk'[w.file] = w.content /\ \A g \in AllFiles \ {w.file} : disk'[g] = disk[g]
      BY <1>4, <1>6 DEF CliInv, Types
<1>8. /\ ToWrite(c) \subseteq ToWrite(process[p]) /\ w.file \in ToWrite(process[p])
      /\ ToWrite(process[p]) \subseteq ToWrite(c) \cup {w.file}
      BY <1>4 DEF ToWrite
<1>9. "airdrops.json" \in AllFiles /\ StateFiles \subseteq AllFiles /\ NamedFiles \subseteq StateFiles
      /\ "airdrops.json" \notin StateFiles
      BY Files DEF AllFiles, SharedFiles, StateFiles
<1>10. CASE c.step \in {"submit", "prove"}
  <2>1. Settled /\ ToWrite(process[p]) \cap (StateFiles \cup {"airdrops.json"}) = {}
        BY <1>2, <1>5, <1>10 DEF Progress
  <2>2. Settled'
        BY <1>7, <1>8, <1>9, <2>1, SettledStays DEF CliInv
  <2>3. Progress(c)'
        BY <1>2, <1>8, <1>10, <2>1, <2>2 DEF Progress, ToWrite
  <2> QED BY <1>2, <2>3, FilesMove DEF CliInv
<1>11. CASE c.step \in {"save", "report"}
  <2>1. Working(p) /\ c.state = process[p].state /\ OwnFiles(c) = OwnFiles(process[p])
        BY <1>2, <1>11 DEF Working, StateOf, OwnFiles
  <2>2. OwnFiles(c) \subseteq StateFiles
        BY <1>2, <2>1, Files, WorkShape DEF OwnFiles, StateFiles, CliInv
  <2>3. w.file \in StateFiles => w.content = c.state
        BY <1>1, <1>2, <1>4, <2>1 DEF CliInv, OwnWrites, WriteOK
  <2>4. \A file \in OwnFiles(c) \ ToWrite(c) : disk'[file] = c.state
    <3> SUFFICES ASSUME NEW file \in OwnFiles(c), file \notin ToWrite(c)
                 PROVE  disk'[file] = c.state
        OBVIOUS
    <3>1. CASE file = w.file
          BY <1>7, <2>2, <2>3, <3>1
    <3>2. CASE file # w.file
          BY <1>2, <1>5, <1>7, <1>8, <1>9, <1>11, <2>1, <2>2, <3>2 DEF Progress
    <3> QED BY <3>1, <3>2
  <2>5. CASE c.step = "save"
    <3>1. w.file \in OwnFiles(c) /\ w.file # "airdrops.json"
          BY <1>2, <1>5, <1>8, <1>9, <2>1, <2>2, <2>5 DEF Progress
    <3>2. disk'["airdrops.json"] # Torn /\ load_registry' = load_registry
          BY <1>2, <1>5, <1>7, <1>9, <2>5, <3>1 DEF Progress, load_registry
    <3>3. Listed(load_registry, NamedFiles \ OwnFiles(c))
          BY <1>2, <1>5, <2>1, <2>5 DEF Progress
    <3>4. Listed(load_registry, NamedFiles \ OwnFiles(c))'
          BY <1>7, <1>9, <3>1, <3>2, <3>3 DEF Listed, Readable, OwnFiles, named_state_path
    <3>5. ToWrite(c) \subseteq OwnFiles(c)
          BY <1>2, <1>5, <1>8, <2>1, <2>5 DEF Progress
    <3>6. Progress(c)'
          BY <1>2, <2>4, <2>5, <3>2, <3>4, <3>5 DEF Progress, ToWrite, OwnFiles, named_state_path
    <3> QED BY <1>2, <3>6, FilesMove DEF CliInv
  <2>6. CASE c.step = "report"
    <3>1. /\ ToWrite(c) \subseteq {"airdrops.json"} /\ w.file = "airdrops.json"
          /\ \A v \in Elements(process[p].todo) :
               Listed(v.content, NamedFiles) /\ v.content \in SUBSET States
          BY <1>2, <1>5, <1>8, <2>6 DEF Progress
    <3>2. \A v \in Elements(process[p].todo) : Listed(v.content, NamedFiles)'
          BY <1>7, <1>9, <3>1 DEF Listed, Readable
    <3>3. \A v \in Elements(c.todo) : v \in Elements(process[p].todo)
          BY <1>4
    <3>4. disk'["airdrops.json"] = w.content /\ w.content \in SUBSET States
          BY <1>4, <1>7, <3>1
    <3>5. disk'["airdrops.json"] # Torn /\ load_registry' = w.content
          BY <3>4 DEF load_registry, NoTexts
    <3>6. Listed(load_registry, NamedFiles)'
          BY <1>4, <3>2, <3>5 DEF Listed
    <3>7. Progress(c)'
          BY <1>2, <2>4, <2>6, <3>1, <3>2, <3>3, <3>5, <3>6
          DEF Progress, ToWrite, OwnFiles, named_state_path
    <3> QED BY <1>2, <3>7, FilesMove DEF CliInv
  <2> QED BY <1>11, <2>5, <2>6
<1>12. c.step \in {"submit", "save", "report", "prove"}
  <2>1. process[p] \in Works \cup Provings
        BY <1>1, Shape DEF CliInv
  <2> QED BY <1>2, <2>1 DEF Works, Provings
<1> QED BY <1>10, <1>11, <1>12

LEMMA SubmitProgress ==
    ASSUME CliAssumption, OneAtATime, CliInv, FilesInv, NEW p \in Processes, submit(p)
    PROVE  FilesInv'
<1>1. /\ Working(p) /\ process[p] # Idle /\ process[p].step = "submit" /\ process[p].todo = <<>>
      /\ UNCHANGED disk
      BY Submitted
<1>2. PICK c : /\ Moves(p, c) /\ c # Idle /\ c.step = "save" /\ c.open = process[p].open
               /\ c.todo = save_state(StateOf(p)) /\ c.state = StateOf(p)
      BY Submitted
<1>3. PICK current, named :
        /\ current = [file |-> "state.json", content |-> c.state]
        /\ named = [file |-> named_state_path(c.state.name), content |-> c.state]
      OBVIOUS
<1>4. c.todo = <<current, named>> /\ Elements(<<current, named>>) = {current, named}
  <2>1. c.todo = <<current, named>>
        BY <1>2, <1>3 DEF save_state
  <2>2. PICK both : both = {current, named}
        OBVIOUS
  <2>3. Elements(<<current, named>>) = {current, named}
        BY <2>2, ElementsTwo
  <2> QED BY <2>1, <2>3
<1>5. ToWrite(c) = OwnFiles(c)
      BY <1>3, <1>4 DEF ToWrite, OwnFiles
<1>6. Settled /\ ~process[p].open
      BY <1>1 DEF FilesInv, Progress
<1>7. Listed(load_registry, NamedFiles \ OwnFiles(c)) /\ disk["airdrops.json"] # Torn
      BY <1>6 DEF Settled, Listed
<1>8. load_registry' = load_registry /\ disk'["airdrops.json"] # Torn
      BY <1>1, <1>7 DEF load_registry
<1>9. Listed(load_registry, NamedFiles \ OwnFiles(c))'
      BY <1>1, <1>7, <1>8 DEF Listed, Readable, OwnFiles, named_state_path
<1>10. Progress(c)'
      BY <1>2, <1>5, <1>6, <1>8, <1>9 DEF Progress, ToWrite, OwnFiles, named_state_path
<1> QED BY <1>2, <1>10, FilesMove DEF CliInv

LEMMA UpsertProgress ==
    ASSUME CliAssumption, OneAtATime, CliInv, FilesInv, NEW p \in Processes, upsert_registry(p)
    PROVE  FilesInv'
<1>1. /\ Working(p) /\ process[p] # Idle /\ process[p].step = "save" /\ process[p].todo = <<>>
      /\ UNCHANGED disk
      BY Upserted
<1>2. PICK entries : entries = {e \in load_registry :
                                  e.airdrop_id # StateOf(p).airdrop_id
                                    /\ e.name # StateOf(p).name} \cup {StateOf(p)}
      OBVIOUS
<1>3. PICK w : w = [file |-> "airdrops.json", content |-> entries]
      OBVIOUS
<1>4. PICK c : /\ Moves(p, c) /\ c # Idle /\ c.step = "report" /\ c.open = process[p].open
               /\ c.state = StateOf(p) /\ c.todo = <<w>>
      BY <1>2, <1>3, Upserted
<1>5. Elements(c.todo) = {w}
      BY <1>4, ElementsOne
<1>6. ToWrite(c) = {"airdrops.json"} /\ c.todo # <<>>
      BY <1>3, <1>4, <1>5 DEF ToWrite
<1>7. Progress(process[p]) /\ ToWrite(process[p]) = {} /\ OwnFiles(c) = OwnFiles(process[p])
      BY <1>1, <1>4, ElementsEmpty DEF FilesInv, ToWrite, OwnFiles, StateOf
<1>8. \A file \in OwnFiles(c) : disk[file] = c.state
      BY <1>1, <1>4, <1>7 DEF Progress, StateOf
<1>9. ~process[p].open /\ disk["airdrops.json"] # Torn /\ Listed(load_registry, NamedFiles \ OwnFiles(c))
      BY <1>1, <1>7 DEF Progress
<1>10. entries \in SUBSET States
  <2>1. StateOf(p) \in States
        BY <1>1, WorkShape DEF CliInv
  <2>2. "airdrops.json" \in AllFiles
        BY DEF AllFiles, SharedFiles
  <2>3. load_registry \subseteq States
        BY <1>9, <2>2, Contents DEF load_registry, CliInv, Types, Readable
  <2> QED BY <1>2, <2>1, <2>3
<1>11. Listed(entries, NamedFiles)
  <2> SUFFICES ASSUME NEW file \in NamedFiles, Readable(file)
               PROVE  \E e \in entries : e.name = disk[file].name /\ e.airdrop_id = disk[file].airdrop_id
      BY DEF Listed
  <2>1. CASE file \in OwnFiles(c)
        BY <1>2, <1>4, <1>8, <2>1
  <2>2. CASE file \notin OwnFiles(c)
    <3>1. PICK e \in load_registry : e.name = disk[file].name /\ e.airdrop_id = disk[file].airdrop_id
          BY <1>9, <2>2 DEF Listed
    <3>2. named_state_path(disk[file].name) = file
          BY DEF CliInv, Located
    <3>3. disk[file].name # StateOf(p).name
          BY <1>4, <2>2, <3>2 DEF OwnFiles
    <3>4. disk[file].airdrop_id # StateOf(p).airdrop_id
          BY <1>1, <3>3 DEF CliInv, Known, Around, Held, StateFiles
    <3> QED BY <1>2, <3>1, <3>3, <3>4
  <2> QED BY <2>1, <2>2
<1>12. Listed(entries, NamedFiles)'
      BY <1>1, <1>11 DEF Listed, Readable
<1>13. Progress(c)'
      BY <1>1, <1>3, <1>4, <1>5, <1>6, <1>8, <1>9, <1>10, <1>12
      DEF Progress, ToWrite, OwnFiles, named_state_path
<1> QED BY <1>4, <1>13, FilesMove DEF CliInv

LEMMA EndSettled ==
    ASSUME CliAssumption, ~Crashes, OneAtATime, CliInv, FilesInv, NEW p \in Processes,
           report(p) \/ proved(p) \/ fail(p) \/ crash(p)
    PROVE  FilesInv'
<1>1. Moves(p, Idle) /\ UNCHANGED disk /\ process[p].todo = <<>>
      BY DEF report, proved, fail, crash, End, Moves
<1>2. process[p] # Idle
      BY DEF report, proved, fail, crash, At, Idle
<1>3. Progress(process[p])
      BY <1>2 DEF FilesInv
<1>4. process[p].step \in {"submit", "prove"} => Settled
      BY <1>3 DEF Progress
<1>5. ASSUME report(p) PROVE Settled
  <2>1. process[p].step = "report" /\ ToWrite(process[p]) = {}
        BY <1>1, <1>5, ElementsEmpty DEF report, At, ToWrite
  <2>2. disk["airdrops.json"] # Torn /\ Listed(load_registry, NamedFiles)
        BY <1>1, <1>3, <2>1 DEF Progress
  <2>3. \A file \in OwnFiles(process[p]) : disk[file] = process[p].state
        BY <1>3, <2>1 DEF Progress
  <2> QED BY <2>2, <2>3 DEF Settled, OwnFiles
<1>6. Settled
  <2>1. CASE report(p)
        BY <1>5, <2>1
  <2>2. CASE proved(p)
        BY <1>4, <2>2 DEF proved, At
  <2>3. CASE fail(p)
        BY <1>3, <1>4, <2>3 DEF fail, At, Progress
  <2> QED BY <2>1, <2>2, <2>3 DEF crash
<1>7. Settled'
      BY <1>1, <1>6, SettledStays DEF CliInv
<1> QED BY <1>1, <1>7, FilesMove DEF CliInv

LEMMA FilesStart ==
    ASSUME CliAssumption, CliInit
    PROVE  FilesInv
<1>1. \A file \in AllFiles : disk[file] = Absent
      BY DEF CliInit, AllFiles
<1>2. \A file \in AllFiles : ~Readable(file)
      BY <1>1 DEF Readable
<1>3. "airdrops.json" \in AllFiles /\ "state.json" \in AllFiles /\ NamedFiles \subseteq AllFiles
      BY DEF AllFiles, SharedFiles
<1>4. Settled
      BY <1>1, <1>2, <1>3 DEF Settled, Listed, CliAssumption
<1> QED BY <1>4 DEF CliInit, FilesInv

LEMMA SettledFinds ==
    ASSUME CliAssumption, CliInv, Settled, NEW file \in NamedFiles, Readable(file),
           NEW airdrop \in {disk[file].name, disk[file].airdrop_id}
    PROVE  disk[file] \in Loaded(airdrop)
<1>1. file \in StateFiles /\ "state.json" \in StateFiles /\ Held(disk[file])
      BY DEF StateFiles, Held
<1>2. /\ named_state_path(disk[file].name) = file
      /\ disk[file].name \in Names /\ disk[file].airdrop_id \in Ids
      BY <1>1, HeldStates DEF CliInv, Located
<1>3. ensure_airdrop(disk[file], airdrop)
      BY DEF ensure_airdrop
<1>4. CASE Readable("state.json") /\ ensure_airdrop(disk["state.json"], airdrop)
  <2>1. Held(disk["state.json"])
        BY <1>1, <1>4 DEF Held
  <2>2. disk["state.json"].name \in Names /\ disk["state.json"].airdrop_id \in Ids
        BY <2>1, HeldStates DEF CliInv
  <2>3. disk["state.json"].name = disk[file].name
    <3>1. CASE airdrop = disk[file].name
          BY <1>2, <1>4, <2>2, <3>1 DEF ensure_airdrop, CliAssumption
    <3>2. CASE airdrop = disk[file].airdrop_id
      <4>1. disk["state.json"].airdrop_id = disk[file].airdrop_id
            BY <1>2, <1>4, <2>2, <3>2 DEF ensure_airdrop, CliAssumption
      <4> QED BY <1>1, <2>1, <4>1 DEF CliInv, Known, Around
    <3> QED BY <3>1, <3>2
  <2>4. disk[file] = disk["state.json"]
        BY <1>2, <1>4, <2>3 DEF Settled
  <2> QED BY <1>3, <1>4, <2>4 DEF Loaded, load_state_for, SourceFile
<1>5. CASE ~(Readable("state.json") /\ ensure_airdrop(disk["state.json"], airdrop))
  <2>1. PICK e \in load_registry : e.name = disk[file].name /\ e.airdrop_id = disk[file].airdrop_id
        BY DEF Settled, Listed
  <2>2. ensure_airdrop(e, airdrop) /\ named_state_path(e.name) = file
        BY <1>2, <2>1 DEF ensure_airdrop
  <2>3. file \in SourceFile(airdrop)
        BY <1>5, <2>1, <2>2 DEF SourceFile, Settled
  <2> QED BY <1>3, <2>3 DEF Loaded, load_state_for
<1> QED BY <1>4, <1>5

\* One command at a time and none killed, every airdrop that has a named copy is
\* found by its name and by its id, however many names share a copy
\* (save_state, upsert_registry, load_state_for).
THEOREM EveryCopyIsFound == OneAtATime /\ ~Crashes /\ NoTexts => (CliSpec => []NoOrphan)
<1> SUFFICES ASSUME OneAtATime, ~Crashes, NoTexts PROVE CliSpec => []NoOrphan
    OBVIOUS
<1>1. CliInit => FilesInv
      BY FilesStart, CliAssumption
<1>2. CliInv /\ FilesInv /\ [CliNext]_cliVars => FilesInv'
  <2> SUFFICES ASSUME CliInv, FilesInv, [CliNext]_cliVars PROVE FilesInv'
      OBVIOUS
  <2>1. ASSUME NEW p \in Processes, CliStart(p) \/ CliWork(p)
        PROVE  FilesInv'
        BY <2>1, CliAssumption, StartProgress, OpenProgress, FillProgress, SubmitProgress,
           UpsertProgress, EndSettled DEF CliWork
  <2>2. CASE UNCHANGED cliVars
    <3>1. UNCHANGED <<disk, process>>
          BY <2>2 DEF cliVars
    <3>2. \A entries, files : Listed(entries, files)' <=> Listed(entries, files)
          BY <3>1 DEF Listed, Readable
    <3>3. Settled' <=> Settled
          BY <3>1 DEF Settled, Listed, load_registry, Readable, named_state_path
    <3>4. ASSUME NEW p \in Processes, process[p] # Idle PROVE Progress(process[p])'
      <4>1. PICK c : c = process[p]
            OBVIOUS
      <4>2. Progress(c)
            BY <3>4, <4>1 DEF FilesInv
      <4>3. Progress(c)'
            BY <3>1, <3>2, <3>3, <4>2 DEF Progress, ToWrite, OwnFiles, load_registry, named_state_path
      <4> QED BY <3>1, <4>1, <4>3 DEF Progress, ToWrite, OwnFiles, named_state_path
    <3> QED BY <3>1, <3>3, <3>4 DEF FilesInv
  <2> QED BY <2>1, <2>2 DEF CliNext
<1>3. CliInv /\ FilesInv => NoOrphan
      BY CliAssumption, SettledFinds DEF FilesInv, NoOrphan
<1> QED BY <1>1, <1>2, <1>3, CliInvariant, PTL DEF CliSpec

=============================================================================
