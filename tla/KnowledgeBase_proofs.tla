------------------------ MODULE KnowledgeBase_proofs ------------------------
(***************************************************************************)
(* Proofs about KnowledgeBase, for every set of threads, runbook directory *)
(* and set of incidents, whatever people edit and wherever the process     *)
(* dies.                                                                   *)
(***************************************************************************)
EXTENDS KnowledgeBase, FiniteSetTheorems, WellFoundedInduction, TLAPS

-----------------------------------------------------------------------------
(* The inductive invariants.                                               *)

\* Threads that deleted the chunks of a stem and have not inserted its text yet.
Busy(stem) == {t \in Threads : pc[t] \in {"read", "embed"} /\ StemNow(t) = stem}

\* A postmortem is in the knowledge base under the id its event has, or will have.
Filed(i, id, x) == \E c \in chunks : /\ c.id = id /\ c.source = "postmortem"
                                     /\ c.ref = i /\ c.text = x
EventsFiled ==
  /\ \A e \in events : Filed(e.incident, e.ref, e.text)
  /\ \A t \in Threads : pc[t] = "finalizing" => Filed(incident[t], version[t], text[t])

\* What a thread has added is staged, and what it has committed is in HEAD.
CommitInv ==
  \A t \in Threads :
    /\ pc[t] = "idle" => version[t] = 0
    /\ pc[t] \in {"commit", "returned"} => version[t] <= staged[incident[t]]
    /\ pc[t] = "returned" /\ t \notin refused => version[t] <= head[incident[t]]

\* The files there are, and those of a stem a pass has been through.
There == {k \in DOMAIN RunbookFiles : files[RunbookFiles[k]] # "absent"}
Passed(t, stem) == Present(stem) \ todo[t]

\* The chunks of a stem are what a file with that content leaves.
Exact(stem, content) ==
  /\ {c.text : c \in RunbookChunks(stem)} = {content} \cap Texts
  /\ \A c, d \in RunbookChunks(stem) : c = d

\* A pass has its files in order, has emptied the stem it is at, and has left
\* behind what the last file it passed of each stem says.
PassAt(t) ==
  /\ todo[t] \subseteq There
  /\ \A k \in todo[t], j \in There : k <= j => j \in todo[t]
  /\ pc[t] \in {"read", "embed"} => RunbookChunks(StemNow(t)) = {}
  /\ pc[t] = "embed" => text[t] = files[FileNow(t)]
  /\ \A stem \in Stems : ~(pc[t] \in {"read", "embed"} /\ StemNow(t) = stem) =>
       \A k \in Passed(t, stem) : (\A j \in Passed(t, stem) : j <= k) =>
         Exact(stem, files[RunbookFiles[k]])

\* So it is with every pass nobody interfered with.
PassInv == \A t \in clean : pc[t] \in Reindexing => PassAt(t)

KnowledgeInv == TypeOK /\ CopiesBounded /\ EventsFiled /\ CommitInv /\ PassInv

-----------------------------------------------------------------------------
(* Lemmas.                                                                 *)

\* The smallest of some natural numbers.
LEMMA MinOf ==
  ASSUME NEW S \in SUBSET Nat, S # {}
  PROVE  Min(S) \in S /\ \A y \in S : Min(S) <= y
<1>1. PICK x \in S : \A y \in S : ~(<<y, x>> \in OpToRel(<, Nat))
  BY NatLessThanWellFounded, WFMin
<1>2. \A y \in S : x <= y
  <2> TAKE y \in S
  <2>1. ~(y < x)
    BY <1>1 DEF OpToRel
  <2>2. x \in Nat /\ y \in Nat
    OBVIOUS
  <2> QED
    BY <2>1, <2>2
<1> QED
  BY <1>2 DEF Min

\* The greatest of some natural numbers that have a bound.
LEMMA MaxOf ==
  ASSUME NEW S \in SUBSET Nat, S # {}, NEW n \in Nat, \A y \in S : y <= n
  PROVE  Max(S) \in S /\ \A y \in S : y <= Max(S)
<1> DEFINE T == {n - y : y \in S}
<1>0. \A y \in S : n - y \in Nat
  <2> TAKE y \in S
  <2>1. y \in Nat /\ y <= n
    OBVIOUS
  <2> QED
    BY <2>1
<1>1. T \in SUBSET Nat /\ T # {}
  BY <1>0
<1>2. Min(T) \in T /\ \A z \in T : Min(T) <= z
  BY <1>1, MinOf
<1>3. PICK x \in S : Min(T) = n - x
  BY <1>2
<1>4. \A y \in S : n - x <= n - y
  BY <1>2, <1>3
<1>5. \A y \in S : x >= y
  <2> TAKE y \in S
  <2>1. n - x <= n - y /\ x \in Nat /\ y \in Nat
    BY <1>4
  <2> QED
    BY <2>1
<1>6. Max(S) \in S /\ \A y \in S : Max(S) >= y
  BY <1>5 DEF Max
<1> QED
  BY <1>6

\* The file a pass is at is one of its directory.
LEMMA FileNowType ==
  ASSUME CallType, NEW t \in Threads, todo[t] # {}
  PROVE  /\ Min(todo[t]) \in todo[t] /\ Min(todo[t]) \in DOMAIN RunbookFiles
         /\ \A k \in todo[t] : Min(todo[t]) <= k
         /\ FileNow(t) \in Files /\ StemNow(t) \in Stems
<1>1. DOMAIN RunbookFiles \subseteq Nat /\ \A k \in DOMAIN RunbookFiles : RunbookFiles[k] \in Files
  BY Directory
<1>2. todo[t] \subseteq DOMAIN RunbookFiles
  BY DEF CallType
<1>3. Min(todo[t]) \in todo[t] /\ \A k \in todo[t] : Min(todo[t]) <= k
  BY <1>1, <1>2, MinOf
<1>4. FileNow(t) \in Files
  BY <1>1, <1>2, <1>3 DEF FileNow
<1> QED
  BY <1>2, <1>3, <1>4 DEF StemNow, Stems

\* What an insert does: one chunk more, with an id no other has.
LEMMA InsertChunk ==
  ASSUME StoreType, NEW source, NEW ref, NEW x \in Texts, insert_knowledge_chunk(source, ref, x),
         files' \in [Files -> Contents],
         \/ source = "runbook" /\ ref \in Stems
         \/ source \in {"override", "postmortem"} /\ ref \in Incidents
  PROVE  /\ StoreType'
         /\ [id |-> nextId, source |-> source, ref |-> ref, text |-> x] \notin chunks
<1> DEFINE new == [id |-> nextId, source |-> source, ref |-> ref, text |-> x]
<1>1. chunks' = chunks \cup {new} /\ nextId' = nextId + 1
  BY DEF insert_knowledge_chunk
<1>2. nextId \in Nat \ {0} /\ nextId' \in Nat \ {0} /\ nextId < nextId'
  BY <1>1 DEF StoreType
<1>3. \A c \in chunks : c.id \in Nat /\ c.id < nextId /\ c.id < nextId' /\ c.id # nextId
  <2> TAKE c \in chunks
  <2>1. c.id \in Nat /\ c.id < nextId
    BY DEF StoreType
  <2> QED
    BY <1>2, <2>1
<1>4. /\ new.id = nextId /\ new.text \in Texts
      /\ \/ new.source = "runbook" /\ new.ref \in Stems
         \/ new.source \in {"override", "postmortem"} /\ new.ref \in Incidents
  OBVIOUS
<1> HIDE DEF new
<1>5. new \notin chunks
  BY <1>3, <1>4
<1>6. IsFiniteSet(chunks')
  BY <1>1, FS_AddElement DEF StoreType
<1>7. \A c \in chunks' : /\ c.id \in Nat /\ c.id < nextId' /\ c.text \in Texts
                         /\ \/ c.source = "runbook" /\ c.ref \in Stems
                            \/ c.source \in {"override", "postmortem"} /\ c.ref \in Incidents
  BY <1>1, <1>2, <1>3, <1>4 DEF StoreType
<1>8. \A c, d \in chunks' : c.id = d.id => c = d
  BY <1>1, <1>3, <1>4 DEF StoreType
<1>9. StoreType'
  BY <1>2, <1>6, <1>7, <1>8 DEF StoreType
<1> QED
  BY <1>5, <1>9 DEF new

-----------------------------------------------------------------------------
(* Types.                                                                  *)

LEMMA StoreStep ==
  ASSUME TypeOK, Next
  PROVE  StoreType'
<1> USE DEF TypeOK, baseVars
<1>0. StoreType /\ CallType /\ files \in [Files -> Contents]
  BY DEF StoreType
<1>1. ASSUME NEW t \in Threads, DeleteRef(t)
      PROVE  StoreType'
  <2>1. chunks' \in SUBSET chunks /\ UNCHANGED <<files, nextId>>
    BY <1>1 DEF DeleteRef, delete_knowledge_by_ref
  <2>2. IsFiniteSet(chunks')
    BY <2>1, FS_Subset DEF StoreType
  <2> QED
    BY <2>1, <2>2 DEF StoreType
<1>2. ASSUME NEW t \in Threads, IndexRunbook(t), ~UNCHANGED baseVars
      PROVE  StoreType'
  <2>1. pc[t] = "embed" /\ insert_knowledge_chunk("runbook", StemNow(t), text[t]) /\ files' = files
    BY <1>2 DEF IndexRunbook
  <2>2. todo[t] # {} /\ text[t] \in Texts
    BY <2>1 DEF CallType
  <2>3. StemNow(t) \in Stems
    BY <2>2, FileNowType
  <2> QED
    BY <1>0, <2>1, <2>2, <2>3, InsertChunk
<1>3. ASSUME NEW t \in Threads, NEW i \in Incidents, NEW x \in Texts,
             IndexOverride(t, i, x) \/ IndexPostmortem(t, i, x)
      PROVE  StoreType'
  <2>1. \E source \in {"override", "postmortem"} : insert_knowledge_chunk(source, i, x)
    BY <1>3 DEF IndexOverride, IndexPostmortem
  <2>2. files' = files
    BY <1>3 DEF IndexOverride, IndexPostmortem
  <2> QED
    BY <1>0, <2>1, <2>2, InsertChunk
<1>4. ASSUME NEW f \in Files, NEW content \in Contents, EditRunbook(f, content)
      PROVE  StoreType'
  BY <1>4 DEF EditRunbook, StoreType
<1>5. CASE UNCHANGED <<files, chunks, nextId>>
  BY <1>5 DEF StoreType
<1>6. \/ UNCHANGED <<files, chunks, nextId>>
      \/ \E t \in Threads : DeleteRef(t) \/ (IndexRunbook(t) /\ ~UNCHANGED baseVars)
      \/ \E t \in Threads, i \in Incidents, x \in Texts : IndexOverride(t, i, x) \/ IndexPostmortem(t, i, x)
      \/ \E f \in Files, content \in Contents : EditRunbook(f, content)
  BY DEF Next, Reindex, Finalize, ListDir, ReadFile, IndexRunbook, EndPass, AppendFinalized, GitAdd,
         GitCommit, Return, Draft, Crash
<1> QED
  BY <1>1, <1>2, <1>3, <1>4, <1>5, <1>6

\* HEAD has nothing that was not staged, and the index nothing that was not
\* written.
LEMMA GitStep ==
  ASSUME TypeOK, Next
  PROVE  GitType'
<1> USE DEF TypeOK, gitVars
<1>1. ASSUME NEW t \in Threads, GitAdd(t)
      PROVE  GitType'
  <2>1. UNCHANGED <<page, head>> /\ pc[t] = "add"
    BY <1>1 DEF GitAdd
  <2>2. staged' = staged \/ staged' = [staged EXCEPT ![incident[t]] = page[incident[t]]]
    BY <1>1 DEF GitAdd
  <2>3. incident[t] \in Incidents
    BY <2>1 DEF CallType
  <2>4. staged' \in [Incidents -> Nat]
    BY <2>2, <2>3 DEF GitType
  <2>5. \A i \in Incidents : head[i] <= staged'[i] /\ staged'[i] <= page[i]
    <3> TAKE i \in Incidents
    <3>1. staged'[i] \in {staged[i], page[i]}
      BY <2>2, <2>3 DEF GitType
    <3>2. /\ head[i] \in Nat /\ staged[i] \in Nat /\ page[i] \in Nat
          /\ head[i] <= staged[i] /\ staged[i] <= page[i]
      BY DEF GitType
    <3> QED
      BY <3>1, <3>2
  <2> QED
    BY <2>1, <2>4, <2>5 DEF GitType
<1>2. ASSUME NEW t \in Threads, GitCommit(t)
      PROVE  GitType'
  <2>1. UNCHANGED <<page, staged>> /\ (head' = staged \/ head' = head)
    BY <1>2 DEF GitCommit
  <2> QED
    BY <2>1 DEF GitType
<1>3. ASSUME NEW i \in Incidents, Draft(i)
      PROVE  GitType'
  <2>1. page' = [page EXCEPT ![i] = page[i] + 1] /\ page[i] + 1 \in Nat /\ UNCHANGED <<staged, head>>
    BY <1>3 DEF Draft, GitType
  <2>2. page' \in [Incidents -> Nat]
    BY <2>1 DEF GitType
  <2>3. \A j \in Incidents : staged[j] <= page'[j]
    <3> TAKE j \in Incidents
    <3>1. page'[j] = page[j] \/ page'[j] = page[j] + 1
      BY <2>1 DEF GitType
    <3>2. staged[j] \in Nat /\ page[j] \in Nat /\ staged[j] <= page[j]
      BY DEF GitType
    <3> QED
      BY <3>1, <3>2
  <2> QED
    BY <2>1, <2>2, <2>3 DEF GitType
<1>4. CASE UNCHANGED gitVars
  BY <1>4 DEF GitType
<1>5. \/ UNCHANGED gitVars
      \/ \E t \in Threads : GitAdd(t) \/ GitCommit(t)
      \/ \E i \in Incidents : Draft(i)
  BY DEF Next, Reindex, Finalize, ListDir, DeleteRef, ReadFile, IndexRunbook, EndPass, AppendFinalized,
         IndexOverride, IndexPostmortem, Return, EditRunbook, Crash
<1> QED
  BY <1>1, <1>2, <1>3, <1>4, <1>5

\* A step of a thread.
Working(t) ==
  Reindex(t) \/ Finalize(t) \/ Return(t) \/ \E i \in Incidents, x \in Texts : IndexOverride(t, i, x)

\* What a thread holds.
HeldType(t) ==
  /\ pc[t] \in Labels /\ todo[t] \in SUBSET DOMAIN RunbookFiles /\ text[t] \in Texts \cup {NoText}
  /\ version[t] \in Nat /\ incident[t] \in Incidents \cup {AnyIncident}
  /\ pc[t] \in {"read", "embed"} => todo[t] # {}
  /\ pc[t] = "indexed" => todo[t] = {}
  /\ pc[t] \in {"embed", "finalizing", "add", "commit"} => text[t] \in Texts
  /\ pc[t] \in {"finalizing", "add", "commit", "returned"} => incident[t] \in Incidents

\* f and g differ at t at most.
Others(f, g, t) == \E v : g = [f EXCEPT ![t] = v]

\* A step of a thread writes the locals of that thread.
LEMMA Local ==
  ASSUME CallType, NEW t \in Threads, Working(t)
  PROVE  Others(pc, pc', t) /\ Others(todo, todo', t) /\ Others(text, text', t)
         /\ Others(incident, incident', t) /\ Others(version, version', t)
<1> DEFINE Same(f) == f = [f EXCEPT ![t] = f[t]]
<1>1. Same(pc) /\ Same(todo) /\ Same(text) /\ Same(incident) /\ Same(version)
  BY DEF CallType
<1> QED
  BY <1>1 DEF Working, Reindex, Finalize, ListDir, DeleteRef, ReadFile, IndexRunbook, EndPass, IndexOverride,
     IndexPostmortem, AppendFinalized, GitAdd, GitCommit, Return, Begin, Goto, Done, callVars, Others

LEMMA Alone ==
  ASSUME CallType, NEW t \in Threads, Working(t)
  PROVE  /\ \A u \in Threads : u # t => /\ pc'[u] = pc[u] /\ todo'[u] = todo[u] /\ text'[u] = text[u]
                                        /\ incident'[u] = incident[u] /\ version'[u] = version[u]
         /\ DOMAIN pc' = Threads /\ DOMAIN todo' = Threads /\ DOMAIN text' = Threads
         /\ DOMAIN incident' = Threads /\ DOMAIN version' = Threads
         /\ pc' = [u \in Threads |-> pc'[u]] /\ todo' = [u \in Threads |-> todo'[u]]
         /\ text' = [u \in Threads |-> text'[u]] /\ incident' = [u \in Threads |-> incident'[u]]
         /\ version' = [u \in Threads |-> version'[u]]
BY Local DEF CallType, Others

\* Its locals keep their types.
LEMMA HeldStep ==
  ASSUME TypeOK, NEW t \in Threads, Working(t)
  PROVE  HeldType(t)'
<1> USE DEF HeldType, Goto
<1>0. /\ CallType /\ pc \in [Threads -> Labels] /\ todo \in [Threads -> SUBSET DOMAIN RunbookFiles]
      /\ text \in [Threads -> Texts \cup {NoText}] /\ version \in [Threads -> Nat]
      /\ incident \in [Threads -> Incidents \cup {AnyIncident}] /\ HeldType(t)
  BY DEF TypeOK, CallType
<1>d. Done(t) => todo' = [todo EXCEPT ![t] = todo[t] \ {Min(todo[t])}]
  BY DEF Done
<1>1. CASE ListDir(t)
  BY <1>0, <1>1 DEF ListDir, Begin, Labels
<1>2. CASE DeleteRef(t)
  BY <1>0, <1>2 DEF DeleteRef, callVars, Labels
<1>3. CASE ReadFile(t)
  BY <1>0, <1>d, <1>3 DEF ReadFile, Labels
<1>4. CASE IndexRunbook(t)
  BY <1>0, <1>d, <1>4 DEF IndexRunbook, Labels
<1>5. CASE EndPass(t)
  BY <1>0, <1>5 DEF EndPass, callVars, Labels
<1>6. CASE \E i \in Incidents, x \in Texts : IndexOverride(t, i, x)
  <2>1. AnyIncident \in Incidents
    BY <1>6 DEF AnyIncident
  <2>2. /\ pc' = [pc EXCEPT ![t] = "returned"] /\ UNCHANGED <<todo, text, incident, version>>
    BY <1>6 DEF IndexOverride, Begin, callVars
  <2> QED
    BY <1>0, <2>1, <2>2 DEF Labels
<1>7. CASE \E i \in Incidents, x \in Texts : IndexPostmortem(t, i, x)
  <2>1. PICK i \in Incidents, x \in Texts : IndexPostmortem(t, i, x)
    BY <1>7
  <2>2. /\ pc' = [pc EXCEPT ![t] = "finalizing"] /\ incident' = [incident EXCEPT ![t] = i]
        /\ text' = [text EXCEPT ![t] = x] /\ version' = [version EXCEPT ![t] = nextId] /\ todo' = todo
    BY <2>1 DEF IndexPostmortem, Begin
  <2>3. nextId \in Nat
    BY DEF TypeOK, StoreType
  <2> QED
    BY <1>0, <2>2, <2>3 DEF Labels
<1>8. CASE AppendFinalized(t)
  BY <1>0, <1>8 DEF AppendFinalized, Labels
<1>9. CASE GitAdd(t)
  <2>1. pc[t] = "add" /\ incident[t] \in Incidents
    BY <1>0, <1>9 DEF GitAdd
  <2>2. page[incident[t]] \in Nat
    BY <2>1 DEF TypeOK, GitType
  <2>3. /\ \/ version' = [version EXCEPT ![t] = page[incident[t]]] /\ pc' = [pc EXCEPT ![t] = "commit"]
           \/ version' = version /\ pc' = [pc EXCEPT ![t] = "raised"]
        /\ UNCHANGED <<todo, text, incident>>
    BY <1>9 DEF GitAdd
  <2> QED
    BY <1>0, <2>1, <2>2, <2>3 DEF Labels
<1>10. CASE GitCommit(t)
  BY <1>0, <1>10 DEF GitCommit, callVars, Labels
<1>11. CASE Return(t)
  BY <1>0, <1>11 DEF Return, Labels
<1> QED
  BY <1>1, <1>2, <1>3, <1>4, <1>5, <1>6, <1>7, <1>8, <1>9, <1>10, <1>11 DEF Working, Reindex, Finalize

LEMMA CallStep ==
  ASSUME TypeOK, NEW t \in Threads, Working(t)
  PROVE  CallType'
<1>1. \A u \in Threads : HeldType(u)'
  <2> SUFFICES ASSUME NEW u \in Threads PROVE HeldType(u)'
    OBVIOUS
  <2>1. CASE u = t
    BY <2>1, HeldStep
  <2>2. CASE u # t
    <3>1. /\ pc'[u] = pc[u] /\ todo'[u] = todo[u] /\ text'[u] = text[u]
          /\ incident'[u] = incident[u] /\ version'[u] = version[u]
      BY <2>2, Alone DEF TypeOK
    <3> QED
      BY <3>1 DEF HeldType, TypeOK, CallType
  <2> QED
    BY <2>1, <2>2
<1>2. /\ pc' = [u \in Threads |-> pc'[u]] /\ todo' = [u \in Threads |-> todo'[u]]
      /\ text' = [u \in Threads |-> text'[u]] /\ incident' = [u \in Threads |-> incident'[u]]
      /\ version' = [u \in Threads |-> version'[u]]
  BY Alone DEF TypeOK
<1>3. pc' \in [Threads -> Labels] /\ todo' \in [Threads -> SUBSET DOMAIN RunbookFiles]
  BY <1>1, <1>2 DEF HeldType
<1>4. text' \in [Threads -> Texts \cup {NoText}] /\ version' \in [Threads -> Nat]
  BY <1>1, <1>2 DEF HeldType
<1>5. incident' \in [Threads -> Incidents \cup {AnyIncident}]
  BY <1>1, <1>2 DEF HeldType
<1> QED
  BY <1>1, <1>3, <1>4, <1>5 DEF HeldType, CallType

\* What the surroundings do to the calls under way.
LEMMA Surroundings ==
  ASSUME Next, \A t \in Threads : ~Working(t)
  PROVE  \/ \E f \in Files, content \in Contents : EditRunbook(f, content)
         \/ \E i \in Incidents : Draft(i)
         \/ Crash
BY DEF Next, Working

LEMMA BoundStep ==
  ASSUME TypeOK, Next
  PROVE  BoundType'
<1>1. /\ MaxCalls \in Nat /\ MaxEdits \in Nat /\ MaxCrashes \in Nat
      /\ calls \in 0..MaxCalls /\ edits \in 0..MaxEdits /\ crashes \in 0..MaxCrashes
      /\ clean \subseteq Threads /\ refused \subseteq Threads
  BY Limits DEF TypeOK, BoundType
<1>2. /\ calls' = calls \/ (calls < MaxCalls /\ calls' = calls + 1)
      /\ edits' = edits \/ (edits < MaxEdits /\ edits' = edits + 1)
      /\ crashes' = crashes \/ (crashes < MaxCrashes /\ crashes' = crashes + 1)
  BY DEF Next, Reindex, Finalize, ListDir, DeleteRef, ReadFile, IndexRunbook, EndPass, IndexOverride,
     IndexPostmortem, AppendFinalized, GitAdd, GitCommit, Return, Draft, EditRunbook, Crash, Begin, boundVars
<1>3. clean' \subseteq Threads
  BY <1>1 DEF Next, Reindex, Finalize, ListDir, DeleteRef, ReadFile, IndexRunbook, EndPass, IndexOverride,
     IndexPostmortem, AppendFinalized, GitAdd, GitCommit, Return, Draft, EditRunbook, Crash, Interfered
<1>4. refused' \subseteq Threads
  BY <1>1 DEF Next, Reindex, Finalize, ListDir, DeleteRef, ReadFile, IndexRunbook, EndPass, IndexOverride,
     IndexPostmortem, AppendFinalized, GitAdd, GitCommit, Return, Draft, EditRunbook, Crash
<1>5. calls' \in 0..MaxCalls
  BY <1>1, <1>2
<1>6. edits' \in 0..MaxEdits
  BY <1>1, <1>2
<1>7. crashes' \in 0..MaxCrashes
  BY <1>1, <1>2
<1> QED
  BY <1>3, <1>4, <1>5, <1>6, <1>7 DEF BoundType

LEMMA TypeInit == Init => TypeOK
<1> SUFFICES ASSUME Init PROVE TypeOK
  OBVIOUS
<1>1. StoreType
  BY FS_EmptySet DEF Init, StoreType, Contents
<1>2. GitType
  BY DEF Init, GitType
<1>3. CallType
  BY DEF Init, CallType, Labels
<1>4. BoundType
  <2>1. 0 \in 0..MaxCalls /\ 0 \in 0..MaxEdits /\ 0 \in 0..MaxCrashes
    BY Limits
  <2> QED
    BY <2>1 DEF Init, BoundType
<1> QED
  BY <1>1, <1>2, <1>3, <1>4 DEF TypeOK

LEMMA TypeStep == TypeOK /\ [Next]_vars => TypeOK'
<1> SUFFICES ASSUME TypeOK, [Next]_vars PROVE TypeOK'
  OBVIOUS
<1>1. CASE UNCHANGED vars
  BY <1>1 DEF vars, baseVars, gitVars, callVars, boundVars, TypeOK, StoreType, GitType, CallType, BoundType
<1>2. CASE Next
  <2>1. StoreType' /\ GitType' /\ BoundType'
    BY <1>2, StoreStep, GitStep, BoundStep
  <2>2. CASE \E t \in Threads : Working(t)
    BY <2>1, <2>2, CallStep DEF TypeOK
  <2>3. CASE UNCHANGED <<pc, callVars>>
    BY <2>1, <2>3 DEF TypeOK, CallType, callVars
  <2>4. CASE Crash
    BY <2>1, <2>4 DEF TypeOK, CallType, Crash, Labels
  <2>5. UNCHANGED <<pc, callVars>> \/ Crash \/ \E t \in Threads : Working(t)
    BY <1>2, Surroundings DEF EditRunbook, Draft
  <2> QED
    BY <2>2, <2>3, <2>4, <2>5
<1> QED
  BY <1>1, <1>2

\* Everything has its type; beyond that, no two chunks ever share an id, what a
\* chunk refers to exists, and HEAD is never ahead of the index nor the index of
\* the pages.
THEOREM TypeCorrect == Spec => []TypeOK
BY TypeInit, TypeStep, PTL DEF Spec

-----------------------------------------------------------------------------
(* Postmortems.                                                            *)

\* A postmortem that is in the knowledge base stays there: only chunks of
\* runbooks are ever deleted.
LEMMA FiledStays ==
  ASSUME Next, NEW i, NEW id, NEW x, Filed(i, id, x)
  PROVE  Filed(i, id, x)'
<1>1. \A c \in chunks : c.source = "postmortem" => c \in chunks'
  BY DEF Next, Reindex, Finalize, ListDir, DeleteRef, ReadFile, IndexRunbook, EndPass, IndexOverride,
     IndexPostmortem, AppendFinalized, GitAdd, GitCommit, Return, Draft, EditRunbook, Crash,
     insert_knowledge_chunk, delete_knowledge_by_ref, baseVars
<1> QED
  BY <1>1 DEF Filed

\* The event of a finalize names the chunk it inserted.
LEMMA FiledStep ==
  ASSUME TypeOK, EventsFiled, Next
  PROVE  EventsFiled'
<1>1. ASSUME NEW t \in Threads, AppendFinalized(t)
      PROVE  EventsFiled'
  <2>1. events' = events \cup {[incident |-> incident[t], ref |-> version[t], text |-> text[t]]}
    BY <1>1 DEF AppendFinalized
  <2>2. Filed(incident[t], version[t], text[t])
    BY <1>1 DEF AppendFinalized, EventsFiled
  <2>3. \A e \in events' : Filed(e.incident, e.ref, e.text)
    BY <2>1, <2>2 DEF EventsFiled
  <2>4. \A u \in Threads : pc'[u] = "finalizing" =>
          /\ pc[u] = "finalizing" /\ incident'[u] = incident[u] /\ version'[u] = version[u]
          /\ text'[u] = text[u]
    BY <1>1 DEF AppendFinalized, Goto, TypeOK, CallType
  <2>5. chunks' = chunks
    BY <1>1 DEF AppendFinalized, baseVars
  <2> QED
    BY <2>3, <2>4, <2>5 DEF EventsFiled, Filed
<1>2. ASSUME NEW t \in Threads, NEW i \in Incidents, NEW x \in Texts, IndexPostmortem(t, i, x)
      PROVE  EventsFiled'
  <2>1. events' = events /\ Working(t)
    BY <1>2 DEF IndexPostmortem, Working, Finalize
  <2>2. \A e \in events' : Filed(e.incident, e.ref, e.text)'
    BY <2>1, FiledStays DEF EventsFiled
  <2>3. pc'[t] = "finalizing" /\ incident'[t] = i /\ version'[t] = nextId /\ text'[t] = x
    BY <1>2 DEF IndexPostmortem, Begin, Goto, TypeOK, CallType
  <2>4. chunks' = chunks \cup {[id |-> nextId, source |-> "postmortem", ref |-> i, text |-> x]}
    BY <1>2 DEF IndexPostmortem, insert_knowledge_chunk
  <2>5. Filed(incident[t], version[t], text[t])'
    <3> DEFINE new == [id |-> nextId, source |-> "postmortem", ref |-> i, text |-> x]
    <3>1. new.id = nextId /\ new.source = "postmortem" /\ new.ref = i /\ new.text = x
      OBVIOUS
    <3>2. new \in chunks'
      BY <2>4
    <3> HIDE DEF new
    <3>3. \E c \in chunks' : /\ c.id = version'[t] /\ c.source = "postmortem"
                             /\ c.ref = incident'[t] /\ c.text = text'[t]
      BY <2>3, <3>1, <3>2
    <3> QED
      BY <3>3 DEF Filed
  <2>6. \A u \in Threads : u # t /\ pc'[u] = "finalizing" => Filed(incident[u], version[u], text[u])'
    <3> SUFFICES ASSUME NEW u \in Threads, u # t, pc'[u] = "finalizing"
                 PROVE  Filed(incident[u], version[u], text[u])'
      OBVIOUS
    <3>1. /\ pc[u] = "finalizing" /\ incident'[u] = incident[u] /\ version'[u] = version[u]
          /\ text'[u] = text[u]
      BY <2>1, Alone DEF TypeOK
    <3>2. Filed(incident[u], version[u], text[u])
      BY <3>1 DEF EventsFiled
    <3> QED
      BY <2>4, <3>1, <3>2 DEF Filed
  <2> QED
    BY <2>2, <2>5, <2>6 DEF EventsFiled
<1>3. ASSUME events' = events,
             \A u \in Threads : pc'[u] = "finalizing" =>
               /\ pc[u] = "finalizing" /\ incident'[u] = incident[u] /\ version'[u] = version[u]
               /\ text'[u] = text[u]
      PROVE  EventsFiled'
  <2>1. \A e \in events' : Filed(e.incident, e.ref, e.text)'
    BY <1>3, FiledStays DEF EventsFiled
  <2>2. ASSUME NEW u \in Threads, pc'[u] = "finalizing"
        PROVE  Filed(incident[u], version[u], text[u])'
    <3>1. Filed(incident[u], version[u], text[u])
      BY <1>3, <2>2 DEF EventsFiled
    <3>2. \A c \in chunks : c.source = "postmortem" => c \in chunks'
      BY DEF Next, Reindex, Finalize, ListDir, DeleteRef, ReadFile, IndexRunbook, EndPass, IndexOverride,
       IndexPostmortem, AppendFinalized, GitAdd, GitCommit, Return, Draft, EditRunbook, Crash,
       insert_knowledge_chunk, delete_knowledge_by_ref, baseVars
    <3> QED
      BY <1>3, <2>2, <3>1, <3>2 DEF Filed
  <2> QED
    BY <2>1, <2>2 DEF EventsFiled
<1>4. ASSUME NEW t \in Threads, Working(t), ~AppendFinalized(t),
             \A i \in Incidents, x \in Texts : ~IndexPostmortem(t, i, x)
      PROVE  EventsFiled'
  <2>1. events' = events
    BY <1>4 DEF Working, Reindex, Finalize, ListDir, DeleteRef, ReadFile, IndexRunbook, EndPass,
       IndexOverride, GitAdd, GitCommit, Return
  <2>2. pc'[t] # "finalizing"
    BY <1>4 DEF Working, Reindex, Finalize, ListDir, DeleteRef, ReadFile, IndexRunbook, EndPass,
       IndexOverride, GitAdd, GitCommit, Return, Begin, Goto, TypeOK, CallType
  <2>3. \A u \in Threads : u # t => /\ pc'[u] = pc[u] /\ text'[u] = text[u]
                                    /\ incident'[u] = incident[u] /\ version'[u] = version[u]
    BY <1>4, Alone DEF TypeOK
  <2> QED
    BY <1>3, <2>1, <2>2, <2>3
<1>5. CASE \A t \in Threads : ~Working(t)
  <2>1. events' = events /\ (UNCHANGED <<pc, callVars>> \/ \A u \in Threads : pc'[u] = "idle")
    BY <1>5, Surroundings DEF EditRunbook, Draft, Crash
  <2> QED
    BY <1>3, <2>1 DEF callVars
<1> QED
  BY <1>1, <1>2, <1>4, <1>5

\* A search among the postmortems for the text of one finds that text.
LEMMA SearchFinds ==
  ASSUME StoreType, NEW b \in chunks, b.source = "postmortem"
  PROVE  \E hit \in search_knowledge(b.text, {"postmortem"}) : hit.text = b.text
<1> DEFINE query == b.text
           candidates == query_knowledge_chunks({"postmortem"})
           same == {c \in candidates : c.text = query}
           ids == {c.id : c \in same}
           score(c) == IF c.text = query THEN 1 ELSE 0
           before(c, d) == score(c) > score(d) \/ (score(c) = score(d) /\ c.id > d.id)
<1>1. b \in same /\ candidates \subseteq chunks
  BY DEF query_knowledge_chunks
<1>2. \A c \in chunks : c.id \in Nat /\ c.id <= nextId
  <2> TAKE c \in chunks
  <2>1. c.id \in Nat /\ c.id < nextId /\ nextId \in Nat
    BY DEF StoreType
  <2> QED
    BY <2>1
<1>3. ids \in SUBSET Nat /\ ids # {} /\ nextId \in Nat /\ \A n \in ids : n <= nextId
  BY <1>1, <1>2 DEF StoreType
<1>4. Max(ids) \in ids /\ \A n \in ids : n <= Max(ids)
  BY <1>3, MaxOf
<1>5. PICK hit \in same : hit.id = Max(ids)
  BY <1>4
<1>6. ASSUME NEW d \in candidates
      PROVE  ~before(d, hit)
  <2>1. hit.text = query /\ d.id \in Nat /\ hit.id \in Nat
    BY <1>1, <1>2
  <2>2. score(hit) = 1 /\ score(d) \in {0, 1} /\ (score(d) = 1 => d \in same)
    BY <2>1
  <2>3. ~(score(d) > score(hit))
    <3>1. ~(0 > 1) /\ ~(1 > 1)
      OBVIOUS
    <3> QED
      BY <2>2, <3>1
  <2>4. score(d) = score(hit) => ~(d.id > hit.id)
    <3>1. d \in same => d.id <= hit.id
      BY <1>4, <1>5
    <3> QED
      BY <2>1, <2>2, <3>1
  <2> QED
    BY <2>3, <2>4
<1>7. {d \in candidates : before(d, hit)} = {}
  BY <1>6
<1>8. Cardinality({d \in candidates : before(d, hit)}) < TopK
  BY SMTT(30), <1>7, FS_EmptySet, Limits
<1>9. hit \in search_knowledge(query, {"postmortem"})
  BY <1>8 DEF search_knowledge
<1> QED
  BY <1>9

\* PostmortemWriter.finalize and search_knowledge: what the timeline says was
\* finalized has its chunk, under the id the event names, and a search for its
\* conclusion finds it, however runbooks are indexed again and again, whatever
\* shares their names, and wherever the process died between chunk and event.
THEOREM FinalizedSafety == Spec => []FinalizedIsSearchable
<1>1. Init => EventsFiled
  BY DEF Init, EventsFiled
<1>2. TypeOK /\ EventsFiled /\ [Next]_vars => EventsFiled'
  <2> SUFFICES ASSUME TypeOK, EventsFiled, [Next]_vars PROVE EventsFiled'
    OBVIOUS
  <2>1. CASE UNCHANGED vars
    BY <2>1 DEF vars, baseVars, callVars, EventsFiled, Filed
  <2> QED
    BY <2>1, FiledStep
<1>3. TypeOK /\ EventsFiled => FinalizedIsSearchable
  <2> SUFFICES ASSUME TypeOK, EventsFiled, NEW e \in events
               PROVE  /\ \E c \in chunks : c.id = e.ref /\ c.source = "postmortem" /\ c.ref = e.incident
                      /\ \E hit \in search_knowledge(e.text, {"postmortem"}) : hit.text = e.text
    BY DEF FinalizedIsSearchable
  <2>1. PICK c \in chunks : c.id = e.ref /\ c.source = "postmortem" /\ c.ref = e.incident /\ c.text = e.text
    BY DEF EventsFiled, Filed
  <2>2. \E hit \in search_knowledge(c.text, {"postmortem"}) : hit.text = c.text
    BY <2>1, SearchFinds DEF TypeOK
  <2> QED
    BY <2>1, <2>2
<1> QED
  BY <1>1, <1>2, <1>3, TypeCorrect, PTL DEF Spec

\* GitAdd, GitCommit and what they race with: the index and HEAD only move on.
LEMMA GitMoves ==
  ASSUME TypeOK, Next, NEW i \in Incidents
  PROVE  staged[i] <= staged'[i] /\ head[i] <= head'[i]
<1> USE DEF TypeOK
<1>1. /\ staged[i] \in Nat /\ head[i] \in Nat /\ page[i] \in Nat
      /\ head[i] <= staged[i] /\ staged[i] <= page[i]
  BY DEF GitType
<1>2. staged'[i] \in {staged[i], page[i]} /\ head'[i] \in {head[i], staged[i]}
  <2>1. \/ UNCHANGED <<staged, head>>
        \/ \E t \in Threads : GitAdd(t) \/ GitCommit(t)
    BY DEF Next, Reindex, Finalize, ListDir, DeleteRef, ReadFile, IndexRunbook, EndPass, AppendFinalized,
         IndexOverride, IndexPostmortem, Return, EditRunbook, Draft, Crash, gitVars
  <2>2. \A t \in Threads : GitAdd(t) => head' = head /\ staged'[i] \in {staged[i], page[i]}
    BY DEF GitAdd, GitType
  <2>3. \A t \in Threads : GitCommit(t) => staged' = staged /\ head'[i] \in {head[i], staged[i]}
    BY DEF GitCommit, GitType
  <2> QED
    BY <2>1, <2>2, <2>3
<1> QED
  BY <1>1, <1>2

LEMMA CommitStep ==
  ASSUME TypeOK, CommitInv, Next
  PROVE  CommitInv'
<1> SUFFICES ASSUME NEW u \in Threads
             PROVE  /\ pc'[u] = "idle" => version'[u] = 0
                    /\ pc'[u] \in {"commit", "returned"} => version'[u] <= staged'[incident'[u]]
                    /\ pc'[u] = "returned" /\ u \notin refused' => version'[u] <= head'[incident'[u]]
  BY DEF CommitInv
<1>0. /\ pc[u] = "idle" => version[u] = 0
      /\ pc[u] \in {"commit", "returned"} => version[u] <= staged[incident[u]]
      /\ pc[u] = "returned" /\ u \notin refused => version[u] <= head[incident[u]]
  BY DEF CommitInv
<1>1. CASE /\ pc'[u] = pc[u] /\ version'[u] = version[u] /\ incident'[u] = incident[u]
           /\ u \in refused => u \in refused' \/ pc[u] # "returned"
  <2>1. pc[u] \in {"commit", "returned"} =>
          /\ incident[u] \in Incidents /\ version[u] \in Nat
          /\ head[incident[u]] \in Nat /\ staged[incident[u]] \in Nat
          /\ head'[incident[u]] \in Nat /\ staged'[incident[u]] \in Nat
    BY GitStep DEF TypeOK, CallType, GitType
  <2>2. pc[u] \in {"commit", "returned"} =>
          staged[incident[u]] <= staged'[incident[u]] /\ head[incident[u]] <= head'[incident[u]]
    BY <2>1, GitMoves
  <2>3. pc[u] \in {"commit", "returned"} => version[u] <= staged'[incident[u]]
    BY <1>0, <1>1, <2>1, <2>2
  <2>4. CASE pc[u] = "returned" /\ u \notin refused'
    BY <1>0, <1>1, <2>1, <2>2, <2>3, <2>4
  <2> QED
    BY <1>0, <1>1, <2>3, <2>4
<1>2. CASE Working(u)
  <2>1. /\ pc \in [Threads -> Labels] /\ version \in [Threads -> Nat] /\ CallType
        /\ incident \in [Threads -> Incidents \cup {AnyIncident}] /\ GitType
    BY DEF TypeOK, CallType
  <2>2. CASE GitAdd(u)
    <3>1. /\ incident[u] \in Incidents /\ incident' = incident
      BY <2>1, <2>2 DEF GitAdd, CallType
    <3>2. \/ pc'[u] = "raised"
          \/ /\ pc'[u] = "commit" /\ version'[u] = page[incident[u]]
             /\ staged'[incident[u]] = page[incident[u]]
      BY <2>1, <2>2, <3>1 DEF GitAdd, Goto, GitType
    <3>3. page[incident[u]] \in Nat
      BY <3>1 DEF TypeOK, GitType
    <3> QED
      BY <3>1, <3>2, <3>3
  <2>3. CASE GitCommit(u)
    <3>1. pc[u] = "commit" /\ UNCHANGED <<incident, version, staged>> /\ pc'[u] = "returned"
      BY <2>1, <2>3 DEF GitCommit, Goto, callVars
    <3>2. head' = staged \/ u \in refused'
      BY <2>3 DEF GitCommit
    <3> QED
      BY <1>0, <3>1, <3>2
  <2>4. CASE \E i \in Incidents, x \in Texts : IndexOverride(u, i, x)
    <3>1. pc[u] = "idle" /\ pc'[u] = "returned" /\ UNCHANGED <<incident, version, head, staged>>
      BY <2>1, <2>4 DEF IndexOverride, Begin, Goto, callVars, gitVars
    <3>2. incident[u] \in Incidents
      <4>1. pc'[u] = "returned" => incident'[u] \in Incidents
        BY <1>2, CallStep DEF CallType
      <4> QED
        BY <3>1, <4>1
    <3>3. 0 <= head[incident[u]] /\ 0 <= staged[incident[u]]
      BY <2>1, <3>2 DEF GitType
    <3> QED
      BY <1>0, <3>1, <3>3
  <2>5. CASE AppendFinalized(u)
    <3>1. pc[u] = "finalizing" /\ pc'[u] \in {"returned", "add"} /\ version'[u] = 0
          /\ UNCHANGED <<incident, head, staged>>
      BY <2>1, <2>5 DEF AppendFinalized, Goto, gitVars
    <3>2. incident[u] \in Incidents
      BY <2>1, <3>1 DEF CallType
    <3>3. 0 <= head[incident[u]] /\ 0 <= staged[incident[u]]
      BY <2>1, <3>2 DEF GitType
    <3> QED
      BY <3>1, <3>3
  <2>6. CASE Return(u)
    BY <2>1, <2>6 DEF Return, Goto
  <2>7. CASE Reindex(u) \/ \E i \in Incidents, x \in Texts : IndexPostmortem(u, i, x)
    <3>1. pc'[u] \in {"scan", "read", "embed", "indexed", "raised", "finalizing"}
      BY <2>1, <2>7 DEF Reindex, ListDir, DeleteRef, ReadFile, IndexRunbook, EndPass, IndexPostmortem, Begin, Goto
    <3> QED
      BY <3>1
  <2> QED
    BY <1>2, <2>2, <2>3, <2>4, <2>5, <2>6, <2>7 DEF Working, Finalize
<1>3. ASSUME NEW t \in Threads, Working(t), t # u
      PROVE  /\ pc'[u] = pc[u] /\ version'[u] = version[u] /\ incident'[u] = incident[u]
             /\ u \in refused => u \in refused' \/ pc[u] # "returned"
  <2>1. pc'[u] = pc[u] /\ version'[u] = version[u] /\ incident'[u] = incident[u]
    BY <1>3, Alone DEF TypeOK
  <2>2. refused \ {t} \subseteq refused'
    BY <1>3 DEF Working, Reindex, Finalize, ListDir, DeleteRef, ReadFile, IndexRunbook, EndPass, IndexOverride,
       IndexPostmortem, AppendFinalized, GitAdd, GitCommit, Return
  <2> QED
    BY <1>3, <2>1, <2>2
<1>4. CASE \A t \in Threads : ~Working(t)
  <2>1. CASE Crash
    BY <2>1 DEF Crash
  <2>2. CASE ~Crash
    <3>1. UNCHANGED <<pc, version, incident, refused>>
      BY <1>4, <2>2, Surroundings DEF EditRunbook, Draft, callVars
    <3> QED
      BY <1>1, <3>1
  <2> QED
    BY <2>1, <2>2
<1> QED
  BY <1>1, <1>2, <1>3, <1>4

\* PostmortemWriter._git_commit: a finalize that returned has its page staged, and in
\* HEAD, or a later version, whichever threads staged and committed in between; the
\* second unless a commit of its own failed, for whatever reason git had.
THEOREM CommitSafety == Spec => []ReturnedIsCommitted
<1>1. Init => CommitInv
  BY DEF Init, CommitInv
<1>2. TypeOK /\ CommitInv /\ [Next]_vars => CommitInv'
  <2> SUFFICES ASSUME TypeOK, CommitInv, [Next]_vars PROVE CommitInv'
    OBVIOUS
  <2>1. CASE UNCHANGED vars
    BY <2>1 DEF vars, gitVars, callVars, CommitInv
  <2> QED
    BY <2>1, CommitStep
<1>3. TypeOK /\ CommitInv => ReturnedIsCommitted
  <2> SUFFICES ASSUME TypeOK, CommitInv, NEW t \in Threads, pc[t] = "returned"
               PROVE  /\ staged[incident[t]] >= version[t]
                      /\ t \notin refused => head[incident[t]] >= version[t]
    BY DEF ReturnedIsCommitted
  <2>1. /\ version[t] <= staged[incident[t]]
        /\ t \notin refused => version[t] <= head[incident[t]]
    BY DEF CommitInv
  <2>2. version[t] \in Nat /\ head[incident[t]] \in Nat /\ staged[incident[t]] \in Nat
    BY DEF TypeOK, CallType, GitType
  <2> QED
    BY <2>1, <2>2
<1> QED
  BY <1>1, <1>2, <1>3, TypeCorrect, PTL DEF Spec

-----------------------------------------------------------------------------
(* Runbooks.                                                               *)

\* Only these two steps touch the chunks of runbooks.
LEMMA RunbookChanges ==
  ASSUME TypeOK, Next
  PROVE  \/ \A stem : RunbookChunks(stem)' = RunbookChunks(stem)
         \/ \E t \in Threads : DeleteRef(t)
         \/ \E t \in Threads : pc[t] = "embed" /\ IndexRunbook(t)
                                /\ insert_knowledge_chunk("runbook", StemNow(t), text[t])
<1>1. \/ chunks' = chunks
      \/ \E t \in Threads : DeleteRef(t)
      \/ \E t \in Threads : pc[t] = "embed" /\ IndexRunbook(t)
                             /\ insert_knowledge_chunk("runbook", StemNow(t), text[t])
      \/ \E t \in Threads, i \in Incidents, x \in Texts : IndexOverride(t, i, x) \/ IndexPostmortem(t, i, x)
  BY DEF Next, Reindex, Finalize, ListDir, ReadFile, IndexRunbook, EndPass, AppendFinalized, GitAdd,
         GitCommit, Return, Draft, EditRunbook, Crash, baseVars
<1>2. ASSUME NEW t \in Threads, NEW i \in Incidents, NEW x \in Texts,
             IndexOverride(t, i, x) \/ IndexPostmortem(t, i, x)
      PROVE  \A stem : RunbookChunks(stem)' = RunbookChunks(stem)
  <2>1. \E source \in {"override", "postmortem"} :
          chunks' = chunks \cup {[id |-> nextId, source |-> source, ref |-> i, text |-> x]}
    BY <1>2 DEF IndexOverride, IndexPostmortem, insert_knowledge_chunk
  <2> QED
    BY <2>1 DEF RunbookChunks
<1>3. chunks' = chunks => \A stem : RunbookChunks(stem)' = RunbookChunks(stem)
  BY DEF RunbookChunks
<1> QED
  BY <1>1, <1>2, <1>3

\* delete_knowledge_by_ref leaves nothing of the stem and everything else.
LEMMA DeleteEmpties ==
  ASSUME NEW t \in Threads, DeleteRef(t)
  PROVE  /\ RunbookChunks(StemNow(t))' = {}
         /\ \A stem \in Stems : stem # StemNow(t) => RunbookChunks(stem)' = RunbookChunks(stem)
         /\ StemNow(t)' = StemNow(t) /\ FileNow(t)' = FileNow(t)
<1>1. todo' = todo /\ chunks' = {c \in chunks : ~(c.source = "runbook" /\ c.ref = StemNow(t))}
  BY DEF DeleteRef, delete_knowledge_by_ref, callVars
<1>2. StemNow(t)' = StemNow(t) /\ FileNow(t)' = FileNow(t)
  BY <1>1 DEF StemNow, FileNow
<1> QED
  BY <1>1, <1>2 DEF RunbookChunks

\* index_runbook adds one chunk to its stem.
LEMMA InsertAdds ==
  ASSUME TypeOK, NEW t \in Threads, pc[t] = "embed", insert_knowledge_chunk("runbook", StemNow(t), text[t])
  PROVE  /\ \E new : /\ new.text = text[t] /\ new \notin chunks
                     /\ {c \in chunks' : c.source = "runbook" /\ c.ref = StemNow(t)}
                          = RunbookChunks(StemNow(t)) \cup {new}
         /\ \A stem \in Stems : stem # StemNow(t) => RunbookChunks(stem)' = RunbookChunks(stem)
<1> DEFINE new == [id |-> nextId, source |-> "runbook", ref |-> StemNow(t), text |-> text[t]]
<1>1. chunks' = chunks \cup {new}
  BY DEF insert_knowledge_chunk
<1>2. new.source = "runbook" /\ new.ref = StemNow(t) /\ new.text = text[t] /\ new.id = nextId
  OBVIOUS
<1> HIDE DEF new
<1>3. new \notin chunks
  <2>1. nextId \in Nat /\ ~(nextId < nextId)
    BY DEF TypeOK, StoreType
  <2> QED
    BY <1>2, <2>1 DEF TypeOK, StoreType
<1> QED
  BY <1>1, <1>2, <1>3 DEF RunbookChunks

\* The sets that are counted are finite.
LEMMA CopiesFinite ==
  ASSUME StoreType, NEW stem
  PROVE  /\ IsFiniteSet(RunbookChunks(stem)) /\ Cardinality(RunbookChunks(stem)) \in Nat
         /\ IsFiniteSet(Busy(stem)) /\ Cardinality(Busy(stem)) \in Nat
         /\ Cardinality(Busy(stem)) <= Cardinality(Threads) /\ Cardinality(Threads) \in Nat
<1>1. RunbookChunks(stem) \in SUBSET chunks /\ Busy(stem) \in SUBSET Threads
  BY DEF RunbookChunks, Busy
<1>2. IsFiniteSet(chunks) /\ IsFiniteSet(Threads)
  BY Limits DEF StoreType
<1> QED
  BY <1>1, <1>2, FS_Subset, FS_CardinalityType

\* A thread that inserts a copy deleted the others first, and every copy that came
\* back meanwhile is of a thread that had deleted before.
LEMMA CopiesStep ==
  ASSUME TypeOK, CopiesBounded, Next
  PROVE  CopiesBounded'
<1> SUFFICES ASSUME NEW stem \in Stems
             PROVE  Cardinality(RunbookChunks(stem)') + Cardinality(Busy(stem)') <= Cardinality(Threads)
  BY DEF CopiesBounded, Busy
<1>0. /\ CallType /\ StoreType /\ StoreType' /\ pc \in [Threads -> Labels]
      /\ todo \in [Threads -> SUBSET DOMAIN RunbookFiles]
  BY StoreStep DEF TypeOK, CallType
<1>1. /\ IsFiniteSet(RunbookChunks(stem)) /\ Cardinality(RunbookChunks(stem)) \in Nat
      /\ IsFiniteSet(Busy(stem)) /\ Cardinality(Busy(stem)) \in Nat /\ Cardinality(Threads) \in Nat
  BY <1>0, CopiesFinite
<1>2. Cardinality(Busy(stem)') <= Cardinality(Threads) /\ Cardinality(Busy(stem)') \in Nat
  <2>1. Busy(stem)' \in SUBSET Threads /\ IsFiniteSet(Threads)
    BY Limits DEF Busy
  <2> QED
    BY <2>1, FS_Subset, FS_CardinalityType
<1>3. Cardinality(RunbookChunks(stem)) + Cardinality(Busy(stem)) <= Cardinality(Threads)
  BY DEF CopiesBounded, Busy
<1>4. ASSUME NEW t \in Threads, DeleteRef(t)
      PROVE  Cardinality(RunbookChunks(stem)') + Cardinality(Busy(stem)') <= Cardinality(Threads)
  <2>1. CASE stem = StemNow(t)
    <3>1. RunbookChunks(stem)' = {}
      BY <1>4, <2>1, DeleteEmpties
    <3>2. Cardinality(RunbookChunks(stem)') = 0
      BY <3>1, FS_EmptySet
    <3> QED
      BY <1>1, <1>2, <3>2
  <2>2. CASE stem # StemNow(t)
    <3>1. RunbookChunks(stem)' = RunbookChunks(stem) /\ StemNow(t)' = StemNow(t)
      BY <1>4, <2>2, DeleteEmpties
    <3>2. todo' = todo /\ pc' = [pc EXCEPT ![t] = "read"] /\ pc[t] = "scan"
      BY <1>4 DEF DeleteRef, Goto, callVars
    <3>3. Busy(stem)' = Busy(stem)
      BY <1>0, <2>2, <3>1, <3>2 DEF Busy, StemNow, FileNow
    <3> QED
      BY <1>3, <3>1, <3>3
  <2> QED
    BY <2>1, <2>2
<1>5. ASSUME NEW t \in Threads, pc[t] = "embed", IndexRunbook(t),
             insert_knowledge_chunk("runbook", StemNow(t), text[t])
      PROVE  Cardinality(RunbookChunks(stem)') + Cardinality(Busy(stem)') <= Cardinality(Threads)
  <2>1. pc'[t] \notin {"read", "embed"} /\ \A u \in Threads : u # t => pc'[u] = pc[u] /\ todo'[u] = todo[u]
    BY <1>0, <1>5 DEF IndexRunbook, Goto, Done
  <2>2. CASE stem = StemNow(t)
    <3>1. PICK new : new \notin chunks /\ RunbookChunks(stem)' = RunbookChunks(stem) \cup {new}
      BY <1>5, <2>2, InsertAdds DEF RunbookChunks
    <3>2. new \notin RunbookChunks(stem)
      BY <3>1 DEF RunbookChunks
    <3>3. Cardinality(RunbookChunks(stem)') = Cardinality(RunbookChunks(stem)) + 1
      BY <1>1, <3>1, <3>2, FS_AddElement
    <3>4. t \in Busy(stem) /\ Busy(stem)' = Busy(stem) \ {t}
      BY <1>5, <2>1, <2>2 DEF Busy, StemNow, FileNow
    <3>5. Cardinality(Busy(stem)') = Cardinality(Busy(stem)) - 1
      BY <1>1, <3>4, FS_RemoveElement
    <3> QED
      BY <1>1, <1>3, <3>3, <3>5
  <2>3. CASE stem # StemNow(t)
    <3>1. RunbookChunks(stem)' = RunbookChunks(stem)
      BY <1>5, <2>3, InsertAdds
    <3>2. Busy(stem)' = Busy(stem)
      BY <1>5, <2>1, <2>3 DEF Busy, StemNow, FileNow
    <3> QED
      BY <1>3, <3>1, <3>2
  <2> QED
    BY <2>2, <2>3
<1>6. CASE /\ RunbookChunks(stem)' = RunbookChunks(stem)
           /\ \A t \in Threads : ~DeleteRef(t)
  <2>1. \A u \in Threads : pc'[u] \in {"read", "embed"} => pc[u] \in {"read", "embed"} /\ todo'[u] = todo[u]
    <3>1. CASE \E t \in Threads : Working(t)
      <4>1. PICK t \in Threads : Working(t)
        BY <3>1
      <4>2. pc'[t] \in {"read", "embed"} => pc[t] \in {"read", "embed"} /\ todo'[t] = todo[t]
        BY <1>0, <1>6, <4>1 DEF Working, Reindex, Finalize, ListDir, ReadFile, IndexRunbook, EndPass,
           IndexOverride, IndexPostmortem, AppendFinalized, GitAdd, GitCommit, Return, Begin, Goto, callVars
      <4> QED
        BY <1>0, <4>1, <4>2, Alone
    <3>2. CASE \A t \in Threads : ~Working(t)
      BY <3>2, Surroundings DEF EditRunbook, Draft, Crash, callVars
    <3> QED
      BY <3>1, <3>2
  <2>2. Busy(stem)' \in SUBSET Busy(stem)
    BY <2>1 DEF Busy, StemNow, FileNow
  <2>3. Cardinality(Busy(stem)') <= Cardinality(Busy(stem))
    BY <1>1, <2>2, FS_Subset
  <2> QED
    BY <1>1, <1>2, <1>3, <1>6, <2>3
<1> QED
  BY <1>4, <1>5, <1>6, RunbookChanges

\* KnowledgeIndexer.reindex_runbooks and its two store calls: however many passes
\* overlap, there are never more copies of a runbook than threads that index.
THEOREM CopiesSafety == Spec => []CopiesBounded
<1>1. Init => CopiesBounded
  <2> SUFFICES ASSUME Init, NEW stem \in Stems
               PROVE  Cardinality(RunbookChunks(stem)) + Cardinality(Busy(stem)) <= Cardinality(Threads)
    BY DEF CopiesBounded, Busy
  <2>1. RunbookChunks(stem) = {} /\ Busy(stem) = {}
    BY DEF Init, RunbookChunks, Busy
  <2>2. Cardinality({}) = 0 /\ Cardinality(Threads) \in Nat
    BY FS_EmptySet, FS_CardinalityType, Limits
  <2> QED
    BY <2>1, <2>2
<1>2. TypeOK /\ CopiesBounded /\ [Next]_vars => CopiesBounded'
  <2> SUFFICES ASSUME TypeOK, CopiesBounded, [Next]_vars PROVE CopiesBounded'
    OBVIOUS
  <2>1. CASE UNCHANGED vars
    BY <2>1 DEF vars, baseVars, callVars, CopiesBounded, RunbookChunks, StemNow, FileNow
  <2> QED
    BY <2>1, CopiesStep
<1> QED
  BY <1>1, <1>2, TypeCorrect, PTL DEF Spec

-----------------------------------------------------------------------------
(* A pass nobody interferes with.                                          *)

\* The files a pass has been through come before the one it is at.
LEMMA PassedBefore ==
  ASSUME TypeOK, NEW t \in Threads, PassAt(t), todo[t] # {}
  PROVE  /\ Min(todo[t]) \in Present(StemNow(t)) /\ Min(todo[t]) \in Nat
         /\ \A stem \in Stems : stem # StemNow(t) => Min(todo[t]) \notin Present(stem)
         /\ \A stem \in Stems : \A j \in Passed(t, stem) : j \in Nat /\ ~(Min(todo[t]) <= j)
<1>1. /\ Min(todo[t]) \in todo[t] /\ Min(todo[t]) \in DOMAIN RunbookFiles /\ DOMAIN RunbookFiles \subseteq Nat
      /\ \A k \in todo[t] : Min(todo[t]) <= k
  BY FileNowType, Directory DEF TypeOK
<1>2. Min(todo[t]) \in There /\ \A j \in There : Min(todo[t]) <= j => j \in todo[t]
  BY <1>1 DEF PassAt
<1>3. Min(todo[t]) \in Present(StemNow(t))
  BY <1>2 DEF There, Present, StemNow, FileNow
<1>4. \A stem \in Stems : stem # StemNow(t) => Min(todo[t]) \notin Present(stem)
  BY DEF Present, StemNow, FileNow
<1>5. \A stem \in Stems : \A j \in Passed(t, stem) : j \in There /\ j \notin todo[t]
  BY DEF Passed, Present, There
<1>6. There \subseteq Nat
  BY <1>1 DEF There
<1> QED
  BY <1>1, <1>2, <1>3, <1>4, <1>5, <1>6

\* When the file a pass is at is done, its stem is as that file says.
LEMMA FileDone ==
  ASSUME TypeOK, NEW t \in Threads, PassAt(t), todo[t] # {}, pc[t] \in {"read", "embed"},
         pc'[t] = "scan", todo'[t] = todo[t] \ {Min(todo[t])}, files' = files,
         \A stem \in Stems : stem # StemNow(t) => RunbookChunks(stem)' = RunbookChunks(stem),
         {c.text : c \in {c \in chunks' : c.source = "runbook" /\ c.ref = StemNow(t)}}
           = {files[FileNow(t)]} \cap Texts,
         \A c, d \in chunks' : c.source = "runbook" /\ c.ref = StemNow(t)
                                 /\ d.source = "runbook" /\ d.ref = StemNow(t) => c = d
  PROVE  PassAt(t)'
<1> DEFINE m == Min(todo[t])
           s == StemNow(t)
<1>0. /\ m \in Present(s) /\ m \in todo[t] /\ m \in Nat /\ \A k \in todo[t] : m <= k
      /\ \A stem \in Stems : stem # s => m \notin Present(stem)
      /\ \A stem \in Stems : \A j \in Passed(t, stem) : j \in Nat /\ ~(m <= j)
  BY PassedBefore, FileNowType DEF TypeOK
<1>1. There' = There /\ \A stem \in Stems : Present(stem)' = Present(stem)
  BY DEF There, Present
<1>2. todo'[t] \subseteq There'
  BY <1>1 DEF PassAt
<1>3. todo[t] \subseteq Nat
  BY Directory DEF TypeOK, CallType
<1>4. \A k \in todo'[t], j \in There' : k <= j => j \in todo'[t]
  <2> SUFFICES ASSUME NEW k \in todo'[t], NEW j \in There', k <= j PROVE j \in todo'[t]
    OBVIOUS
  <2>1. k \in todo[t] /\ k # m /\ j \in todo[t]
    BY <1>1 DEF PassAt
  <2>2. m <= k /\ m \in Nat /\ k \in Nat /\ j \in Nat
    BY <1>0, <1>3, <2>1
  <2>3. j # m
    BY <2>1, <2>2
  <2> QED
    BY <2>1, <2>3
<1>5. ASSUME NEW stem \in Stems, NEW k \in Passed(t, stem)', \A j \in Passed(t, stem)' : j <= k
      PROVE  Exact(stem, files[RunbookFiles[k]])'
  <2>1. CASE stem = s
    <3>1. m \in Passed(t, stem)' /\ \A j \in Passed(t, stem)' : j = m \/ j \in Passed(t, s)
      BY <1>0, <1>1, <2>1 DEF Passed
    <3>2. m <= k /\ (k = m \/ k \in Passed(t, s))
      BY <1>5, <2>1, <3>1
    <3>3. k = m
      BY <1>0, <2>1, <3>2
    <3>4. files'[RunbookFiles[k]] = files[FileNow(t)]
      BY <3>3 DEF FileNow
    <3>5. RunbookChunks(stem)' = {c \in chunks' : c.source = "runbook" /\ c.ref = s}
      BY <2>1 DEF RunbookChunks
    <3> QED
      BY <3>4, <3>5 DEF Exact
  <2>2. CASE stem # s
    <3>1. Passed(t, stem)' = Passed(t, stem)
      BY <1>0, <1>1, <2>2 DEF Passed
    <3>2. Exact(stem, files[RunbookFiles[k]])
      BY <1>5, <2>2, <3>1 DEF PassAt
    <3>3. RunbookChunks(stem)' = RunbookChunks(stem)
      BY <2>2
    <3> QED
      BY <3>2, <3>3 DEF Exact
  <2> QED
    BY <2>1, <2>2
<1> QED
  BY <1>2, <1>4, <1>5 DEF PassAt

\* Nothing a pass looks at changes.
LEMMA PassStays ==
  ASSUME NEW t \in Threads, PassAt(t), pc'[t] = pc[t] \/ (pc[t] = "scan" /\ pc'[t] = "indexed"),
         todo'[t] = todo[t], text'[t] = text[t], files' = files,
         \A stem : RunbookChunks(stem)' = RunbookChunks(stem)
  PROVE  PassAt(t)'
<1>1. There' = There /\ \A stem \in Stems : Present(stem)' = Present(stem) /\ Passed(t, stem)' = Passed(t, stem)
  BY DEF There, Present, Passed
<1>2. StemNow(t)' = StemNow(t) /\ FileNow(t)' = FileNow(t)
  BY DEF StemNow, FileNow
<1>3. RunbookChunks(StemNow(t))' = RunbookChunks(StemNow(t))
  BY <1>2 DEF RunbookChunks
<1>4. \A stem \in Stems : \A content : Exact(stem, content)' = Exact(stem, content)
  BY DEF Exact
<1> QED
  BY <1>1, <1>2, <1>3, <1>4 DEF PassAt

LEMMA PassStep ==
  ASSUME TypeOK, PassInv, Next
  PROVE  PassInv'
<1> SUFFICES ASSUME NEW u \in clean', pc'[u] \in Reindexing PROVE PassAt(u)'
  BY DEF PassInv, Reindexing
<1> USE DEF Goto
<1>0. /\ CallType /\ pc \in [Threads -> Labels] /\ todo \in [Threads -> SUBSET DOMAIN RunbookFiles]
      /\ text \in [Threads -> Texts \cup {NoText}] /\ u \in Threads /\ clean \subseteq Threads
  BY BoundStep DEF TypeOK, CallType, BoundType
<1>1. u \in clean /\ pc[u] \in Reindexing => PassAt(u)
  BY DEF PassInv
<1>2. CASE ListDir(u)
  <2>1. pc'[u] = "scan" /\ todo'[u] = There /\ files' = files
    BY <1>0, <1>2 DEF ListDir, Begin, There
  <2>2. There' = There /\ \A stem \in Stems : Passed(u, stem)' = {}
    BY <2>1 DEF There, Present, Passed
  <2> QED
    BY <2>1, <2>2 DEF PassAt
<1>3. CASE DeleteRef(u)
  <2>1. /\ pc[u] = "scan" /\ pc'[u] = "read" /\ todo' = todo /\ text' = text /\ files' = files /\ u \in clean
    BY <1>0, <1>3 DEF DeleteRef, callVars, Interfered
  <2>2. /\ RunbookChunks(StemNow(u))' = {} /\ StemNow(u)' = StemNow(u)
        /\ \A stem \in Stems : stem # StemNow(u) => RunbookChunks(stem)' = RunbookChunks(stem)
    BY <1>0, <1>3, DeleteEmpties
  <2>3. PassAt(u)
    BY <1>1, <2>1 DEF Reindexing
  <2>4. There' = There /\ \A stem \in Stems : Passed(u, stem)' = Passed(u, stem)
    BY <2>1 DEF There, Present, Passed
  <2>5. ASSUME NEW stem \in Stems, stem # StemNow(u), NEW k \in Passed(u, stem)',
               \A j \in Passed(u, stem)' : j <= k
        PROVE  Exact(stem, files[RunbookFiles[k]])'
    <3>1. Exact(stem, files[RunbookFiles[k]])
      BY <2>1, <2>3, <2>4, <2>5 DEF PassAt
    <3> QED
      BY <2>1, <2>2, <2>5, <3>1 DEF Exact
  <2> QED
    BY <2>1, <2>2, <2>3, <2>4, <2>5 DEF PassAt
<1>4. CASE ReadFile(u)
  <2>1. /\ pc[u] = "read" /\ todo[u] # {} /\ files' = files /\ chunks' = chunks /\ u \in clean
    BY <1>0, <1>4 DEF ReadFile, CallType, baseVars
  <2>2. PassAt(u) /\ StemNow(u) \in Stems
    BY <1>0, <1>1, <2>1, FileNowType DEF Reindexing
  <2>3. RunbookChunks(StemNow(u)) = {}
    BY <2>1, <2>2 DEF PassAt
  <2>4. CASE files[FileNow(u)] = "blank"
    <3>1. pc'[u] = "scan" /\ todo'[u] = todo[u] \ {Min(todo[u])}
      BY <1>0, <1>4, <2>4, SpecialContents DEF ReadFile, Done
    <3>2. {files[FileNow(u)]} \cap Texts = {}
      BY <2>4, SpecialContents
    <3>3. {c \in chunks' : c.source = "runbook" /\ c.ref = StemNow(u)} = {}
      BY <2>1, <2>3 DEF RunbookChunks
    <3>4. \A stem \in Stems : RunbookChunks(stem)' = RunbookChunks(stem)
      BY <2>1 DEF RunbookChunks
    <3>5. {c.text : c \in {c \in chunks' : c.source = "runbook" /\ c.ref = StemNow(u)}}
            = {files[FileNow(u)]} \cap Texts
      BY <3>2, <3>3
    <3>6. \A c, d \in chunks' : c.source = "runbook" /\ c.ref = StemNow(u)
                                 /\ d.source = "runbook" /\ d.ref = StemNow(u) => c = d
      BY <3>3
    <3> QED
      BY <1>0, <2>1, <2>2, <3>1, <3>4, <3>5, <3>6, FileDone
  <2>5. CASE files[FileNow(u)] # "blank"
    <3>1. /\ pc'[u] = "embed" /\ text'[u] = files[FileNow(u)] /\ todo'[u] = todo[u]
      BY <1>0, <1>4, <2>5 DEF ReadFile, Reindexing
    <3>2. There' = There /\ \A stem \in Stems : Passed(u, stem)' = Passed(u, stem)
      BY <2>1, <3>1 DEF There, Present, Passed
    <3>3. StemNow(u)' = StemNow(u) /\ FileNow(u)' = FileNow(u)
      BY <3>1 DEF StemNow, FileNow
    <3>4. \A stem : RunbookChunks(stem)' = RunbookChunks(stem)
      BY <2>1 DEF RunbookChunks
    <3>5. RunbookChunks(StemNow(u))' = RunbookChunks(StemNow(u))
      BY <2>1, <3>3 DEF RunbookChunks
    <3>6. \A stem \in Stems : \A content : Exact(stem, content)' = Exact(stem, content)
      BY <3>4 DEF Exact
    <3> QED
      BY <2>1, <2>2, <3>1, <3>2, <3>3, <3>5, <3>6 DEF PassAt
  <2> QED
    BY <2>4, <2>5
<1>5. CASE IndexRunbook(u)
  <2>1. /\ pc[u] = "embed" /\ todo[u] # {} /\ text[u] \in Texts /\ files' = files
        /\ insert_knowledge_chunk("runbook", StemNow(u), text[u])
        /\ pc'[u] = "scan" /\ todo'[u] = todo[u] \ {Min(todo[u])} /\ u \in clean
    BY <1>0, <1>5 DEF IndexRunbook, CallType, Done, Interfered, Reindexing
  <2>2. PassAt(u) /\ StemNow(u) \in Stems
    BY <1>0, <1>1, <2>1, FileNowType DEF Reindexing
  <2>3. RunbookChunks(StemNow(u)) = {} /\ text[u] = files[FileNow(u)]
    BY <2>1, <2>2 DEF PassAt
  <2>4. PICK new : /\ new.text = text[u]
                   /\ {c \in chunks' : c.source = "runbook" /\ c.ref = StemNow(u)} = {new}
    BY <1>0, <2>1, <2>3, InsertAdds
  <2>5. \A stem \in Stems : stem # StemNow(u) => RunbookChunks(stem)' = RunbookChunks(stem)
    BY <1>0, <2>1, InsertAdds
  <2>6. {c.text : c \in {c \in chunks' : c.source = "runbook" /\ c.ref = StemNow(u)}}
          = {files[FileNow(u)]} \cap Texts
    BY <2>1, <2>3, <2>4
  <2>7. \A c, d \in chunks' : c.source = "runbook" /\ c.ref = StemNow(u)
                               /\ d.source = "runbook" /\ d.ref = StemNow(u) => c = d
    BY <2>4
  <2> QED
    BY <1>0, <2>1, <2>2, <2>5, <2>6, <2>7, FileDone
<1>6. CASE EndPass(u)
  <2>1. /\ pc[u] = "scan" /\ pc'[u] = "indexed" /\ todo' = todo /\ text' = text /\ files' = files
        /\ chunks' = chunks /\ u \in clean
    BY <1>0, <1>6 DEF EndPass, callVars, baseVars
  <2>2. \A stem : RunbookChunks(stem)' = RunbookChunks(stem)
    BY <2>1 DEF RunbookChunks
  <2> QED
    BY <1>0, <1>1, <2>1, <2>2, PassStays DEF Reindexing
<1>7. CASE Working(u) /\ ~Reindex(u)
  BY <1>0, <1>7 DEF Working, Finalize, IndexOverride, IndexPostmortem, AppendFinalized, GitAdd, GitCommit,
     Return, Begin, Reindexing
<1>8. ASSUME NEW t \in Threads, Working(t), t # u
      PROVE  PassAt(u)'
  <2>1. pc'[u] = pc[u] /\ todo'[u] = todo[u] /\ text'[u] = text[u]
    BY <1>0, <1>8, Alone
  <2>2. u \in clean /\ files' = files
    BY <1>8 DEF Working, Reindex, Finalize, ListDir, DeleteRef, ReadFile, IndexRunbook, EndPass, IndexOverride,
       IndexPostmortem, AppendFinalized, GitAdd, GitCommit, Return, Interfered
  <2>3. \A stem : RunbookChunks(stem)' = RunbookChunks(stem)
    <3>1. ASSUME NEW v \in Threads, DeleteRef(v)
          PROVE  FALSE
      <4>1. clean' = clean \cap {v} /\ pc[v] = "scan" /\ pc'[v] = "read"
        BY <1>0, <3>1 DEF DeleteRef, Interfered
      <4>2. v = t
        BY <1>0, <1>8, <4>1, Alone
      <4> QED
        BY <1>8, <4>1, <4>2
    <3>2. ASSUME NEW v \in Threads, pc[v] = "embed", IndexRunbook(v),
                 insert_knowledge_chunk("runbook", StemNow(v), text[v])
          PROVE  FALSE
      <4>1. pc'[v] # "embed" /\ nextId' # nextId
        <5>1. nextId' = nextId + 1 /\ nextId \in Nat
          BY <3>2 DEF insert_knowledge_chunk, TypeOK, StoreType
        <5> QED
          BY <1>0, <3>2, <5>1 DEF IndexRunbook
      <4>2. clean' = clean \cap {v}
        BY <3>2, <4>1 DEF IndexRunbook, Interfered, baseVars
      <4>3. v = t
        BY <1>0, <1>8, <3>2, <4>1, Alone
      <4> QED
        BY <1>8, <4>2, <4>3
    <3> QED
      BY <3>1, <3>2, RunbookChanges
  <2> QED
    BY <1>0, <1>1, <2>1, <2>2, <2>3, PassStays
<1>9. CASE \A t \in Threads : ~Working(t)
  <2>1. CASE \E i \in Incidents : Draft(i)
    <3>1. UNCHANGED <<pc, todo, text, files, clean, chunks>>
      BY <2>1 DEF Draft, callVars, baseVars
    <3>2. \A stem : RunbookChunks(stem)' = RunbookChunks(stem)
      BY <3>1 DEF RunbookChunks
    <3> QED
      BY <1>0, <1>1, <3>1, <3>2, PassStays
  <2> QED
    BY <1>9, <2>1, Surroundings DEF EditRunbook, Crash
<1>10. \/ \E t \in Threads : Working(t) /\ t # u
       \/ \A t \in Threads : ~Working(t)
       \/ Working(u) /\ ~Reindex(u)
       \/ ListDir(u) \/ DeleteRef(u) \/ ReadFile(u) \/ IndexRunbook(u) \/ EndPass(u)
  BY DEF Working, Reindex
<1> QED
  BY <1>2, <1>3, <1>4, <1>5, <1>6, <1>7, <1>8, <1>9, <1>10

\* KnowledgeIndexer.reindex_runbooks: a pass that ran to its end while nobody wrote
\* runbooks or their chunks leaves each stem of the directory with the text of its
\* last file and nothing else, whatever was there before and whatever other files,
\* overrides and postmortems have the same name.
THEOREM PassSafety == Spec => []PassIsExact
<1>1. Init => PassInv
  BY DEF Init, PassInv
<1>2. TypeOK /\ PassInv /\ [Next]_vars => PassInv'
  <2> SUFFICES ASSUME TypeOK, PassInv, [Next]_vars PROVE PassInv'
    OBVIOUS
  <2>1. CASE UNCHANGED vars
    <3>1. UNCHANGED <<pc, todo, text, files, clean, chunks>>
      BY <2>1 DEF vars, baseVars, callVars
    <3>2. \A stem : RunbookChunks(stem)' = RunbookChunks(stem)
      BY <3>1 DEF RunbookChunks
    <3>3. clean \subseteq Threads
      BY DEF TypeOK, BoundType
    <3> QED
      BY <3>1, <3>2, <3>3, PassStays DEF PassInv, Reindexing
  <2> QED
    BY <2>1, PassStep
<1>3. TypeOK /\ PassInv => PassIsExact
  <2> SUFFICES ASSUME TypeOK, PassInv, NEW t \in clean, pc[t] = "indexed", NEW stem \in Stems, Present(stem) # {}
               PROVE  LET last == files[RunbookFiles[Max(Present(stem))]] IN
                        /\ {c.text : c \in RunbookChunks(stem)} = {last} \cap Texts
                        /\ Cardinality(RunbookChunks(stem)) <= 1
    BY DEF PassIsExact
  <2>1. t \in Threads /\ todo[t] = {} /\ PassAt(t)
    BY DEF TypeOK, BoundType, CallType, PassInv, Reindexing
  <2>2. Passed(t, stem) = Present(stem)
    BY <2>1 DEF Passed
  <2>3. /\ Present(stem) \in SUBSET Nat /\ Len(RunbookFiles) \in Nat
        /\ \A k \in Present(stem) : k <= Len(RunbookFiles)
    BY Directory DEF Present
  <2>4. Max(Present(stem)) \in Present(stem) /\ \A k \in Present(stem) : k <= Max(Present(stem))
    BY <2>3, MaxOf
  <2>5. Exact(stem, files[RunbookFiles[Max(Present(stem))]])
    BY <2>1, <2>2, <2>4 DEF PassAt
  <2>6. Cardinality(RunbookChunks(stem)) <= 1
    <3>1. CASE RunbookChunks(stem) = {}
      BY <3>1, FS_EmptySet
    <3>2. CASE RunbookChunks(stem) # {}
      <4>1. PICK c \in RunbookChunks(stem) : TRUE
        BY <3>2
      <4>2. RunbookChunks(stem) = {c}
        BY <2>5, <4>1 DEF Exact
      <4>3. Cardinality({c}) = 1
        BY FS_Singleton
      <4> QED
        BY <4>2, <4>3
    <3> QED
      BY <3>1, <3>2
  <2> QED
    BY <2>5, <2>6 DEF Exact
<1> QED
  BY <1>1, <1>2, <1>3, TypeCorrect, PTL DEF Spec
=============================================================================
