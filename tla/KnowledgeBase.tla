--------------------------- MODULE KnowledgeBase ---------------------------
(* The knowledge base and its sources: KnowledgeIndexer (runbooks, overrides, *)
(* postmortems), search_knowledge, and PostmortemWriter.finalize with its git *)
(* repository, called by concurrent threads while people edit files.         *)
(*                                                                           *)
(* A step is one transaction of the store, one read of a file or one git     *)
(* command. A text is a model value and stands for what redaction leaves of  *)
(* it; two texts are as similar as they are equal. Page contents are version *)
(* numbers, higher for later ones.                                           *)
EXTENDS Naturals, Sequences, FiniteSets, SequencesExt

CONSTANTS
  Threads,
  RunbookFiles,  \* names with a runbook suffix, as sorted(root.iterdir()) orders them
  StemOf,        \* [file -> path.stem]; two suffixes may share one
  Incidents,     \* their ids; nothing keeps a stem from being one of them
  Texts,         \* contents that are worth indexing
  TopK,          \* search_knowledge: how many hits it returns
  MaxCalls,      \* bound: calls of the indexer and the writer
  MaxEdits,      \* bound: edits of runbooks
  MaxDrafts,     \* bound: drafts and edits of a page
  MaxCrashes     \* bound: deaths of the process

Files == ToSet(RunbookFiles)
Stems == {StemOf[f] : f \in Files}

\* A file may be gone, blank, or not readable as text (a directory, other bytes).
Contents == Texts \cup {"absent", "blank", "unreadable"}

ASSUME SpecialContents == {"absent", "blank", "unreadable"} \cap Texts = {}
ASSUME Directory == RunbookFiles \in Seq(Files) /\ StemOf \in [Files -> Stems]
ASSUME Limits ==
  /\ TopK \in Nat \ {0} /\ IsFiniteSet(Threads)
  /\ MaxCalls \in Nat /\ MaxEdits \in Nat /\ MaxCrashes \in Nat

VARIABLES
  files,     \* the runbook directory: [Files -> Contents]
  chunks,    \* knowledge_chunks: {[id, source, ref, text]}; ids grow with created_at
  nextId,
  events,    \* the postmortem_finalized events: {[incident, ref, text]}
  page, staged, head,  \* per incident: version of its page in the work tree, the index, HEAD
  pc, text, incident, version,  \* per thread: its call and what it holds
  todo,      \* per thread: positions in RunbookFiles of the files its pass has still to index
  calls, edits, crashes,
  clean,     \* history: threads whose pass over the directory nobody interfered with
  refused    \* history: threads whose git commit failed with something to commit

baseVars == <<chunks, nextId>>
gitVars == <<page, staged, head>>
callVars == <<todo, text, incident, version>>
boundVars == <<calls, edits, crashes>>
vars == <<files, baseVars, events, gitVars, pc, callVars, boundVars, clean, refused>>

NoText == "blank"
AnyIncident == CHOOSE i \in Incidents : TRUE

Init ==
  /\ files \in [Files -> {"absent"} \cup Texts]
  /\ chunks = {} /\ nextId = 1 /\ events = {}
  /\ page = [i \in Incidents |-> 0] /\ staged = page /\ head = page
  /\ pc = [t \in Threads |-> "idle"]
  /\ todo = [t \in Threads |-> {}] /\ text = [t \in Threads |-> NoText]
  /\ incident = [t \in Threads |-> AnyIncident] /\ version = [t \in Threads |-> 0]
  /\ calls = 0 /\ edits = 0 /\ crashes = 0
  /\ clean = {} /\ refused = {}

-----------------------------------------------------------------------------
(* The store                                                               *)

Goto(t, s) == pc' = [pc EXCEPT ![t] = s]
Begin(t, s) == pc[t] = "idle" /\ calls < MaxCalls /\ calls' = calls + 1 /\ Goto(t, s)

insert_knowledge_chunk(source, ref, x) ==
  /\ chunks' = chunks \cup {[id |-> nextId, source |-> source, ref |-> ref, text |-> x]}
  /\ nextId' = nextId + 1

\* Mutation: the source is not compared.
delete_knowledge_by_any(source, ref) ==
  chunks' = {c \in chunks : c.ref # ref}

delete_knowledge_by_ref(source, ref) ==
  chunks' = {c \in chunks : ~(c.source = source /\ c.ref = ref)}

\* The filters on service, cluster, severity and time are left out; no source means all.
query_knowledge_chunks(sources) == {c \in chunks : sources = {} \/ c.source \in sources}

\* The most similar first, of equally similar ones the newest, and no more than TopK.
search_knowledge(query, sources) ==
  LET candidates == query_knowledge_chunks(sources)
      score(c) == IF c.text = query THEN 1 ELSE 0
      before(c, d) == score(c) > score(d) \/ (score(c) = score(d) /\ c.id > d.id)
      rank(c) == Cardinality({d \in candidates : before(d, c)})
  IN {c \in candidates : rank(c) < TopK}

-----------------------------------------------------------------------------
(* reindex_runbooks                                                        *)

FileNow(t) == RunbookFiles[Min(todo[t])]
StemNow(t) == StemOf[FileNow(t)]
Done(t) == todo' = [todo EXCEPT ![t] = @ \ {Min(@)}]
Reindexing == {"scan", "read", "embed", "indexed"}
Interfered(t) == clean' = clean \cap {t}

\* The directory is listed once; what appears later is not seen by this pass.
ListDir(t) ==
  /\ Begin(t, "scan")
  /\ todo' = [todo EXCEPT ![t] = {k \in DOMAIN RunbookFiles : files[RunbookFiles[k]] # "absent"}]
  /\ clean' = clean \cup {t}
  /\ UNCHANGED <<files, baseVars, events, gitVars, text, incident, version, edits, crashes, refused>>

\* Mutation: only a text that changed is deleted first.
DeleteChanged(t) ==
  /\ pc[t] = "scan" /\ todo[t] # {}
  /\ chunks' = {c \in chunks : ~(c.source = "runbook" /\ c.ref = StemNow(t)
                                   /\ c.text # files[FileNow(t)])}
  /\ Goto(t, "read")
  /\ Interfered(t)
  /\ UNCHANGED <<files, nextId, events, gitVars, callVars, boundVars, refused>>

\* The chunks of the next stem are deleted, before its file is read.
DeleteRef(t) ==
  /\ pc[t] = "scan" /\ todo[t] # {}
  /\ delete_knowledge_by_ref("runbook", StemNow(t))
  /\ Goto(t, "read")
  /\ Interfered(t)
  /\ UNCHANGED <<files, nextId, events, gitVars, callVars, boundVars, refused>>

\* Mutation: a blank file ends the pass.
ReadFileStopping(t) ==
  /\ pc[t] = "read"
  /\ LET content == files[FileNow(t)] IN
       \/ /\ content \in {"absent", "unreadable"}
          /\ Goto(t, "raised") /\ UNCHANGED <<todo, text>>
       \/ /\ content = "blank"
          /\ Goto(t, "indexed") /\ UNCHANGED <<todo, text>>
       \/ /\ content \in Texts
          /\ Goto(t, "embed") /\ text' = [text EXCEPT ![t] = content] /\ UNCHANGED todo
  /\ UNCHANGED <<files, baseVars, events, gitVars, incident, version, boundVars, clean, refused>>

\* A file that is gone or unreadable ends the pass with its exception.
ReadFile(t) ==
  /\ pc[t] = "read"
  /\ LET content == files[FileNow(t)] IN
       \/ /\ content \in {"absent", "unreadable"}
          /\ Goto(t, "raised") /\ UNCHANGED <<todo, text>>
       \/ /\ content = "blank"
          /\ Goto(t, "scan") /\ Done(t) /\ UNCHANGED text
       \/ /\ content \in Texts
          /\ Goto(t, "embed") /\ text' = [text EXCEPT ![t] = content] /\ UNCHANGED todo
  /\ UNCHANGED <<files, baseVars, events, gitVars, incident, version, boundVars, clean, refused>>

\* index_runbook: embed and insert; an embedding provider may fail.
IndexRunbook(t) ==
  /\ pc[t] = "embed"
  /\ \/ /\ insert_knowledge_chunk("runbook", StemNow(t), text[t])
        /\ Goto(t, "scan") /\ Done(t)
        /\ Interfered(t)
     \/ Goto(t, "raised") /\ UNCHANGED <<baseVars, todo, clean>>
  /\ UNCHANGED <<files, events, gitVars, text, incident, version, boundVars, refused>>

EndPass(t) ==
  /\ pc[t] = "scan" /\ todo[t] = {}
  /\ Goto(t, "indexed")
  /\ UNCHANGED <<files, baseVars, events, gitVars, callVars, boundVars, clean, refused>>

-----------------------------------------------------------------------------
(* index_override, and PostmortemWriter.finalize                           *)

\* The reason of a rejection, indexed at once.
IndexOverride(t, i, x) ==
  /\ Begin(t, "returned")
  /\ insert_knowledge_chunk("override", i, x)
  /\ UNCHANGED <<files, events, gitVars, callVars, edits, crashes, clean, refused>>

\* finalize: the conclusion goes into the knowledge base ...
IndexPostmortem(t, i, x) ==
  /\ Begin(t, "finalizing")
  /\ insert_knowledge_chunk("postmortem", i, x)
  /\ incident' = [incident EXCEPT ![t] = i] /\ text' = [text EXCEPT ![t] = x]
  /\ version' = [version EXCEPT ![t] = nextId]  \* the id of the chunk, until the event is written
  /\ UNCHANGED <<files, events, gitVars, todo, edits, crashes, clean, refused>>

\* ... the timeline names the chunk ...
AppendFinalized(t) ==
  /\ pc[t] = "finalizing"
  /\ events' = events \cup {[incident |-> incident[t], ref |-> version[t], text |-> text[t]]}
  /\ version' = [version EXCEPT ![t] = 0]
  /\ Goto(t, IF page[incident[t]] = 0 THEN "returned" ELSE "add")
  /\ UNCHANGED <<files, baseVars, gitVars, todo, text, incident, boundVars, clean, refused>>

\* Mutation: the page is not added.
GitAddNothing(t) ==
  /\ pc[t] = "add"
  /\ version' = [version EXCEPT ![t] = page[incident[t]]]
  /\ Goto(t, "commit")
  /\ UNCHANGED <<files, baseVars, events, gitVars, todo, text, incident, boundVars, clean, refused>>

\* ... and the page is added; when git fails, finalize raises.
GitAdd(t) ==
  /\ pc[t] = "add"
  /\ \/ /\ staged' = [staged EXCEPT ![incident[t]] = page[incident[t]]]
        /\ version' = [version EXCEPT ![t] = page[incident[t]]]
        /\ Goto(t, "commit")
     \/ Goto(t, "raised") /\ UNCHANGED <<staged, version>>
  /\ UNCHANGED <<files, baseVars, events, page, head, todo, text, incident, boundVars, clean, refused>>

\* git commit takes all that is staged.  It fails when nothing is, and for any
\* reason git has: the lock of another git, no identity, a hook, a full disk.
\* finalize returns None on each of them and does not tell them apart.
GitCommit(t) ==
  /\ pc[t] = "commit"
  /\ Goto(t, "returned")
  /\ \/ head' = staged /\ UNCHANGED refused
     \/ head # staged /\ refused' = refused \cup {t} /\ UNCHANGED head
  /\ UNCHANGED <<files, baseVars, events, page, staged, callVars, boundVars, clean>>

Return(t) ==
  /\ pc[t] \in {"indexed", "returned", "raised"}
  /\ Goto(t, "idle")
  /\ todo' = [todo EXCEPT ![t] = {}] /\ text' = [text EXCEPT ![t] = NoText]
  /\ incident' = [incident EXCEPT ![t] = AnyIncident] /\ version' = [version EXCEPT ![t] = 0]
  /\ clean' = clean \ {t} /\ refused' = refused \ {t}
  /\ UNCHANGED <<files, baseVars, events, gitVars, boundVars>>

-----------------------------------------------------------------------------
(* The surroundings                                                        *)

\* Somebody changes, adds or removes a runbook.
EditRunbook(f, content) ==
  /\ edits < MaxEdits /\ edits' = edits + 1
  /\ content # files[f]
  /\ files' = [files EXCEPT ![f] = content]
  /\ clean' = {}
  /\ UNCHANGED <<baseVars, events, gitVars, pc, callVars, calls, crashes, refused>>

\* draft writes the page of an incident, over what is there; so does an editor.
Draft(i) ==
  /\ page[i] < MaxDrafts
  /\ page' = [page EXCEPT ![i] = @ + 1]
  /\ UNCHANGED <<files, baseVars, events, staged, head, pc, callVars, boundVars, clean, refused>>

Crash ==
  /\ crashes < MaxCrashes /\ crashes' = crashes + 1
  /\ pc' = [t \in Threads |-> "idle"]
  /\ todo' = [t \in Threads |-> {}] /\ text' = [t \in Threads |-> NoText]
  /\ incident' = [t \in Threads |-> AnyIncident] /\ version' = [t \in Threads |-> 0]
  /\ clean' = {} /\ refused' = {}
  /\ UNCHANGED <<files, baseVars, events, gitVars, calls, edits>>

Reindex(t) == ListDir(t) \/ DeleteRef(t) \/ ReadFile(t) \/ IndexRunbook(t) \/ EndPass(t)
Finalize(t) ==
  \/ \E i \in Incidents, x \in Texts : IndexPostmortem(t, i, x)
  \/ AppendFinalized(t) \/ GitAdd(t) \/ GitCommit(t)

Next ==
  \/ \E t \in Threads :
       \/ Reindex(t) \/ Finalize(t) \/ Return(t)
       \/ \E i \in Incidents, x \in Texts : IndexOverride(t, i, x)
  \/ \E f \in Files, content \in Contents : EditRunbook(f, content)
  \/ \E i \in Incidents : Draft(i)
  \/ Crash

Spec == Init /\ [][Next]_vars

-----------------------------------------------------------------------------
Labels == {"idle", "scan", "read", "embed", "indexed", "finalizing", "add", "commit", "returned", "raised"}

StoreType ==
  /\ files \in [Files -> Contents]
  /\ nextId \in Nat \ {0} /\ IsFiniteSet(chunks)
  /\ \A c \in chunks : /\ c.id \in Nat /\ c.id < nextId /\ c.text \in Texts
                       /\ \/ c.source = "runbook" /\ c.ref \in Stems
                          \/ c.source \in {"override", "postmortem"} /\ c.ref \in Incidents
  /\ \A c, d \in chunks : c.id = d.id => c = d

GitType ==
  /\ page \in [Incidents -> Nat] /\ staged \in [Incidents -> Nat] /\ head \in [Incidents -> Nat]
  /\ \A i \in Incidents : head[i] <= staged[i] /\ staged[i] <= page[i]

CallType ==
  /\ pc \in [Threads -> Labels] /\ todo \in [Threads -> SUBSET DOMAIN RunbookFiles]
  /\ text \in [Threads -> Texts \cup {NoText}] /\ version \in [Threads -> Nat]
  /\ incident \in [Threads -> Incidents \cup {AnyIncident}]
  /\ \A t \in Threads :
       /\ pc[t] \in {"read", "embed"} => todo[t] # {}
       /\ pc[t] = "indexed" => todo[t] = {}
       /\ pc[t] \in {"embed", "finalizing", "add", "commit"} => text[t] \in Texts
       /\ pc[t] \in {"finalizing", "add", "commit", "returned"} => incident[t] \in Incidents

BoundType ==
  /\ calls \in 0..MaxCalls /\ edits \in 0..MaxEdits /\ crashes \in 0..MaxCrashes
  /\ clean \subseteq Threads /\ refused \subseteq Threads

TypeOK == StoreType /\ GitType /\ CallType /\ BoundType

RunbookChunks(stem) == {c \in chunks : c.source = "runbook" /\ c.ref = stem}
Present(stem) == {k \in DOMAIN RunbookFiles : StemOf[RunbookFiles[k]] = stem
                                                /\ files[RunbookFiles[k]] # "absent"}

\* Passes that overlap may index a runbook more than once, as each deletes
\* before the others insert, but never more often than there are passes.
CopiesBounded ==
  \A stem \in Stems :
    Cardinality(RunbookChunks(stem))
      + Cardinality({t \in Threads : pc[t] \in {"read", "embed"} /\ StemNow(t) = stem})
    <= Cardinality(Threads)

\* A pass nobody interfered with leaves for every stem of the directory the
\* text of its last file alone, and nothing when that file is blank, even if
\* an earlier file of the same stem has a text.
PassIsExact ==
  \A t \in clean : pc[t] = "indexed" =>
    \A stem \in Stems : Present(stem) # {} =>
      LET last == files[RunbookFiles[Max(Present(stem))]] IN
        /\ {c.text : c \in RunbookChunks(stem)} = {last} \cap Texts
        /\ Cardinality(RunbookChunks(stem)) <= 1

\* A finalized postmortem stays searchable: its chunk is never deleted, and a
\* search for its conclusion among the postmortems finds that text.
FinalizedIsSearchable ==
  \A e \in events :
    /\ \E c \in chunks : c.id = e.ref /\ c.source = "postmortem" /\ c.ref = e.incident
    /\ \E hit \in search_knowledge(e.text, {"postmortem"}) : hit.text = e.text

\* A finalize that returned, with a hash or with None, has its page in HEAD,
\* or a later version of it, committed by itself or by a finalize it raced
\* with.  When its own commit failed the None does not say so, but the page is
\* still staged, for the next commit of any incident to take.
ReturnedIsCommitted ==
  \A t \in Threads : pc[t] = "returned" =>
    /\ staged[incident[t]] >= version[t]
    /\ t \notin refused => head[incident[t]] >= version[t]
=============================================================================
