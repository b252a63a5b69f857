------------------------------ MODULE DocumentPass ------------------------------
(***************************************************************************)
(* The sync document on Android: a provider holds it, the page drives the  *)
(* pass (music/app/backup.ts) and its settings panel starts the manual     *)
(* ones (components/autosave.tsx).  The native side copies the document to *)
(* a file for Go to merge and writes Go's answer back; each native call is *)
(* a job of a thread pool that the page may give up on after a timeout,    *)
(* and that finishes all the same.  The provider may serve a cached copy,  *)
(* another device writes the same document, the process may die.           *)
(*                                                                         *)
(* A document is the set of records it holds, or the part of one that a    *)
(* write cut short has left and nothing can parse.  A merge is a union     *)
(* (imports are on, as they are by default), and autosave is switched on.  *)
(* Left out: what the sections are (FolderSync), the age of the snapshots  *)
(* and the throttling of the periodic pass.                                *)
(***************************************************************************)
EXTENDS Naturals, FiniteSets

CONSTANTS Docs,       \* the documents the user may pick
          Edits,      \* records this device makes
          Foreign,    \* records another device writes
          Calls,      \* how many calls of the page may be under way, as 1..n
          MaxFaults,  \* bound on timeouts, failures, cached copies and restarts
          MaxActs     \* bound on what the user does in the panel

ASSUME DocumentAssumption ==
  /\ Calls \subseteq Nat \ {0} /\ IsFiniteSet(Calls)
  /\ Edits \cap Foreign = {} /\ MaxFaults \in Nat /\ MaxActs \in Nat

VARIABLES page,     \* the calls under way and the panel
          app,      \* what Go keeps: library, location, status and staged files
          provider, \* the documents
          jobs,     \* native calls that have not finished
          spent     \* faults and acts used up

vars == <<page, app, provider, jobs, spent>>

NoDoc == "none"
Nobody == 0
Gone == {"gone"}      \* a staged file that is not there
Torn == {"torn"}      \* a document, or a staged file, that was not copied whole

IdleCall == [pc |-> "idle", mode |-> "auto", force |-> FALSE, after |-> Nobody,
             uri |-> NoDoc, stamp |-> 0]

At(c) == page.call[c].pc
Goes(c, pc) == [page EXCEPT !.call[c].pc = pc]
Free == {c \in Calls : At(c) = "idle"}
Fault == spent.faults < MaxFaults /\ spent' = [spent EXCEPT !.faults = @ + 1]

-----------------------------------------------------------------------------
(* The queue of calls.  running is the last call of the chain: a later one starts  *)
(* after it, a manual save waits for it and tries again, a signal joins it.        *)

Queue(p, c) ==
  [p EXCEPT !.running = c, !.call[c].after = p.running,
            !.call[c].pc = IF p.running = Nobody THEN "begin" ELSE "chained"]

\* autosave of a manual call: it starts, or waits for the one in flight.
Manual(p, c) ==
  IF p.running = Nobody THEN Queue(p, c)
  ELSE [p EXCEPT !.call[c].pc = "wait", !.call[c].after = p.running]

\* clear, which runs before anybody who waits for the call resumes.
Clear(p, c, ok) == IF p.running = c THEN [p EXCEPT !.running = Nobody] ELSE p

\* A call ends: the slot is freed, the call chained after it begins, and those who
\* wait for it try again, one after the other.
Ends(c, ok) ==
  LET p == Clear([page EXCEPT !.call[c] = IdleCall,
                              !.busy = IF @ = c THEN Nobody ELSE @,
                              !.failed = IF page.call[c].mode = "manual" /\ page.busy = c
                                         THEN ~ok ELSE @], c, ok)
      waiting == {w \in Calls : p.call[w].pc = "wait" /\ p.call[w].after = c}
      next == [p EXCEPT !.call = [w \in Calls |->
                 IF @[w].pc = "chained" /\ @[w].after = c THEN [@[w] EXCEPT !.pc = "begin"]
                 ELSE @[w]]]
      Retry(first) ==
        LET q == Manual(next, first)
        IN  [q EXCEPT !.call = [w \in Calls |->
               IF w \in waiting \ {first} THEN [@[w] EXCEPT !.after = q.running] ELSE @[w]]]
  IN  IF waiting = {} THEN page' = next ELSE \E first \in waiting : page' = Retry(first)

\* ask: a native call the page waits for.
Asks(c, kind, uri, pc) ==
  /\ jobs' = jobs \cup {[call |-> c, kind |-> kind, uri |-> uri]}
  /\ page' = [page EXCEPT !.call[c].pc = pc, !.call[c].uri = uri]

-----------------------------------------------------------------------------
(* The status Go keeps between passes. *)

Pending ==
  \/ ~app.status.ran \/ app.status.uri # app.folder
  \/ app.status.stale \/ app.status.problem \/ app.dirty

SettledByStat(mode, uri) ==   \* mutated: the stat alone decides
  mode # "manual" /\ app.status.uri = uri

\* settled, up to the stat that decides it.
Settled(mode, uri) ==
  mode # "manual" /\ ~Pending /\ app.status.uri = uri /\ ~app.status.aged

Fresh(data, stamp, trust) ==
  \/ trust \/ app.status.uri # app.folder \/ app.status.writeAt = 0
  \/ data = app.status.hash \/ stamp > app.status.writeAt

Troubled(a) == [a EXCEPT !.status.ran = TRUE, !.status.problem = TRUE]

-----------------------------------------------------------------------------
(* One pass. *)

\* syncDocument: a copy that will not parse is merged as an empty document.
Read(data) == IF data = Torn THEN {} ELSE data

\* What a copy cut short leaves of the file it was writing.
CutShort == {{}, Torn}

\* run, and deliver up to its first call of the native side.
Begin(c) ==
  /\ At(c) = "begin"
  /\ \/ app.folder = NoDoc /\ Ends(c, page.call[c].mode # "reload") /\ UNCHANGED jobs
     \/ /\ app.folder # NoDoc
        /\ IF page.call[c].mode # "reload" /\ Settled(page.call[c].mode, app.folder)
           THEN Asks(c, "info", app.folder, "info")
           ELSE Asks(c, "stage", app.folder, "stage")
  /\ UNCHANGED <<app, provider, spent>>

\* SyncDocument, then the read of its status: what has to be written is handed to
\* the provider, a cached copy is read once more and then trusted.
Merge(c) ==
  /\ At(c) \in {"merge", "again"}
  /\ LET call == page.call[c]
         data == app.incoming
         fresh == Fresh(data, call.stamp, call.mode = "manual" \/ call.force \/ call.pc = "again")
         merged == Read(data) \cup app.library
         read == [app EXCEPT
                    !.library = merged,
                    !.status = [@ EXCEPT !.ran = TRUE, !.uri = app.folder, !.aged = FALSE,
                                         !.readStamp = call.stamp, !.problem = FALSE,
                                         !.stale = ~fresh /\ merged # data],
                    !.dirty = @ /\ merged # data]
     IN  IF data = Gone THEN app' = Troubled(app) /\ Ends(c, FALSE) /\ UNCHANGED jobs
         ELSE IF fresh /\ merged # data
         THEN app' = [read EXCEPT !.outgoing = merged] /\ Asks(c, "commit", call.uri, "commit")
         ELSE /\ app' = [read EXCEPT !.incoming = Gone]
              /\ IF read.status.stale THEN Asks(c, "stage", call.uri, "restage")
                 ELSE Ends(c, TRUE) /\ UNCHANGED jobs
  /\ UNCHANGED <<provider, spent>>

Confirmed(a) ==
  [a EXCEPT !.outgoing = Gone, !.dirty = FALSE,
            !.status = [@ EXCEPT !.ran = TRUE, !.uri = a.folder, !.writeAt = provider.clock,
                                 !.hash = a.outgoing, !.stale = FALSE, !.problem = FALSE]]

\* SyncWritten.
Written(c) ==
  /\ At(c) = "written"
  /\ IF app.outgoing = Gone THEN Ends(c, FALSE) /\ UNCHANGED app
     ELSE app' = Confirmed(app) /\ Ends(c, TRUE)
  /\ UNCHANGED <<provider, jobs, spent>>

\* SyncReload of the copy staged for it.
Reload(c) ==
  /\ At(c) = "reload"
  /\ IF app.incoming \in {Gone, Torn} THEN app' = Troubled(app) /\ Ends(c, FALSE)
     ELSE app' = [app EXCEPT !.library = @ \cup app.incoming, !.incoming = Gone] /\ Ends(c, TRUE)
  /\ UNCHANGED <<provider, jobs, spent>>

-----------------------------------------------------------------------------
(* The native side. *)

\* How the page goes on once a native call has answered; a is what Go keeps by then.
CommitAnsweredEarly(c, ok, a) ==   \* mutated: the baseline moves whatever the provider said
  /\ app' = IF a.outgoing = Gone THEN a ELSE Confirmed(a)
  /\ Ends(c, ok)

CommitAnswered(c, ok, a) ==
  IF ok THEN page' = Goes(c, "written") /\ app' = a
  ELSE app' = Troubled(a) /\ Ends(c, FALSE)

StageAnswered(c, ok, stamp, a) ==
  /\ app' = a
  /\ IF ~ok THEN Ends(c, FALSE)
     ELSE page' = [page EXCEPT
                     !.call[c].stamp = stamp,
                     !.call[c].pc = CASE At(c) = "stage" /\ page.call[c].mode = "reload" -> "reload"
                                      [] At(c) = "stage" -> "merge"
                                      [] At(c) = "restage" -> "again"
                                      [] OTHER -> "picked"]

InfoAnswered(c, ok, stamp, a) ==
  /\ app' = a
  /\ IF ok /\ stamp = a.status.readStamp THEN Ends(c, TRUE) ELSE page' = Goes(c, "unsettled")

Answered(j, ok, stamp, a) ==
  IF j.call = Nobody THEN page' = page /\ app' = a
  ELSE CASE j.kind = "stage" -> StageAnswered(j.call, ok, stamp, a)
         [] j.kind = "info" -> InfoAnswered(j.call, ok, stamp, a)
         [] j.kind = "commit" -> CommitAnswered(j.call, ok, a)

\* SyncDocuments.stage: the document, or the copy the provider has in its cache.  One
\* that fails may have truncated the staged file already.
StageJob(j) ==
  /\ j.kind = "stage"
  /\ \/ /\ Answered(j, TRUE, provider.stamp[j.uri], [app EXCEPT !.incoming = provider.doc[j.uri]])
        /\ UNCHANGED spent
     \/ /\ Fault /\ Answered(j, TRUE, provider.cached[j.uri].stamp,
                             [app EXCEPT !.incoming = provider.cached[j.uri].doc])
     \/ /\ Fault
        /\ \E left \in CutShort \cup {app.incoming} :
             Answered(j, FALSE, 0, [app EXCEPT !.incoming = left])
  /\ UNCHANGED provider

InfoJob(j) ==
  /\ j.kind = "info"
  /\ \/ Answered(j, TRUE, provider.stamp[j.uri], app) /\ UNCHANGED spent
     \/ Fault /\ Answered(j, TRUE, provider.cached[j.uri].stamp, app)
  /\ UNCHANGED provider

Stores(uri, doc) ==
  [provider EXCEPT !.clock = @ + 1, !.doc[uri] = doc, !.stamp[uri] = provider.clock + 1,
                   !.cached[uri] = [doc |-> provider.doc[uri], stamp |-> provider.stamp[uri]],
                   !.received = @ \cup {doc}]

\* A write cut short: the document is empty or cannot be parsed, and nothing whole has
\* been received.
Truncated(uri, left) == [Stores(uri, left) EXCEPT !.received = provider.received]

\* SyncDocuments.commit: the stream truncates the document before the staged file
\* is opened, so a commit that finds none leaves it empty, and one that fails on the
\* way leaves what it had copied.
CommitJob(j) ==
  /\ j.kind = "commit"
  /\ \/ /\ app.outgoing # Gone /\ provider' = Stores(j.uri, app.outgoing)
        /\ Answered(j, TRUE, 0, [app EXCEPT !.incoming = Gone]) /\ UNCHANGED spent
     \/ /\ app.outgoing = Gone /\ provider' = Truncated(j.uri, {})
        /\ Answered(j, FALSE, 0, app) /\ UNCHANGED spent
     \/ /\ Fault /\ Answered(j, FALSE, 0, app)
        /\ UNCHANGED provider \/ \E left \in CutShort : provider' = Truncated(j.uri, left)

Job(j) ==
  /\ j \in jobs /\ jobs' = jobs \ {j}
  /\ StageJob(j) \/ InfoJob(j) \/ CommitJob(j)

\* The stat did not settle the pass: it goes on in full.
Unsettled(c) ==
  /\ At(c) = "unsettled" /\ Asks(c, "stage", page.call[c].uri, "stage")
  /\ UNCHANGED <<app, provider, spent>>

\* The page stops waiting, and the job goes on unheard.
Timeout(j) ==
  /\ j \in jobs /\ j.call # Nobody /\ Fault
  /\ jobs' = (jobs \ {j}) \cup {[j EXCEPT !.call = Nobody]}
  /\ CASE j.kind = "stage" -> StageAnswered(j.call, FALSE, 0, app)
       [] j.kind = "info" -> InfoAnswered(j.call, FALSE, 0, app)
       [] j.kind = "commit" -> CommitAnswered(j.call, FALSE, app)
  /\ UNCHANGED provider

-----------------------------------------------------------------------------
(* Signals and the panel. *)

\* focus, the timer and the lifecycle: a pass, or nothing when one is in flight.
Signal(c) ==
  /\ c \in Free /\ page.running = Nobody
  /\ page' = Queue([page EXCEPT !.call[c] = IdleCall], c)
  /\ UNCHANGED <<app, provider, jobs, spent>>

Act == spent.acts < MaxActs /\ spent' = [spent EXCEPT !.acts = @ + 1]

\* The panel holds its buttons back while a call of its own is under way.
Ready(c) == c \in Free /\ page.busy = Nobody /\ Act

\* The overwrite is offered after a save that failed, and only then.
Overwrite(force) == force => page.failed

Save(c, force) ==
  /\ Ready(c) /\ app.folder # NoDoc /\ Overwrite(force)
  /\ page' = Manual([page EXCEPT !.busy = c, !.call[c] =
                       [IdleCall EXCEPT !.mode = "manual", !.force = force]], c)
  /\ UNCHANGED <<app, provider, jobs>>

ReloadPress(c) ==
  /\ Ready(c) /\ app.folder # NoDoc
  /\ page' = Queue([page EXCEPT !.busy = c, !.call[c] = [IdleCall EXCEPT !.mode = "reload"]], c)
  /\ UNCHANGED <<app, provider, jobs>>

\* keep: an existing document is tested by staging it, outside the queue.
Pick(c, uri) ==
  /\ Ready(c)
  /\ jobs' = jobs \cup {[call |-> c, kind |-> "stage", uri |-> uri]}
  /\ page' = [page EXCEPT !.busy = c, !.call[c] =
                [IdleCall EXCEPT !.pc = "probe", !.mode = "manual", !.uri = uri]]
  /\ UNCHANGED <<app, provider>>

\* createDocument: a document just made, which nobody has written, is not tested.
Create(c, uri) ==
  /\ Ready(c) /\ provider.stamp[uri] = 1
  /\ page' = [page EXCEPT !.busy = c, !.call[c] =
                [IdleCall EXCEPT !.pc = "picked", !.mode = "manual", !.uri = uri]]
  /\ UNCHANGED <<app, provider, jobs>>

\* SetSyncFolder, and the save adopt() starts.
Adopt(c) ==
  /\ At(c) = "picked"
  /\ app' = [app EXCEPT !.folder = page.call[c].uri]
  /\ page' = Manual(page, c)
  /\ UNCHANGED <<provider, jobs, spent>>

\* The settings page is left: the panel forgets its calls, which go on.
Leave ==
  /\ (page.busy # Nobody \/ page.failed) /\ Act
  /\ page' = [page EXCEPT !.busy = Nobody, !.failed = FALSE]
  /\ UNCHANGED <<app, provider, jobs>>

-----------------------------------------------------------------------------
(* This device's library, time, the other device, and the process. *)

Edit(e) ==
  /\ e \in Edits \ app.library
  /\ app' = [app EXCEPT !.library = @ \cup {e}, !.dirty = TRUE]
  /\ UNCHANGED <<page, provider, jobs, spent>>

Age ==
  /\ ~app.status.aged
  /\ app' = [app EXCEPT !.status.aged = TRUE]
  /\ UNCHANGED <<page, provider, jobs, spent>>

OtherWrites(f, uri) ==
  /\ f \in Foreign /\ \A u \in Docs : f \notin provider.doc[u]
  /\ f \notin app.library /\ Act
  /\ provider' = Stores(uri, Read(provider.doc[uri]) \cup {f})
  /\ UNCHANGED <<page, app, jobs>>

FreshPage == [running |-> Nobody, call |-> [c \in Calls |-> IdleCall],
              busy |-> Nobody, failed |-> FALSE]

\* The process dies: the native calls go with it, a commit perhaps half done, and so do
\* the marks of what has not been saved, which live in memory.
Restart ==
  /\ Fault /\ page' = FreshPage /\ jobs' = {} /\ app' = [app EXCEPT !.dirty = FALSE]
  /\ \/ UNCHANGED provider
     \/ \E j \in jobs, left \in CutShort : j.kind = "commit" /\ provider' = Truncated(j.uri, left)

Init ==
  /\ page = FreshPage
  /\ app \in [folder : Docs \cup {NoDoc}, library : {{}}, dirty : {FALSE},
              incoming : {Gone}, outgoing : {Gone},
              status : {[ran |-> FALSE, uri |-> NoDoc, writeAt |-> 0, hash |-> Gone,
                         stale |-> FALSE, problem |-> FALSE, readStamp |-> 0, aged |-> FALSE]}]
  /\ provider = [clock |-> 1, doc |-> [u \in Docs |-> {}], stamp |-> [u \in Docs |-> 1],
                 cached |-> [u \in Docs |-> [doc |-> {}, stamp |-> 1]], received |-> {}]
  /\ jobs = {}
  /\ spent = [faults |-> 0, acts |-> 0]

Steps(c) ==
  Begin(c) \/ Merge(c) \/ Written(c) \/ Reload(c) \/ Unsettled(c) \/ Adopt(c)

Next ==
  \/ \E c \in Calls : Steps(c) \/ Signal(c) \/ ReloadPress(c)
  \/ \E c \in Calls, force \in BOOLEAN : Save(c, force)
  \/ \E c \in Calls, uri \in Docs : Pick(c, uri) \/ Create(c, uri)
  \/ \E j \in jobs : Job(j) \/ Timeout(j)
  \/ \E e \in Edits : Edit(e)
  \/ \E f \in Foreign, uri \in Docs : OtherWrites(f, uri)
  \/ Leave \/ Age \/ Restart

Spec == Init /\ [][Next]_vars

\* The page and the native side run, the periodic pass comes again and time passes.
\* Nothing forces an edit, a fault or the user.
Fairness ==
  /\ WF_vars(\E c \in Calls : Steps(c))
  /\ WF_vars(\E j \in jobs : Job(j))
  /\ WF_vars(\E c \in Calls : Signal(c))
  /\ WF_vars(Age)

FairSpec == Spec /\ Fairness

-----------------------------------------------------------------------------

Active(c) == At(c) \in {"begin", "info", "unsettled", "stage", "merge", "restage", "again",
                        "commit", "written", "reload"}

\* The type of what the page holds, and the reason for its queue: two calls never
\* touch the staged files at once, however signals, saves, reloads and a panel that
\* was left and opened again overlap.
TypeOK ==
  /\ page.running \in Calls \cup {Nobody} /\ page.busy \in Calls \cup {Nobody}
  /\ page.failed \in BOOLEAN /\ app.folder \in Docs \cup {NoDoc}
  /\ app.library \subseteq Edits \cup Foreign /\ app.dirty \in BOOLEAN
  /\ \A c, d \in Calls : Active(c) /\ Active(d) => c = d

\* The write baseline is bytes a provider has received: a commit that failed, timed
\* out or died must not make the next pass take the document for ours.
BaselineHeld == app.status.hash # Gone => app.status.hash \in provider.received

\* What the pass keeps at every step, whatever the provider and the system do.
DocumentSafe == TypeOK /\ BaselineHeld

\* An edit reaches the document of the location, through cached copies, failed,
\* timed-out and late commits, restarts and the writes of another device.
EditsReach ==
  \A e \in Edits : (e \in app.library /\ app.folder # NoDoc)
                      ~> (app.folder # NoDoc /\ e \in provider.doc[app.folder])

\* No call of the page waits for ever behind another.
CallsEnd == \A c \in Calls : (At(c) \in {"wait", "chained"}) ~> (At(c) = "idle")

\* What the user did is carried, and what carries it comes to an end.
EditsCarried == EditsReach /\ CallsEnd

=============================================================================
