----------------------------- MODULE UploadWriter -----------------------------
(***************************************************************************)
(* internal/pdcp/writer.go: the callback that hands every reported host to *)
(* the autoCommit goroutine over a bounded channel, the buffer in which    *)
(* autoCommit collects the lines, the uploads to the assets server, and    *)
(* Close.  The callback is called from handleOutput, by the main goroutine *)
(* and, after a signal, by the signal handler as well; both call Close     *)
(* through Runner.Close, and the process ends when one of them is through. *)
(*                                                                         *)
(* The context of autoCommit is context.Background() in the only call of   *)
(* NewUploadWriterCallback (main.go:279), so it is never done.             *)
(***************************************************************************)
EXTENDS Integers, Sequences, FiniteSets

CONSTANTS
  Clients,       \* the goroutines that report hosts and close
  main,          \* the one that always runs
  Hosts,         \* the hosts each of them reports
  Len1,          \* the length of the JSON line of a host
  MaxChunkSize,
  ChanSize,      \* capacity of the data channel
  AssetID,       \* -asset-id is given: uploads append to a known group
  MaxFailures    \* bound of the model: uploads that fail, and answers that are lost

ASSUME UploadAssumption ==
  /\ main \in Clients
  /\ Len1 \in [Hosts -> Nat \ {0}] /\ MaxChunkSize \in Nat
  /\ ChanSize \in Nat \ {0} /\ AssetID \in BOOLEAN /\ MaxFailures \in Nat

Lines == Clients \X Hosts

VARIABLES
  todo,      \* what each client still reports
  pc,        \* where each client is
  data,      \* the data channel
  open,      \* the data channel is not closed
  closed,    \* u.closed
  commit,    \* where autoCommit is
  held,      \* the line autoCommit holds while it flushes a full buffer
  buff,      \* the buffer, as lines
  group,     \* u.assetGroupID is known
  failures,  \* uploads that failed so far
  crashed,   \* a panic ended the process
  stored,    \* history: lines the server stored, and how often
  created,   \* history: groups the server created
  unanswered, \* history: attempts the server stored whose answer was lost
  unnamed    \* history: uploads answered without the id of a group, none being known

clientVars == <<todo, pc, open, closed, crashed>>
serverVars == <<group, failures, stored, created, unanswered, unnamed>>
vars == <<todo, pc, data, open, closed, commit, held, buff, group, failures,
          crashed, stored, created, unanswered, unnamed>>

NoLine == <<>>

\* Every line is followed by a newline.
SizeOf[b \in Seq(Lines)] ==
  IF b = <<>> THEN 0 ELSE Len1[Head(b)[2]] + 1 + SizeOf[Tail(b)]

InBuff == {buff[i] : i \in 1 .. Len(buff)}
Queued == {data[i] : i \in 1 .. Len(data)}
Taken  == {l \in Lines : l[2] \notin todo[l[1]]} \ Queued

\* The process runs until a client is through or a goroutine panics.
Running == ~crashed /\ \A c \in Clients : pc[c] # "returned"

Init ==
  /\ todo = [c \in Clients |-> Hosts]
  /\ pc = [c \in Clients |-> IF c = main THEN "report" ELSE "off"]
  /\ data = <<>> /\ open = TRUE /\ closed = FALSE
  /\ commit = "select" /\ held = NoLine /\ buff = <<>>
  /\ group = AssetID /\ failures = 0 /\ crashed = FALSE
  /\ stored = [l \in Lines |-> 0] /\ created = 0
  /\ unanswered = 0 /\ unnamed = 0

-----------------------------------------------------------------------------
(* The clients: handleOutput, then Close.                                  *)

\* A signal: the handler begins to report.
Interrupt(c) ==
  /\ Running /\ pc[c] = "off"
  /\ pc' = [pc EXCEPT ![c] = "report"]
  /\ UNCHANGED <<todo, data, open, closed, crashed, commit, held, buff,
                 serverVars>>

RoomForOneMore == Len(data) <= ChanSize
HasRoom == Len(data) < ChanSize

\* The callback: u.data <- *hr, which blocks while the channel is full.
Callback(c) ==
  /\ Running /\ pc[c] = "report" /\ open
  /\ HasRoom
  /\ \E h \in todo[c] :
       /\ data' = Append(data, <<c, h>>)
       /\ todo' = [todo EXCEPT ![c] = @ \ {h}]
  /\ UNCHANGED <<pc, open, closed, crashed, commit, held, buff,
                 serverVars>>

\* send on closed channel
SendPanics(c) ==
  /\ Running /\ pc[c] = "report" /\ todo[c] # {} /\ ~open
  /\ crashed' = TRUE
  /\ UNCHANGED <<todo, pc, data, open, closed, commit, held, buff,
                 serverVars>>

\* Runner.Close gets as far as OnClose; Close loads u.closed.
CloseLoads(c) ==
  /\ Running /\ pc[c] = "report" /\ todo[c] = {}
  /\ pc' = [pc EXCEPT ![c] = IF closed THEN "wait" ELSE "close"]
  /\ UNCHANGED <<todo, data, open, closed, crashed, commit, held, buff,
                 serverVars>>

\* Runner.Close fails at an earlier step, the other client having closed the
\* runner before, and returns without OnClose.
CloseFails(c) ==
  /\ Running /\ pc[c] = "report" /\ todo[c] = {}
  /\ \E d \in Clients \ {c} : pc[d] \in {"close", "store", "wait"}
  /\ pc' = [pc EXCEPT ![c] = "returned"]
  /\ UNCHANGED <<todo, data, open, closed, crashed, commit, held, buff,
                 serverVars>>

\* close(u.data), which panics when the other client has done it.
CloseChannel(c) ==
  /\ Running /\ pc[c] = "close"
  /\ IF open THEN open' = FALSE /\ pc' = [pc EXCEPT ![c] = "store"]
             ELSE UNCHANGED <<open, pc>>
  /\ crashed' = ~open
  /\ UNCHANGED <<todo, data, closed, commit, held, buff, serverVars>>

CloseStores(c) ==
  /\ Running /\ pc[c] = "store"
  /\ closed' = TRUE
  /\ pc' = [pc EXCEPT ![c] = "wait"]
  /\ UNCHANGED <<todo, data, open, crashed, commit, held, buff,
                 serverVars>>

\* <-u.done: autoCommit has sent on it and closed it.
CloseReturns(c) ==
  /\ Running /\ pc[c] = "wait" /\ commit = "done"
  /\ pc' = [pc EXCEPT ![c] = "returned"]
  /\ UNCHANGED <<todo, data, open, closed, crashed, commit, held, buff,
                 serverVars>>

-----------------------------------------------------------------------------
(* autoCommit.                                                             *)

\* The ticker: nothing to do when the buffer is empty.
Tick ==
  /\ Running /\ commit = "select" /\ buff # <<>>
  /\ commit' = "tick"
  /\ UNCHANGED <<clientVars, data, held, buff, serverVars>>

FitsSoFar(l) == SizeOf[buff] <= MaxChunkSize
Fits(l) == SizeOf[buff] + Len1[l[2]] <= MaxChunkSize

\* A line that fits is appended; one that does not makes autoCommit flush.
Receive ==
  /\ Running /\ commit = "select" /\ data # <<>>
  /\ LET l == Head(data)
     IN  IF Fits(l) THEN /\ buff' = Append(buff, l)
                         /\ UNCHANGED <<commit, held>>
                    ELSE /\ commit' = "full" /\ held' = l
                         /\ UNCHANGED buff
  /\ data' = Tail(data)
  /\ UNCHANGED <<clientVars, serverVars>>

\* The channel is closed and drained: the last flush.
LeavesLastBuffer == "done"
KeepsSelecting == "select"
AfterClose == IF buff = <<>> THEN "done" ELSE "final"

ChannelClosed ==
  /\ Running /\ commit = "select" /\ data = <<>> /\ ~open
  /\ commit' = AfterClose
  /\ UNCHANGED <<clientVars, data, held, buff, serverVars>>

\* getRequest: POST creates a group while none is known, PATCH appends to it.
AlwaysPost == created' = created + 1
Posts == created' = IF group THEN created ELSE created + 1

\* uploadChunk resets the buffer when the upload succeeded.
ResetAnyway(ok) == <<>>
BuffAfter(ok) == IF ok THEN <<>> ELSE buff

\* autoCommit goes on; the line it held is dropped with the old buffer.
AfterUpload ==
  /\ commit' = IF commit = "final" THEN "done" ELSE "select"
  /\ held' = NoLine

Store ==
  stored' = [l \in Lines |-> IF l \in InBuff THEN stored[l] + 1 ELSE stored[l]]

Uploading == Running /\ commit \in {"tick", "full", "final"}

\* The answer names a group, or its asset_id is empty: then none is known still,
\* and the next upload is a POST again.
AnswerNames(id) ==
  /\ group' = (group \/ id)
  /\ unnamed' = IF group \/ id THEN unnamed ELSE unnamed + 1

\* The server stores the chunk and answers that it did.
UploadSucceeds ==
  /\ Uploading
  /\ Store /\ Posts /\ \E id \in BOOLEAN : AnswerNames(id)
  /\ buff' = BuffAfter(TRUE)
  /\ AfterUpload
  /\ UNCHANGED <<clientVars, data, failures, unanswered>>

\* It refuses, or is not reached.
UploadFails ==
  /\ Uploading /\ failures < MaxFailures
  /\ failures' = failures + 1
  /\ buff' = BuffAfter(FALSE)
  /\ AfterUpload
  /\ UNCHANGED <<clientVars, data, group, stored, created, unanswered, unnamed>>

\* It stores the chunk, and the answer is lost or unreadable.
AnswerIsLost ==
  /\ Uploading /\ failures < MaxFailures
  /\ failures' = failures + 1
  /\ Store /\ Posts /\ unanswered' = unanswered + 1
  /\ buff' = BuffAfter(FALSE)
  /\ AfterUpload
  /\ UNCHANGED <<clientVars, data, group, unnamed>>

\* The HTTP client misses the answer to an attempt that the server stored and
\* sends the same request again by itself; uploadChunk sees its last attempt.
ClientResends ==
  /\ Uploading /\ unanswered < MaxFailures
  /\ Store /\ Posts /\ unanswered' = unanswered + 1
  /\ UNCHANGED <<clientVars, data, commit, held, buff, group, failures, unnamed>>

\* The process is gone.
Gone == ~Running /\ UNCHANGED vars

-----------------------------------------------------------------------------
Client(c) ==
  \/ Callback(c) \/ SendPanics(c) \/ CloseLoads(c) \/ CloseFails(c)
  \/ CloseChannel(c) \/ CloseStores(c) \/ CloseReturns(c)

Upload     == UploadSucceeds \/ UploadFails \/ AnswerIsLost \/ ClientResends
AutoCommit == Tick \/ Receive \/ ChannelClosed \/ Upload

Next ==
  \/ AutoCommit \/ Gone
  \/ \E c \in Clients : Client(c) \/ Interrupt(c)

\* The goroutines run when they can, and an upload ends within the timeout of
\* its HTTP client; a tick is never owed.
Fairness ==
  /\ WF_vars(Upload) /\ WF_vars(Receive) /\ WF_vars(ChannelClosed)
  /\ \A c \in Clients : WF_vars(Client(c))

Spec == Init /\ [][Next]_vars
FairSpec == Spec /\ Fairness

-----------------------------------------------------------------------------
(* Properties.                                                             *)

TypeOK ==
  /\ todo \in [Clients -> SUBSET Hosts]
  /\ pc \in [Clients -> {"off", "report", "close", "store", "wait", "returned"}]
  /\ data \in Seq(Lines) /\ Len(data) <= ChanSize
  /\ open \in BOOLEAN /\ closed \in BOOLEAN /\ crashed \in BOOLEAN
  /\ commit \in {"select", "tick", "full", "final", "done"}
  /\ held \in Lines \union {NoLine} /\ buff \in Seq(Lines)
  /\ group \in BOOLEAN /\ failures \in Nat /\ unanswered \in Nat /\ unnamed \in Nat
  /\ stored \in [Lines -> Nat] /\ created \in Nat

\* A failing server loses nothing that was in the buffer: a line that
\* autoCommit took and put into the buffer is there until the server has it.
\* (writer.go:161-191; what does not fit is another matter.)
BufferedUntilStored ==
  [][\A l \in Lines : l \in InBuff => l \in InBuff' \/ stored'[l] > 0]_vars

\* Retries store a line a second time only when an answer was lost, and a second
\* group is opened only when the answer to an earlier POST was lost or named no
\* group; with -asset-id none is ever opened (writer.go:217, 229-237).
StoredOnceUnlessUnanswered ==
  /\ \A l \in Lines : stored[l] <= 1 + unanswered
  /\ created <= IF AssetID THEN 0 ELSE 1 + unanswered + unnamed

\* When Close has returned from its wait, autoCommit has seen everything that
\* was sent, and what is still in the buffer was refused by the server.
ClosedIsDrained ==
  (\E c \in Clients : pc[c] = "returned" /\ commit = "done") =>
    data = <<>> /\ (buff # <<>> => failures > 0)

\* No chunk is larger than the limit by more than its last newline.
ChunkWithinLimit == SizeOf[buff] <= MaxChunkSize + 1

\* A blocked callback and a waiting Close get through, whatever the server
\* does, unless the process ends before.
ClientsGetThrough ==
  \A c \in Clients :
    (pc[c] \notin {"off", "returned"}) ~> ~Running

\* writer.go:88, "upload every 1 minute or when buffer is full": when main has
\* closed the writer and no upload failed, all that it took is on the server.
TakenIsUploaded ==
  pc[main] = "returned" /\ commit = "done" /\ failures = 0 =>
    \A l \in Taken : stored[l] > 0

=============================================================================
