----------------------------- MODULE MajsoulRpc -----------------------------
(***************************************************************************)
(* One WebSocket connection of src/majsoul/rpc.rs: any number of tasks     *)
(* call MajsoulRpc::call at the same time, and one spawned reader task     *)
(* gives each response to the call whose request index it carries.         *)
(*                                                                         *)
(* The calls share the atomic counter req_idx and the mutex-protected map  *)
(* pending from an index to the sending half of the caller's oneshot       *)
(* channel.  Each action below is what happens between two await points,   *)
(* or inside one critical section of the mutex.                            *)
(*                                                                         *)
(* Abstractions: a request is the call that sent it, and the content of a  *)
(* response is the call whose request it answers.  The server answers a    *)
(* request at most once, in any order, or never.                           *)
(***************************************************************************)
EXTENDS Integers, FiniteSets

CONSTANTS
  Calls,       \* the invocations of MajsoulRpc::call, each used once
  NoCall,      \* no entry in pending
  Modulus,     \* the size of the index space, 60007 in the code
  CounterMod,  \* where req_idx wraps, 2^32 in the code
  Tries,       \* candidates a call tries, 1024 in the code
  Starts       \* values of req_idx to start from: 1 for a new connection, any
               \* other for one whose earlier calls have all returned

ASSUME CallsAssumption == NoCall \notin Calls

ASSUME IndexAssumption ==
  /\ Modulus \in Nat \ {0, 1}
  /\ CounterMod \in Nat \ {0}
  /\ Tries \in Nat \ {0}
  /\ Starts \subseteq 0..(CounterMod - 1)

VARIABLES
  req_idx,   \* the AtomicU32 counter
  pending,   \* index -> the call whose channel is registered, or NoCall
  frames,    \* calls whose request is on its way or being answered
  reader,    \* the reader task
  stage,     \* where each call is
  tries,     \* candidates it has taken
  idx,       \* its candidate, later its index
  chan,      \* state of its oneshot channel
  content,   \* the call whose response the channel holds
  result     \* what it returns

callVars == <<stage, tries, idx, chan, content, result>>
vars     == <<req_idx, pending, frames, reader, callVars>>

Keys == 1..(Modulus - 1)

-----------------------------------------------------------------------------
(***************************************************************************)
(* A call.                                                                 *)
(***************************************************************************)

Goto(c, s) == stage' = [stage EXCEPT ![c] = s]

Return(c, r) == result' = [result EXCEPT ![c] = r]

Begin(c) ==
  /\ stage[c] = "idle"
  /\ Goto(c, "choose")
  /\ UNCHANGED <<req_idx, pending, frames, reader, tries, idx, chan, content, result>>

\* the request index of a counter value
Key(n) == n % Modulus

\* mutant: index 0 is used
UsableAlways(i) == TRUE

\* index 0 is skipped
Usable(i) == i # 0

\* req_idx.fetch_add
FetchAdd(c) ==
  /\ stage[c] = "choose"
  /\ tries[c] < Tries
  /\ tries' = [tries EXCEPT ![c] = @ + 1]
  /\ idx' = [idx EXCEPT ![c] = Key(req_idx)]
  /\ req_idx' = (req_idx + 1) % CounterMod
  /\ Goto(c, IF Usable(Key(req_idx)) THEN "claim" ELSE "choose")
  /\ UNCHANGED <<pending, frames, reader, chan, content, result>>

\* mutant: the candidate is inserted without looking for an entry
TakenNever(i) == FALSE

\* pending.contains_key
Taken(i) == pending[i] # NoCall

\* under the lock: insert the channel, unless the index is taken
Claim(c) ==
  /\ stage[c] = "claim"
  /\ IF Taken(idx[c])
       THEN Goto(c, "choose") /\ UNCHANGED pending
       ELSE Goto(c, "send") /\ pending' = [pending EXCEPT ![idx[c]] = c]
  /\ UNCHANGED <<req_idx, frames, reader, tries, idx, chan, content, result>>

\* "RPC index space exhausted"
Exhaust(c) ==
  /\ stage[c] = "choose"
  /\ tries[c] = Tries
  /\ Goto(c, "done")
  /\ Return(c, "exhausted")
  /\ UNCHANGED <<req_idx, pending, frames, reader, tries, idx, chan, content>>

Send(c) ==
  /\ stage[c] = "send"
  /\ Goto(c, "wait")
  /\ frames' = frames \cup {c}
  /\ UNCHANGED <<req_idx, pending, reader, tries, idx, chan, content, result>>

\* the sink reports an error
SendFail(c) ==
  /\ stage[c] = "send"
  /\ Goto(c, "remove")
  /\ Return(c, "send_failed")
  /\ UNCHANGED <<req_idx, pending, frames, reader, tries, idx, chan, content>>

\* await_response finds a value, or the channel's sender dropped
Receive(c) ==
  /\ stage[c] = "wait"
  /\ chan[c] # "empty"
  /\ \/ /\ chan[c] = "answer"
        /\ Goto(c, "done") /\ Return(c, "ok")
     \/ /\ chan[c] = "error"
        /\ Goto(c, "done") /\ Return(c, "error")
     \/ /\ chan[c] = "dropped"
        /\ Goto(c, "remove") /\ Return(c, "closed")
  /\ UNCHANGED <<req_idx, pending, frames, reader, tries, idx, chan, content>>

\* mutant: the timer needs the reader
ExpireWithReader(c) ==
  /\ stage[c] = "wait"
  /\ chan[c] = "empty"
  /\ reader = "up"
  /\ Goto(c, "remove")
  /\ Return(c, "timeout")
  /\ UNCHANGED <<req_idx, pending, frames, reader, tries, idx, chan, content>>

\* the timeout elapses: the timer looks into the channel once more, gives it
\* up, and only then waits for the lock
Expire(c) ==
  /\ stage[c] = "wait"
  /\ chan[c] = "empty"
  /\ Goto(c, "remove")
  /\ Return(c, "timeout")
  /\ UNCHANGED <<req_idx, pending, frames, reader, tries, idx, chan, content>>

\* mutant: the entry is not removed
ForgetRemove(c) ==
  /\ stage[c] = "remove"
  /\ Goto(c, "done")
  /\ UNCHANGED <<req_idx, pending, frames, reader, tries, idx, chan, content, result>>

\* under the lock: remove whatever is registered at the index now; dropping
\* the sender of another call closes that call's channel
Remove(c) ==
  LET d == pending[idx[c]] IN
  /\ stage[c] = "remove"
  /\ Goto(c, "done")
  /\ pending' = [pending EXCEPT ![idx[c]] = NoCall]
  /\ chan' = [e \in Calls |-> IF e = d /\ e # c THEN "dropped" ELSE chan[e]]
  /\ UNCHANGED <<req_idx, frames, reader, tries, idx, content, result>>

-----------------------------------------------------------------------------
(***************************************************************************)
(* The reader task.                                                        *)
(***************************************************************************)

\* A response to the request of c arrives.  Whichever call is registered at
\* its index gets the payload, or an error if the payload does not decode; a
\* response for an index that is not registered is dropped.
Respond(c, decodes) ==
  LET d == pending[idx[c]] IN
  /\ reader = "up"
  /\ c \in frames
  /\ frames' = frames \ {c}
  /\ pending' = [pending EXCEPT ![idx[c]] = NoCall]
  /\ chan' = [e \in Calls |->
                IF e = d THEN (IF decodes THEN "answer" ELSE "error") ELSE chan[e]]
  /\ content' = [e \in Calls |-> IF e = d THEN c ELSE content[e]]
  /\ UNCHANGED <<req_idx, reader, stage, tries, idx, result>>

\* a Close frame or a stream error: drain pending and end
ReaderStops ==
  /\ reader = "up"
  /\ reader' = "down"
  /\ pending' = [i \in Keys |-> NoCall]
  /\ chan' = [e \in Calls |->
                IF \E i \in Keys : pending[i] = e THEN "error" ELSE chan[e]]
  /\ UNCHANGED <<req_idx, frames, stage, tries, idx, content, result>>

\* the stream ends without a Close frame or an error: nothing is drained
StreamEnds ==
  /\ reader = "up"
  /\ reader' = "down"
  /\ UNCHANGED <<req_idx, pending, frames, callVars>>

-----------------------------------------------------------------------------
Init ==
  /\ req_idx \in Starts
  /\ pending = [i \in Keys |-> NoCall]
  /\ frames = {}
  /\ reader = "up"
  /\ stage = [c \in Calls |-> "idle"]
  /\ tries = [c \in Calls |-> 0]
  /\ idx = [c \in Calls |-> 0]
  /\ chan = [c \in Calls |-> "empty"]
  /\ content = [c \in Calls |-> c]
  /\ result = [c \in Calls |-> "none"]

CallStep(c) ==
  \/ FetchAdd(c)
  \/ Claim(c)
  \/ Exhaust(c)
  \/ Send(c)
  \/ SendFail(c)
  \/ Receive(c)
  \/ Expire(c)
  \/ Remove(c)

Next ==
  \/ \E c \in Calls : Begin(c) \/ CallStep(c)
  \/ \E c \in Calls, decodes \in BOOLEAN : Respond(c, decodes)
  \/ ReaderStops
  \/ StreamEnds

Spec == Init /\ [][Next]_vars

\* The runtime keeps polling a call that can go on, and its timer fires.
\* Neither the server nor the reader owes it anything.
FairSpec == Spec /\ \A c \in Calls : WF_vars(CallStep(c))

-----------------------------------------------------------------------------
Stages   == {"idle", "choose", "claim", "send", "wait", "remove", "done"}
Results  == {"none", "ok", "error", "send_failed", "timeout", "closed", "exhausted"}
Channels == {"empty", "answer", "error", "dropped"}

\* the stages of a call that owns an index
Indexed == {"send", "wait", "remove"}

TypeOK ==
  /\ req_idx \in 0..(CounterMod - 1)
  /\ pending \in [Keys -> Calls \cup {NoCall}]
  /\ frames \subseteq Calls
  /\ reader \in {"up", "down"}
  /\ stage \in [Calls -> Stages]
  /\ tries \in [Calls -> 0..Tries]
  /\ idx \in [Calls -> 0..(Modulus - 1)]
  /\ \A c \in Calls : stage[c] \in Indexed \cup {"claim"} => idx[c] \in Keys
  /\ \A c \in frames : stage[c] \in {"wait", "remove", "done"} /\ idx[c] \in Keys
  /\ \A c \in Calls : stage[c] \in {"remove", "done"} <=> result[c] # "none"
  /\ chan \in [Calls -> Channels]
  /\ content \in [Calls -> Calls]
  /\ result \in [Calls -> Results]

\* pending holds no entry of a call that has returned, and none of a call
\* that already has its value (rpc.rs:432, the D4 demux invariant): what a
\* timeout, a failed send, a late response and the drain at the end of the
\* connection do to it in any order leaks nothing.
NoLeak ==
  \A i \in Keys : pending[i] # NoCall =>
    LET c == pending[i] IN
    /\ stage[c] \in Indexed
    /\ idx[c] = i
    /\ chan[c] = "empty"

NoTimeoutYet == \A c \in Calls : result[c] # "timeout"

\* As long as no call has timed out, every call that returns data returns the
\* response to its own request, however the counter wraps and indices are
\* reused (rpc.rs:445, "keeps the demux map sound").
OwnResponseBeforeTimeout ==
  NoTimeoutYet => \A c \in Calls : result[c] = "ok" => content[c] = c

\* What the responses rest on: while the connection is open and no call has
\* timed out, every call that holds an index is the one registered there, and
\* every unanswered request is of a call that still waits for it.
Registered ==
  NoTimeoutYet /\ reader = "up" =>
    /\ \A c \in Calls :
         \/ stage[c] \in {"send", "remove"}
         \/ stage[c] = "wait" /\ chan[c] = "empty"
         => pending[idx[c]] = c
    /\ \A c \in frames : stage[c] = "wait" /\ chan[c] = "empty"

\* await_response reports "connection closed" for a dropped channel
\* (rpc.rs:503-506).  Until a call times out that report is true: no call
\* loses its channel to another one on an open connection.
ClosedIsTrue ==
  NoTimeoutYet /\ reader = "up" => \A c \in Calls : result[c] # "closed"

\* Every call returns: by its response, by an error, or by its timeout, even
\* if it registers after the reader has drained pending and ended.
EveryCallReturns ==
  \A c \in Calls : stage[c] = "choose" ~> stage[c] = "done"
=============================================================================
