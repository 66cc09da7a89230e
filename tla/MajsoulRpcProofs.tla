-------------------------- MODULE MajsoulRpcProofs --------------------------
(***************************************************************************)
(* Proofs about MajsoulRpc, for any number of concurrent calls and any     *)
(* size of the index space and of the counter: type correctness, that      *)
(* pending leaks nothing, and that responses reach their own calls until   *)
(* the first timeout.                                                      *)
(***************************************************************************)
EXTENDS MajsoulRpc, TLAPS

-----------------------------------------------------------------------------
(***************************************************************************)
(* Type correctness.                                                       *)
(***************************************************************************)

\* Every counter value is mapped into the index space.
LEMMA KeyRange == \A n \in Nat : Key(n) \in 0..(Modulus - 1)
  BY IndexAssumption DEF Key

\* Every index but 0 is a key of pending.
LEMMA UsableKeys == \A i \in 0..(Modulus - 1) : Usable(i) => i \in Keys
  BY IndexAssumption DEF Usable, Keys

\* fetch_add wraps within the counter.
LEMMA CounterWraps == \A n \in 0..(CounterMod - 1) : (n + 1) % CounterMod \in 0..(CounterMod - 1)
  BY IndexAssumption

\* A connection begins well typed.
LEMMA TypeInit == Init => TypeOK
  BY IndexAssumption DEF Init, TypeOK, Stages, Results, Channels, Indexed, Keys

\* Every step of a call or of the reader keeps the connection well typed; in
\* particular no call gets past its candidates without a usable index.
LEMMA TypeStep == TypeOK /\ [Next]_vars => TypeOK'
<1> SUFFICES ASSUME TypeOK, [Next]_vars PROVE TypeOK'
  OBVIOUS
<1> USE CallsAssumption, IndexAssumption DEF TypeOK, Stages, Results, Channels, Indexed, Goto, Return
<1>1. ASSUME NEW c \in Calls, Begin(c) PROVE TypeOK'
  BY <1>1 DEF Begin
<1>2. ASSUME NEW c \in Calls, FetchAdd(c) PROVE TypeOK'
  <2>1. Key(req_idx) \in 0..(Modulus - 1) /\ (Usable(Key(req_idx)) => Key(req_idx) \in Keys)
    BY KeyRange, UsableKeys
  <2>2. req_idx' \in 0..(CounterMod - 1)
    BY <1>2, CounterWraps DEF FetchAdd
  <2>3. tries' \in [Calls -> 0..Tries]
    <3>1. tries[c] + 1 \in 0..Tries
      BY <1>2 DEF FetchAdd
    <3> QED
      BY <1>2, <3>1 DEF FetchAdd
  <2>4. c \notin frames
    BY <1>2 DEF FetchAdd
  <2>5. idx' = [idx EXCEPT ![c] = Key(req_idx)]
    BY <1>2 DEF FetchAdd
  <2>6. \/ stage' = [stage EXCEPT ![c] = "choose"]
        \/ stage' = [stage EXCEPT ![c] = "claim"] /\ Key(req_idx) \in Keys
    BY <1>2, <2>1 DEF FetchAdd
  <2>7. stage[c] = "choose" /\ UNCHANGED <<pending, frames, reader, chan, content, result>>
    BY <1>2 DEF FetchAdd
  <2> HIDE DEF Key
  <2> QED
    BY <2>1, <2>2, <2>3, <2>4, <2>5, <2>6, <2>7
<1>3. ASSUME NEW c \in Calls, Claim(c) PROVE TypeOK'
  BY <1>3 DEF Claim
<1>4. ASSUME NEW c \in Calls, Exhaust(c) PROVE TypeOK'
  BY <1>4 DEF Exhaust
<1>5. ASSUME NEW c \in Calls, Send(c) PROVE TypeOK'
  BY <1>5 DEF Send
<1>6. ASSUME NEW c \in Calls, SendFail(c) PROVE TypeOK'
  BY <1>6 DEF SendFail
<1>7. ASSUME NEW c \in Calls, Receive(c) PROVE TypeOK'
  BY <1>7 DEF Receive
<1>8. ASSUME NEW c \in Calls, Expire(c) PROVE TypeOK'
  BY <1>8 DEF Expire
<1>9. ASSUME NEW c \in Calls, Remove(c) PROVE TypeOK'
  BY <1>9 DEF Remove
<1>10. ASSUME NEW c \in Calls, NEW decodes \in BOOLEAN, Respond(c, decodes) PROVE TypeOK'
  <2>1. chan' \in [Calls -> Channels]
    BY <1>10 DEF Respond
  <2> QED
    BY <1>10, <2>1 DEF Respond
<1>11. CASE ReaderStops
  <2>1. chan' \in [Calls -> Channels]
    BY <1>11 DEF ReaderStops
  <2> QED
    BY <1>11, <2>1 DEF ReaderStops
<1>12. CASE StreamEnds
  BY <1>12 DEF StreamEnds, callVars
<1>13. CASE UNCHANGED vars
  BY <1>13 DEF vars, callVars
<1> QED
  BY <1>1, <1>2, <1>3, <1>4, <1>5, <1>6, <1>7, <1>8, <1>9, <1>10, <1>11, <1>12, <1>13
     DEF Next, CallStep

\* Whatever the sizes of the index space and of the counter and the number of
\* calls, a connection stays well typed: every call that sends has an index
\* in 1..Modulus-1.
THEOREM RpcTypeCorrect == Spec => []TypeOK
  BY TypeInit, TypeStep, PTL DEF Spec

-----------------------------------------------------------------------------
(***************************************************************************)
(* pending leaks nothing.                                                  *)
(***************************************************************************)

\* A call that has not registered yet has an untouched channel.
Untouched ==
  \A c \in Calls : stage[c] \in {"idle", "choose", "claim"} => chan[c] = "empty"

LeakInv == NoLeak /\ Untouched

\* Nothing is registered at first.
LEMMA LeakInit == Init => LeakInv
  BY DEF Init, LeakInv, NoLeak, Untouched

\* An entry appears when its call claims the index, and is gone before the
\* call has its value or returns.
LEMMA LeakStep == TypeOK /\ LeakInv /\ [Next]_vars => LeakInv'
<1> SUFFICES ASSUME TypeOK, LeakInv, [Next]_vars PROVE LeakInv'
  OBVIOUS
<1> USE CallsAssumption DEF TypeOK, LeakInv, NoLeak, Untouched, Indexed, Goto, Return
<1>1. ASSUME NEW c \in Calls, Begin(c) PROVE LeakInv'
  BY <1>1 DEF Begin
<1>2. ASSUME NEW c \in Calls, FetchAdd(c) PROVE LeakInv'
  <2>1. \A i \in Keys : pending[i] # c
    BY <1>2 DEF FetchAdd
  <2> QED
    BY <1>2, <2>1 DEF FetchAdd
<1>3. ASSUME NEW c \in Calls, Claim(c) PROVE LeakInv'
  <2>1. \A i \in Keys : pending[i] # c
    BY <1>3 DEF Claim
  <2> QED
    BY <1>3, <2>1 DEF Claim
<1>4. ASSUME NEW c \in Calls, Exhaust(c) PROVE LeakInv'
  <2>1. \A i \in Keys : pending[i] # c
    BY <1>4 DEF Exhaust
  <2> QED
    BY <1>4, <2>1 DEF Exhaust
<1>5. ASSUME NEW c \in Calls, Send(c) \/ SendFail(c) \/ Receive(c) \/ Expire(c) PROVE LeakInv'
  BY <1>5 DEF Send, SendFail, Receive, Expire
<1>6. ASSUME NEW c \in Calls, Remove(c) PROVE LeakInv'
  <2>1. idx[c] \in Keys /\ stage[c] = "remove"
    BY <1>6 DEF Remove
  <2>2. \A i \in Keys : pending'[i] # NoCall =>
          pending'[i] = pending[i] /\ pending[i] # c /\ pending[i] # pending[idx[c]]
    BY <1>6, <2>1 DEF Remove
  <2>3. \A e \in Calls : chan'[e] = chan[e] \/ e = pending[idx[c]]
    BY <1>6 DEF Remove
  <2> QED
    BY <1>6, <2>1, <2>2, <2>3 DEF Remove
<1>7. ASSUME NEW c \in Calls, NEW decodes \in BOOLEAN, Respond(c, decodes) PROVE LeakInv'
  <2>1. idx[c] \in Keys
    BY <1>7 DEF Respond
  <2>2. \A i \in Keys : pending'[i] # NoCall =>
          pending'[i] = pending[i] /\ pending[i] # pending[idx[c]]
    BY <1>7, <2>1 DEF Respond
  <2>3. \A e \in Calls : chan'[e] = chan[e] \/ e = pending[idx[c]]
    BY <1>7 DEF Respond
  <2> QED
    BY <1>7, <2>1, <2>2, <2>3 DEF Respond
<1>8. CASE ReaderStops
  BY <1>8 DEF ReaderStops
<1>9. CASE StreamEnds
  BY <1>9 DEF StreamEnds, callVars
<1>10. CASE UNCHANGED vars
  BY <1>10 DEF vars, callVars
<1> QED
  BY <1>1, <1>2, <1>3, <1>4, <1>5, <1>6, <1>7, <1>8, <1>9, <1>10 DEF Next, CallStep

\* No order of responses, timeouts, failed sends and the final drain leaves an
\* entry of a finished call in pending, and no entry ever belongs to a call
\* that has its value.
THEOREM PendingLeaksNothing == Spec => []NoLeak
<1>1. Spec => []LeakInv
  BY LeakInit, LeakStep, RpcTypeCorrect, PTL DEF Spec
<1> QED
  BY <1>1, PTL DEF LeakInv

-----------------------------------------------------------------------------
(***************************************************************************)
(* Responses reach their own calls until a call times out.                 *)
(***************************************************************************)

\* on an open connection no channel has been closed
NotCutOff ==
  NoTimeoutYet /\ reader = "up" => \A c \in Calls : chan[c] # "dropped"

\* what a channel holds, and what was returned from it, is the call's own
OwnContent ==
  NoTimeoutYet => \A c \in Calls : chan[c] = "answer" \/ result[c] = "ok" => content[c] = c

ResponseInv == Registered /\ NotCutOff /\ OwnContent /\ ClosedIsTrue

\* Nothing has been requested at first.
LEMMA ResponseInit == Init => ResponseInv
  BY DEF Init, ResponseInv, Registered, NotCutOff, OwnContent, ClosedIsTrue

\* A call that has timed out stays timed out.
LEMMA TimeoutStays == TypeOK /\ [Next]_vars /\ NoTimeoutYet' => NoTimeoutYet
<1> SUFFICES ASSUME TypeOK, [Next]_vars, NEW c \in Calls, result[c] = "timeout"
             PROVE  result'[c] = "timeout"
  BY DEF NoTimeoutYet
<1> USE DEF TypeOK
<1>1. stage[c] \in {"remove", "done"}
  OBVIOUS
<1>2. ASSUME NEW d \in Calls, Begin(d) \/ CallStep(d) PROVE result'[c] = "timeout"
  BY <1>1, <1>2 DEF Begin, CallStep, FetchAdd, Claim, Exhaust, Send, SendFail, Receive,
     Expire, Remove, Return
<1> QED
  BY <1>2 DEF Next, Respond, ReaderStops, StreamEnds, vars, callVars

\* Until a call times out, an index is given away only when the call that
\* holds it has its response, so a response finds its own call.
LEMMA ResponseStep ==
  TypeOK /\ LeakInv /\ ResponseInv /\ [Next]_vars => ResponseInv'
<1> SUFFICES ASSUME TypeOK, LeakInv, ResponseInv, [Next]_vars, NoTimeoutYet, NoTimeoutYet'
             PROVE  ResponseInv'
  BY TimeoutStays DEF ResponseInv, Registered, NotCutOff, OwnContent, ClosedIsTrue
<1> USE CallsAssumption
    DEF TypeOK, LeakInv, NoLeak, Untouched, ResponseInv, Registered, NotCutOff, OwnContent,
        ClosedIsTrue, Indexed, Goto, Return
<1>1. ASSUME NEW c \in Calls, Begin(c) PROVE ResponseInv'
  BY <1>1 DEF Begin
<1>2. ASSUME NEW c \in Calls, FetchAdd(c) PROVE ResponseInv'
  BY <1>2 DEF FetchAdd
<1>3. ASSUME NEW c \in Calls, Claim(c) PROVE ResponseInv'
  BY <1>3 DEF Claim, Taken
<1>4. ASSUME NEW c \in Calls, Exhaust(c) PROVE ResponseInv'
  BY <1>4 DEF Exhaust
<1>5. ASSUME NEW c \in Calls, Send(c) PROVE ResponseInv'
  BY <1>5 DEF Send
<1>6. ASSUME NEW c \in Calls, SendFail(c) PROVE ResponseInv'
  BY <1>6 DEF SendFail
<1>7. ASSUME NEW c \in Calls, Receive(c) PROVE ResponseInv'
  BY <1>7 DEF Receive
<1>8. ASSUME NEW c \in Calls, Expire(c) PROVE ResponseInv'
  BY <1>8 DEF Expire, NoTimeoutYet
<1>9. ASSUME NEW c \in Calls, Remove(c) PROVE ResponseInv'
  BY <1>9 DEF Remove
<1>10. ASSUME NEW c \in Calls, NEW decodes \in BOOLEAN, Respond(c, decodes) PROVE ResponseInv'
  <2>1. pending[idx[c]] = c /\ idx[c] \in Keys
    BY <1>10 DEF Respond
  <2> QED
    BY <1>10, <2>1 DEF Respond
<1>11. CASE ReaderStops
  BY <1>11 DEF ReaderStops
<1>12. CASE StreamEnds
  BY <1>12 DEF StreamEnds, callVars
<1>13. CASE UNCHANGED vars
  BY <1>13 DEF vars, callVars
<1> QED
  BY <1>1, <1>2, <1>3, <1>4, <1>5, <1>6, <1>7, <1>8, <1>9, <1>10, <1>11, <1>12, <1>13
     DEF Next, CallStep

\* The strengthening of the next three theorems holds throughout.
LEMMA ResponseAlways == Spec => []ResponseInv
  BY ResponseInit, ResponseStep, LeakInit, LeakStep, RpcTypeCorrect, PTL DEF Spec

\* For any number of calls and however often indices are reused: until a call
\* times out, whoever holds an index is registered under it.
THEOREM CallsRegistered == Spec => []Registered
  BY ResponseAlways, PTL DEF ResponseInv

\* Until a call times out, data returned by a call is the response to its own
\* request.
THEOREM ResponsesMatch == Spec => []OwnResponseBeforeTimeout
<1>1. ResponseInv => OwnResponseBeforeTimeout
  BY DEF ResponseInv, OwnContent, OwnResponseBeforeTimeout
<1> QED
  BY <1>1, ResponseAlways, PTL

\* Until a call times out, "connection closed" on an open connection is never
\* reported because of another call.
THEOREM ReportedClosedIsClosed == Spec => []ClosedIsTrue
  BY ResponseAlways, PTL DEF ResponseInv
=============================================================================
