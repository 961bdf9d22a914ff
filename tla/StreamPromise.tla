--------------------------- MODULE StreamPromise ---------------------------
(***************************************************************************)
(* What an HTTP round trip over NATS promises its caller, without subjects,*)
(* goroutines, channels or pods: the caller is handed an increasing        *)
(* selection of the chunks the edge has written, each at most once.  Some  *)
(* may be missing, but a response that carries its own length is reported  *)
(* complete only when it is whole, one that its last chunk ends only with  *)
(* that chunk, and no response is reported complete before the edge has    *)
(* written all of it.  A response is one response: its size and framing    *)
(* never change, and nothing follows its end.                              *)
(***************************************************************************)
EXTENDS Naturals, Sequences

CONSTANTS
    Calls, MaxChunks,
    Framings,
    Delimited,  \* framings with a length
    Terminated  \* framings whose last chunk ends them

VARIABLES
    outcome,    \* per call: "pending", then how it ended
    size,       \* per call: chunks of the response, 0 before there is one
    kind,       \* per call: framing of the response
    written,    \* per call: chunks the edge has written
    out         \* per call: the chunks handed to the caller

vars == <<outcome, size, kind, written, out>>

Init ==
    /\ outcome = [c \in Calls |-> "pending"]
    /\ size    = [c \in Calls |-> 0]
    /\ kind    \in [Calls -> Framings]
    /\ written = [c \in Calls |-> 0]
    /\ out     = [c \in Calls |-> <<>>]

(* The one answer a request gets.                                          *)
Answer(c) ==
    /\ size[c] = 0
    /\ \E k \in 1..MaxChunks : size' = [size EXCEPT ![c] = k]
    /\ \E f \in Framings : kind' = [kind EXCEPT ![c] = f]
    /\ UNCHANGED <<outcome, written, out>>

Write(c) ==
    /\ written[c] < size[c]
    /\ written' = [written EXCEPT ![c] = @ + 1]
    /\ UNCHANGED <<outcome, size, kind, out>>

Whole(c, chunks) == chunks = [i \in 1..size[c] |-> i]

(* The caller is handed a later chunk than the ones it has, and may learn  *)
(* with it that the body is at its end.                                    *)
AtEnd(c, chunks) ==
    \/ kind[c] \in Delimited /\ Whole(c, chunks)
    \/ kind[c] \in Terminated /\ chunks[Len(chunks)] = size[c]

Read(c) ==
    /\ outcome[c] = "pending"
    /\ \E k \in 1..written[c] :
         /\ \A i \in 1..Len(out[c]) : out[c][i] < k
         /\ out' = [out EXCEPT ![c] = Append(@, k)]
    /\ \/ UNCHANGED outcome
       \/ \E o \in {"err", "closed"} : outcome' = [outcome EXCEPT ![c] = o]
       \/ /\ AtEnd(c, out'[c])
          /\ outcome' = [outcome EXCEPT ![c] = "ok"]
    /\ UNCHANGED <<size, kind, written>>

(* The end of a body that nothing in it ends.                              *)
End(c) ==
    /\ outcome[c] = "pending"
    /\ kind[c] \notin Delimited \cup Terminated
    /\ size[c] # 0
    /\ written[c] = size[c]
    /\ outcome' = [outcome EXCEPT ![c] = "ok"]
    /\ UNCHANGED <<size, kind, written, out>>

(* A call may fail at any time, or its user stop reading.                  *)
GiveUp(c) ==
    /\ outcome[c] = "pending"
    /\ \E o \in {"err", "closed"} : outcome' = [outcome EXCEPT ![c] = o]
    /\ UNCHANGED <<size, kind, written, out>>

Next == \E c \in Calls : Answer(c) \/ Write(c) \/ Read(c) \/ End(c) \/ GiveUp(c)

Spec == Init /\ [][Next]_vars
=============================================================================
