------------------------------- MODULE Stream -------------------------------
(***************************************************************************)
(* The notification stream (src/src/stream.rs): run_stream connects, hands *)
(* each readable plan event to the callback, and reconnects from its       *)
(* cursor after a delay that doubles until a connection proves healthy.    *)
(*                                                                         *)
(* External to the code: the server numbers its events 1, 2, 3, ... and    *)
(* sends them in order; to a client with a Last-Event-ID it sends at least *)
(* everything after it, to one without whatever it likes.  A connection    *)
(* may be cut at any moment, or stay open without forwarding anything.     *)
(***************************************************************************)
EXTENDS Naturals

CONSTANTS
    MaxSequence,    \* bound: events the server publishes
    Unreadable,     \* events of another type or schema, oversize or malformed
    MaxDelay,       \* the cap given to Backoff::new, in seconds
    MaxMisses,      \* bound: unhealthy connections in a row that are counted
    None

ASSUME StreamAssumption ==
    /\ MaxSequence \in Nat \ {0}
    /\ Unreadable \subseteq 1..MaxSequence
    /\ MaxDelay \in Nat \ {0}
    /\ MaxMisses \in Nat
    /\ None \notin Nat

(* 2^n, as a function that proofs can unfold. *)
PowerOfTwo[n \in Nat] == IF n = 0 THEN 1 ELSE 2 * PowerOfTwo[n - 1]

ASSUME MissesAssumption == PowerOfTwo[MaxMisses] >= 2 * MaxDelay

VARIABLES
    published,  \* events the server has published
    next,       \* the next event it sends on this connection
    wedged,     \* the connection is open but forwards nothing
    pc,         \* where run_stream is
    cursor,     \* the highest sequence seen
    deliveredAny,   \* this connection has delivered an event
    longUp,     \* BACKOFF_RESET_AFTER has passed since the request was sent
    current,    \* Backoff::current
    delay,      \* the raw delay being slept
    delivered,  \* history: the events handed to the callback
    first,      \* history: where the resumable part of the stream begins
    misses      \* history: connections since the last healthy one

server == <<published, next, wedged>>
backoff == <<current, delay>>
vars == <<server, pc, cursor, deliveredAny, longUp, backoff,
          delivered, first, misses>>

Sequence == 1..MaxSequence

Init ==
    /\ published = 0
    /\ next = 1
    /\ wedged = FALSE
    /\ pc = "top"
    /\ cursor \in {None, 0}
    /\ deliveredAny = FALSE
    /\ longUp = FALSE
    /\ current = 1
    /\ delay = 0
    /\ delivered = {}
    /\ first = IF cursor = None THEN None ELSE 1
    /\ misses = 0

----------------------------------------------------------------------------
(* The server and the network. *)

Publish ==
    /\ published < MaxSequence
    /\ published' = published + 1
    /\ UNCHANGED <<next, wedged, pc, cursor, deliveredAny, longUp, backoff,
                   delivered, first, misses>>

(* External: a middlebox stops forwarding, and TCP does not notice. *)
Wedge ==
    /\ pc = "reading"
    /\ wedged' = TRUE
    /\ UNCHANGED <<published, next, pc, cursor, deliveredAny, longUp,
                   backoff, delivered, first, misses>>

Age ==
    /\ pc = "reading"
    /\ longUp' = TRUE
    /\ UNCHANGED <<server, pc, cursor, deliveredAny, backoff, delivered,
                   first, misses>>

----------------------------------------------------------------------------
(* connect_and_read. *)

(* A bug: the id sent is that of the next event wanted. *)
ResumeAfterNext == cursor + 1

(* The Last-Event-ID header. *)
ResumeAfter == cursor

(* A request, whatever its outcome. *)
Attempt(to) ==
    /\ pc = "top"
    /\ pc' = to
    /\ deliveredAny' = FALSE
    /\ UNCHANGED <<published, cursor, backoff, delivered, first, misses>>

Connect ==
    /\ Attempt("reading")
    /\ next' \in IF cursor = None THEN 1..(published + 1)
                 ELSE 1..(ResumeAfter + 1)
    /\ wedged' = FALSE
    /\ longUp' = FALSE

(* A transport error, or a status other than 404 and 501; the clock of the *)
(* connection has been running while the client waited for an answer.      *)
ConnectFails ==
    /\ Attempt("ended")
    /\ longUp' \in BOOLEAN
    /\ UNCHANGED <<next, wedged>>

(* 404 or 501: run_stream gives up. *)
Unsupported ==
    /\ Attempt("returned")
    /\ UNCHANGED <<next, wedged, longUp>>

(* A frame arrives whole. *)
Arrives ==
    /\ pc = "reading"
    /\ ~ wedged
    /\ next <= published
    /\ next' = next + 1

Advance(sequence) ==
    IF cursor = None \/ cursor < sequence THEN sequence ELSE cursor

(* The cursor moves before the callback runs; Break ends run_stream. *)
Deliver ==
    /\ Arrives
    /\ next \notin Unreadable
    /\ cursor' = Advance(next)
    /\ first' = IF first = None THEN next ELSE first
    /\ deliveredAny' = TRUE
    /\ delivered' = delivered \cup {next}
    /\ pc' \in {"reading", "returned"}
    /\ UNCHANGED <<published, wedged, longUp, backoff, misses>>

(* read_frames or connect_and_read drops the frame, the stream stays open. *)
SkipFrame ==
    /\ Arrives
    /\ next \in Unreadable
    /\ UNCHANGED <<published, wedged, pc, cursor, deliveredAny, longUp,
                   backoff, delivered, first, misses>>

(* A bug: a client without a total-request timeout. *)
EndedByPeer ==
    /\ pc = "reading"
    /\ ~ wedged
    /\ pc' = "ended"
    /\ UNCHANGED <<server, cursor, deliveredAny, longUp, backoff, delivered,
                   first, misses>>

(* End of stream, a read error, or the recycling of the connection; a      *)
(* frame cut in the middle is not dispatched.                              *)
ConnectionEnds ==
    /\ pc = "reading"
    /\ pc' = "ended"
    /\ UNCHANGED <<server, cursor, deliveredAny, longUp, backoff, delivered,
                   first, misses>>

----------------------------------------------------------------------------
(* Backing off. *)

Smaller(a, b) == IF a < b THEN a ELSE b

(* A bug: an idle connection never counts as healthy. *)
ResetsWhenDelivered == deliveredAny

ResetsBackoff == deliveredAny \/ longUp

Doubled(seconds) == Smaller(2 * seconds, MaxDelay)

(* reset if the connection was healthy, then next_delay. *)
BackOff ==
    LET from == IF ResetsBackoff THEN 1 ELSE current IN
    /\ pc = "ended"
    /\ pc' = "sleeping"
    /\ delay' = Smaller(from, MaxDelay)
    /\ current' = Doubled(from)
    /\ misses' = IF deliveredAny \/ longUp THEN 0
                 ELSE Smaller(misses + 1, MaxMisses)
    /\ UNCHANGED <<server, cursor, deliveredAny, longUp, delivered, first>>

Wake ==
    /\ pc = "sleeping"
    /\ pc' = "top"
    /\ UNCHANGED <<server, cursor, deliveredAny, longUp, backoff, delivered,
                   first, misses>>

(* should_stop is asked before a connection and before a sleep. *)
Stop ==
    /\ pc \in {"top", "ended"}
    /\ pc' = "returned"
    /\ UNCHANGED <<server, cursor, deliveredAny, longUp, backoff, delivered,
                   first, misses>>

----------------------------------------------------------------------------

Next ==
    \/ Publish \/ Wedge \/ Age
    \/ Connect \/ ConnectFails \/ Unsupported
    \/ Deliver \/ SkipFrame \/ ConnectionEnds
    \/ BackOff \/ Wake \/ Stop

Spec == Init /\ [][Next]_vars

(* The thread goes on when it is not waiting for the server; the server    *)
(* accepts some of the attempts; a frame that is due on one connection     *)
(* after the other gets through on some of them; and the client's total-   *)
(* request timeout ends a connection that is wedged.                       *)
FairSpec ==
    /\ Spec
    /\ WF_vars(BackOff \/ Wake)
    /\ SF_vars(Connect)
    /\ \A e \in Sequence : SF_vars(next = e /\ (Deliver \/ SkipFrame))
    /\ WF_vars(wedged /\ ConnectionEnds)

----------------------------------------------------------------------------
(* Properties. *)

(* The type of every variable. *)
TypeOK ==
    /\ published \in 0..MaxSequence
    /\ next \in 1..(MaxSequence + 1)
    /\ wedged \in BOOLEAN
    /\ pc \in {"top", "reading", "ended", "sleeping", "returned"}
    /\ cursor \in 0..published \cup {None}
    /\ deliveredAny \in BOOLEAN
    /\ longUp \in BOOLEAN
    /\ current \in 1..MaxDelay
    /\ delay \in 0..MaxDelay
    /\ delivered \subseteq Sequence
    /\ first \in Sequence \cup {None}
    /\ misses \in 0..MaxMisses

(* "Reconnects resume losslessly from Last-Event-ID": between the start of *)
(* the stream and the cursor no readable event is missing, however often   *)
(* the connection is cut, refused or recycled in between.                  *)
ResumesLosslessly ==
    cursor # None =>
        \A e \in Sequence \ Unreadable :
            first <= e /\ e <= cursor => e \in delivered

(* A server that flaps is not hammered, and one that is healthy but idle   *)
(* does not walk the delay up: after n unhealthy connections in a row the  *)
(* delay is between 2^(n-1) and 2^n seconds, up to the cap, and after a    *)
(* healthy one it is the floor.                                            *)
BackoffPaced ==
    pc = "sleeping" =>
        /\ delay <= Smaller(PowerOfTwo[misses], MaxDelay)
        /\ 2 * delay >= Smaller(PowerOfTwo[misses], 2 * MaxDelay)

(* Every readable event published after the stream began reaches the       *)
(* callback, or run_stream returns: also when connections die again and    *)
(* again, and when one is wedged and would block the reader for ever.      *)
EventuallyDelivered ==
    \A e \in Sequence \ Unreadable :
        first # None /\ first <= e /\ e <= published
            ~> e \in delivered \/ pc = "returned"
=============================================================================
