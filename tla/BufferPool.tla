----------------------------- MODULE BufferPool -----------------------------
(***************************************************************************)
(* The read buffers all connections of a process share (readBufferPool,    *)
(* src/pkg/connection.go) and what Unpack keeps of them.  Most fields of a *)
(* packet are copied out of the buffer; the values of its options are      *)
(* slices of the buffer itself (ParseOptions, src/pkg/options.go), which   *)
(* the deferred Put gives away before the caller sees the packet.          *)
(*                                                                         *)
(* A packet is a number: the content of its body, of each copied field and *)
(* of each option.                                                         *)
(***************************************************************************)
EXTENDS Integers

CONSTANTS
  Conns,    \* goroutines that receive, one per connection
  Bufs,     \* bound: buffers ever allocated
  MaxPkts,  \* bound: packets received
  NoBuf     \* no buffer

ASSUME PoolAssumption == MaxPkts \in Nat /\ NoBuf \notin Bufs

VARIABLES
  pool,     \* buffers in readBufferPool
  fresh,    \* buffers not yet allocated
  content,  \* per buffer: the packet whose bytes it holds; 0 for no whole one
  bpc,      \* per connection: "idle", "fill", "unpack", "put", "handle"
  rb,       \* per connection: the buffer of the call in progress
  arrived,  \* per connection: the packet that came in last
  pkt,      \* per connection: the packet Unpack made of it
  count     \* packets received by all connections

vars == <<pool, fresh, content, bpc, rb, arrived, pkt, count>>

NoPkt == [copied |-> 0, options |-> NoBuf]

Init ==
  /\ pool = {} /\ fresh = Bufs
  /\ content = [b \in Bufs |-> 0]
  /\ bpc = [c \in Conns |-> "idle"]
  /\ rb = [c \in Conns |-> NoBuf]
  /\ arrived = [c \in Conns |-> 0]
  /\ pkt = [c \in Conns |-> NoPkt]
  /\ count = 0

Moves(c, from, to) == bpc[c] = from /\ bpc' = [bpc EXCEPT ![c] = to]

\* readBufferPool.Get: a pooled buffer, or a new one even if some are pooled.
Get(c) ==
  /\ Moves(c, "idle", "fill")
  /\ count < MaxPkts
  /\ \E b \in pool \cup fresh :
       /\ rb' = [rb EXCEPT ![c] = b]
       /\ pool' = pool \ {b}
       /\ fresh' = fresh \ {b}
  /\ UNCHANGED <<content, arrived, pkt, count>>

\* The buffer goes back as soon as the body is read.
Fill_faulty(c) ==
  /\ Moves(c, "fill", "unpack")
  /\ count' = count + 1
  /\ arrived' = [arrived EXCEPT ![c] = count + 1]
  /\ content' = [content EXCEPT ![rb[c]] = count + 1]
  /\ pool' = pool \cup {rb[c]}
  /\ UNCHANGED <<fresh, rb, pkt>>

\* io.ReadFull of a packet's body.
Fill(c) ==
  /\ Moves(c, "fill", "unpack")
  /\ count' = count + 1
  /\ arrived' = [arrived EXCEPT ![c] = count + 1]
  /\ content' = [content EXCEPT ![rb[c]] = count + 1]
  /\ UNCHANGED <<pool, fresh, rb, pkt>>

\* A timeout, EOF or a refused header: the deferred Put runs, no packet.  Part
\* of a body may have been read over what the buffer held.
Fail(c) ==
  /\ Moves(c, "fill", "put")
  /\ pkt' = [pkt EXCEPT ![c] = NoPkt]
  /\ \E held \in {content[rb[c]], 0} :
       content' = [content EXCEPT ![rb[c]] = held]
  /\ UNCHANGED <<pool, fresh, rb, arrived, count>>

\* p.Unpack(leftData)
Unpack(c) ==
  /\ Moves(c, "unpack", "put")
  /\ pkt' = [pkt EXCEPT ![c] = [copied |-> content[rb[c]],
                                options |-> rb[c]]]
  /\ UNCHANGED <<pool, fresh, content, rb, arrived, count>>

\* An id without a case in the switch, or an error of Unpack.
Refuse(c) ==
  /\ Moves(c, "unpack", "put")
  /\ pkt' = [pkt EXCEPT ![c] = NoPkt]
  /\ UNCHANGED <<pool, fresh, content, rb, arrived, count>>

\* The caller keeps its reference to the buffer.
Put_faulty(c) ==
  /\ Moves(c, "put", IF pkt[c] = NoPkt THEN "idle" ELSE "handle")
  /\ pool' = pool \cup {rb[c]}
  /\ UNCHANGED <<fresh, content, rb, arrived, pkt, count>>

\* The deferred Put, then the caller has the packet.
Put(c) ==
  /\ Moves(c, "put", IF pkt[c] = NoPkt THEN "idle" ELSE "handle")
  /\ pool' = pool \cup {rb[c]}
  /\ rb' = [rb EXCEPT ![c] = NoBuf]
  /\ UNCHANGED <<fresh, content, arrived, pkt, count>>

\* The handler is done with the packet.
Done(c) ==
  /\ Moves(c, "handle", "idle")
  /\ pkt' = [pkt EXCEPT ![c] = NoPkt]
  /\ UNCHANGED <<pool, fresh, content, rb, arrived, count>>

\* A garbage collection empties pools; buffers still referred to stay as
\* they are.
Collect(b) ==
  /\ b \in pool
  /\ pool' = pool \ {b}
  /\ UNCHANGED <<fresh, content, bpc, rb, arrived, pkt, count>>

\* No more packets, or no more buffers: the bounds of the model.
Spent ==
  /\ \A c \in Conns : bpc[c] = "idle"
  /\ count >= MaxPkts \/ pool \cup fresh = {}
  /\ UNCHANGED vars

ConnStep(c) == Get(c) \/ Fill(c) \/ Fail(c) \/ Unpack(c) \/ Refuse(c) \/ Put(c)
               \/ Done(c)

Next ==
  \/ \E c \in Conns : ConnStep(c)
  \/ \E b \in Bufs : Collect(b)
  \/ Spent

Spec == Init /\ [][Next]_vars

-----------------------------------------------------------------------------
\* Properties

TypeOK ==
  /\ pool \subseteq Bufs /\ fresh \subseteq Bufs /\ pool \cap fresh = {}
  /\ content \in [Bufs -> 0..count]
  /\ bpc \in [Conns -> {"idle", "fill", "unpack", "put", "handle"}]
  /\ rb \in [Conns -> Bufs \cup {NoBuf}]
  /\ \A c \in Conns : rb[c] = NoBuf <=> bpc[c] \in {"idle", "handle"}
  /\ arrived \in [Conns -> 0..count]
  /\ pkt \in [Conns -> [copied : 0..count, options : Bufs \cup {NoBuf}]]
  /\ count \in Nat

\* A buffer is in use by one call at a time, and is not in the pool while it
\* is (connection.go:142-146).
Exclusive ==
  \A c \in Conns : rb[c] # NoBuf =>
    /\ rb[c] \notin pool \cup fresh
    /\ \A d \in Conns \ {c} : rb[d] # rb[c]

\* While a handler works on a packet, its copied fields are those that came
\* in on its own connection, whatever the others receive meanwhile.
CopiesIntact ==
  \A c \in Conns : bpc[c] = "handle" => pkt[c].copied = arrived[c]

\* The same of the option values, "the content of the field" (the comment of
\* TLV.Value, types.go:74).  It does not hold: they are slices of a buffer
\* another connection may be filling (options.go:104, connection.go:144).
OptionsIntact ==
  \A c \in Conns : bpc[c] = "handle" => content[pkt[c].options] = arrived[c]
=============================================================================
