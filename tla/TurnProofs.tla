----------------------------- MODULE TurnProofs -----------------------------
(* Proofs about a turn (Turn): what its screen shows, for any number of        *)
(* subagents, chunks, calls, turns, questions and failures; and about the rate *)
(* limiter its model calls wait for (TokenBucket), for any callers and rates.  *)
EXTENDS Turn, TokenBucket, FiniteSetTheorems, SequenceTheorems, WellFoundedInduction, TLAPS

Ids == Nat \X Nat
Streams == [msg : Nat, parts : Nat, calls : SUBSET Ids]
DispFields == {"stream", "rendered", "shown", "headers", "active", "thinking", "due"}

\* A display: what streams in each namespace, what is drawn, the headers pending.
IsDisplay(d) ==
  /\ d = [f \in DispFields |-> d[f]]
  /\ d.stream \in [Spaces -> Streams]
  /\ d.rendered \subseteq Ids /\ d.headers \subseteq Ids
  /\ DOMAIN d.shown \subseteq Ids \X Nat

ChunkEvents == [kind : {"chunk"}, ns : Spaces, id : Nat \ {0}, part : Nat \ {0}, calls : SUBSET Ids]
ModelEvents == [kind : {"model"}, ns : Spaces, id : Nat \ {0}, parts : Nat, calls : SUBSET Ids]
ResultEvents == [kind : {"result"}, ns : Spaces, call : (Nat \ {0}) \X (Nat \ {0})]
Interrupts == [kind : {"interrupt"}, ns : Spaces]
Drawable == ChunkEvents \cup ModelEvents \cup ResultEvents
Events == Drawable \cup Interrupts

\* The messages on the screen.
Heads(d) == {x[1] : x \in DOMAIN d.shown}

\* Nothing is on a screen twice.
Once(s) == \A x, y \in DOMAIN s : x[1] = y[1] => x = y /\ s[x] = 1

-----------------------------------------------------------------------------
(* The display *)

\* The namespaces that stream, and those whose stream an event closes.
Open(d, N) == {n \in N : d.stream[n].msg # 0}
Closed(d, e) ==
  IF e.kind = "chunk" /\ d.stream[e.ns].msg = e.id THEN {} ELSE Open(d, {e.ns})
ClosedCalls(d, e) == UNION {d.stream[n].calls : n \in Closed(d, e)}

\* What an event has drawn of its own.
Own(d, e) ==
  CASE e.kind = "chunk" -> {}
    [] e.kind = "model" ->
         IF AI(e.id) \in d.rendered \cup {AI(d.stream[n].msg) : n \in Closed(d, e)} THEN {}
         ELSE {<<AI(e.id), e.parts>>}
    [] e.kind = "result" ->
         IF e.call \in d.rendered THEN {}
         ELSE {<<e.call, IF e.call \in d.headers \cup ClosedCalls(d, e) THEN 1 ELSE 0>>}
Drawings(d, e) == {Gathered(d, n) : n \in Closed(d, e)} \cup Own(d, e)

\* The fields of a display whose streams are finalized.
LEMMA FinalizeFields ==
  ASSUME NEW d, IsDisplay(d), NEW N, N \subseteq Spaces
  PROVE  /\ IsDisplay(Finalize(d, N))
         /\ Finalize(d, N).stream = [n \in Spaces |-> IF n \in Open(d, N) THEN Quiet ELSE d.stream[n]]
         /\ Finalize(d, N).rendered = d.rendered \cup {AI(d.stream[n].msg) : n \in Open(d, N)}
         /\ Finalize(d, N).headers = d.headers \cup UNION {d.stream[n].calls : n \in Open(d, N)}
         /\ Finalize(d, N).shown = d.shown (+) Drawn(d, Open(d, N))
         /\ DOMAIN Finalize(d, N).shown = DOMAIN d.shown \cup {Gathered(d, n) : n \in Open(d, N)}
<1> DEFINE f == Finalize(d, N)
           g == [d EXCEPT !.stream = [n \in Spaces |-> IF n \in Open(d, N) THEN Quiet ELSE d.stream[n]],
               !.rendered = @ \cup {AI(d.stream[n].msg) : n \in Open(d, N)},
               !.shown = @ (+) Drawn(d, Open(d, N)),
               !.headers = @ \cup UNION {d.stream[n].calls : n \in Open(d, N)},
               !.thinking = @ \ Open(d, N),
               !.due = @ \/ \E n \in Open(d, N) : d.stream[n].msg \in Costly]
<1>1. f = g
  BY DEF Finalize, Open
<1>2. /\ g = [x \in DispFields |-> g[x]]
      /\ g.stream = [n \in Spaces |-> IF n \in Open(d, N) THEN Quiet ELSE d.stream[n]]
      /\ g.rendered = d.rendered \cup {AI(d.stream[n].msg) : n \in Open(d, N)}
      /\ g.headers = d.headers \cup UNION {d.stream[n].calls : n \in Open(d, N)}
      /\ g.shown = d.shown (+) Drawn(d, Open(d, N))
  BY DEF IsDisplay, DispFields
<1> HIDE DEF f, g
<1>3. DOMAIN g.shown = DOMAIN d.shown \cup {Gathered(d, n) : n \in Open(d, N)}
  BY <1>2 DEF (+), Drawn
<1>4. Open(d, N) \subseteq Spaces /\ \A n \in Spaces : d.stream[n] \in Streams
  BY DEF IsDisplay, Open
<1>5. g.stream \in [Spaces -> Streams]
  BY <1>2, <1>4 DEF Quiet, Streams
<1>6. g.rendered \subseteq Ids /\ g.headers \subseteq Ids
  <2>1. \A n \in Open(d, N) : d.stream[n].msg \in Nat /\ d.stream[n].calls \subseteq Ids
    BY <1>4 DEF Streams
  <2>2. UNION {d.stream[n].calls : n \in Open(d, N)} \subseteq Ids
    BY <2>1
  <2>3. {AI(d.stream[n].msg) : n \in Open(d, N)} \subseteq Ids
    BY <2>1 DEF AI, Ids
  <2> QED
    BY <1>2, <2>2, <2>3 DEF IsDisplay
<1>7. DOMAIN g.shown \subseteq Ids \X Nat
  BY <1>3, <1>4 DEF IsDisplay, Streams, Ids, AI, Gathered
<1>8. IsDisplay(g)
  BY <1>2, <1>5, <1>6, <1>7 DEF IsDisplay
<1> QED
  BY <1>1, <1>2, <1>3, <1>8 DEF f

\* Streams of different messages, none of them on the screen, are drawn once.
LEMMA FinalizeOnce ==
  ASSUME NEW d, IsDisplay(d), NEW N, N \subseteq Spaces, Once(d.shown),
         \A n \in Open(d, N) : AI(d.stream[n].msg) \notin Heads(d),
         \A m, n \in Open(d, N) : d.stream[m].msg = d.stream[n].msg => m = n
  PROVE  Once(Finalize(d, N).shown)
<1>0. Finalize(d, N).shown = d.shown (+) Drawn(d, Open(d, N))
  BY FinalizeFields
<1> DEFINE s == d.shown
           t == Drawn(d, Open(d, N))
           u == Finalize(d, N).shown
<1>1. u = s (+) t
  BY <1>0
<1>2. DOMAIN t = {Gathered(d, n) : n \in Open(d, N)}
  BY DEF Drawn
<1>3. \A x \in DOMAIN t : t[x] = 1
  <2> TAKE x \in DOMAIN t
  <2>1. PICK n \in Open(d, N) : x = Gathered(d, n)
    BY <1>2
  <2>2. \A m \in Open(d, N) : Gathered(d, m) = x => m = n
    BY <2>1 DEF Gathered, AI
  <2>3. {m \in Open(d, N) : Gathered(d, m) = x} = {n}
    BY <2>1, <2>2
  <2>4. t[x] = Cardinality({m \in Open(d, N) : Gathered(d, m) = x})
    BY Zenon DEF Drawn
  <2>5. Cardinality({n}) = 1
    BY FS_Singleton
  <2> HIDE DEF t
  <2> QED
    BY <2>3, <2>4, <2>5, Zenon
<1>4. \A x \in DOMAIN t : x[1] \notin Heads(d)
  BY <1>2 DEF Gathered
<1>5. \A x, y \in DOMAIN t : x[1] = y[1] => x = y
  BY <1>2 DEF Gathered, AI
<1> HIDE DEF s, t, u
<1>6. DOMAIN u = DOMAIN s \cup DOMAIN t
  BY <1>1 DEF (+)
<1>7. DOMAIN s \cap DOMAIN t = {}
  BY <1>4 DEF Heads, s
<1>8. \A x \in DOMAIN s : s[x] = 1
  BY DEF Once, s
<1>9. \A x \in DOMAIN u : u[x] = 1
  BY <1>1, <1>3, <1>6, <1>7, <1>8 DEF (+)
<1>10. \A x, y \in DOMAIN u : x[1] = y[1] => x = y
  <2> SUFFICES ASSUME NEW x \in DOMAIN u, NEW y \in DOMAIN u, x[1] = y[1]
               PROVE  x = y
    OBVIOUS
  <2>1. CASE x \in DOMAIN s /\ y \in DOMAIN s
    BY <2>1 DEF Once, s
  <2>2. CASE x \in DOMAIN t /\ y \in DOMAIN t
    BY <2>2, <1>5
  <2>3. CASE x \in DOMAIN s /\ y \in DOMAIN t
    BY <2>3, <1>4 DEF Heads, s
  <2>4. CASE x \in DOMAIN t /\ y \in DOMAIN s
    BY <2>4, <1>4 DEF Heads, s
  <2> QED
    BY <2>1, <2>2, <2>3, <2>4, <1>6
<1> QED
  BY <1>9, <1>10 DEF Once, u

\* One message more, which is not on the screen.
LEMMA AddOnce ==
  ASSUME NEW s, Once(s), NEW x, \A y \in DOMAIN s : y[1] # x[1]
  PROVE  Once(s (+) SetToBag({x})) /\ DOMAIN (s (+) SetToBag({x})) = DOMAIN s \cup {x}
<1>1. x \notin DOMAIN s
  OBVIOUS
<1>2. DOMAIN (s (+) SetToBag({x})) = DOMAIN s \cup {x}
  BY DEF (+), SetToBag
<1>3. \A y \in DOMAIN (s (+) SetToBag({x})) : (s (+) SetToBag({x}))[y] = 1
  BY <1>1 DEF (+), SetToBag, Once
<1> QED
  BY <1>2, <1>3 DEF Once

\* What an event leaves in its stream, and of the headers.
NewStream(d, e) ==
  IF e.kind = "chunk"
  THEN IF d.stream[e.ns].msg = e.id
       THEN [msg |-> e.id, parts |-> d.stream[e.ns].parts + 1,
             calls |-> d.stream[e.ns].calls \cup e.calls]
       ELSE [msg |-> e.id, parts |-> 1, calls |-> e.calls]
  ELSE IF Closed(d, e) = {} THEN d.stream[e.ns] ELSE Quiet
NewHeaders(d, e) ==
  (d.headers \cup ClosedCalls(d, e)
     \cup (IF e.kind = "model" /\ Own(d, e) # {} THEN e.calls ELSE {}))
    \ (IF e.kind = "result" /\ Own(d, e) # {} THEN {e.call} ELSE {})

\* All that matters of display f, which the event e makes of display d.
Effect(d, e, f) ==
  /\ IsDisplay(f)
  /\ f.stream = [d.stream EXCEPT ![e.ns] = NewStream(d, e)]
  /\ DOMAIN f.shown = DOMAIN d.shown \cup Drawings(d, e)
  /\ f.rendered = d.rendered \cup {x[1] : x \in Drawings(d, e)}
  /\ f.headers = NewHeaders(d, e)
  /\ Once(d.shown) /\ (\A x \in Drawings(d, e) : x[1] \notin Heads(d)) => Once(f.shown)

\* The shape of an event that is drawn.
LEMMA EventShape ==
  ASSUME NEW e \in Drawable
  PROVE  /\ e.ns \in Spaces /\ e.kind \in {"chunk", "model", "result"}
         /\ e.kind = "chunk" => e.id \in Nat \ {0} /\ e.part \in Nat \ {0} /\ e.calls \subseteq Ids
         /\ e.kind = "model" => e.id \in Nat \ {0} /\ e.parts \in Nat /\ e.calls \subseteq Ids
         /\ e.kind = "result" => e.call \in (Nat \ {0}) \X (Nat \ {0})
BY DEF Drawable, ChunkEvents, ModelEvents, ResultEvents

\* The live activity is no part of what is drawn.
Alike(d, f) ==
  f.stream = d.stream /\ f.rendered = d.rendered /\ f.headers = d.headers /\ f.shown = d.shown
LEMMA ActivityAlike ==
  ASSUME NEW d, IsDisplay(d), NEW n, NEW cs
  PROVE  /\ IsDisplay(SetActivity(d, n, cs)) /\ Alike(d, SetActivity(d, n, cs))
         /\ IsDisplay(SetThinking(d, n)) /\ Alike(d, SetThinking(d, n))
         /\ \A id : IsDisplay(Usage(d, id)) /\ Alike(d, Usage(d, id))
<1> DEFINE a == SetActivity(d, n, cs)
           b == SetThinking(d, n)
<1>1. a = [f \in DispFields |-> a[f]] /\ Alike(d, a)
  BY DEF SetActivity, Alike, IsDisplay, DispFields
<1>2. b = [f \in DispFields |-> b[f]] /\ Alike(d, b)
  BY DEF SetThinking, Alike, IsDisplay, DispFields
<1>3. ASSUME NEW id
      PROVE  IsDisplay(Usage(d, id)) /\ Alike(d, Usage(d, id))
  <2> DEFINE u == Usage(d, id)
  <2>1. u = [f \in DispFields |-> u[f]] /\ Alike(d, u)
    BY DEF Usage, Alike, IsDisplay, DispFields
  <2> HIDE DEF u
  <2>2. IsDisplay(u)
    BY <2>1 DEF IsDisplay, Alike
  <2> QED
    BY <2>1, <2>2 DEF u
<1> HIDE DEF a, b
<1>4. IsDisplay(a) /\ IsDisplay(b)
  BY <1>1, <1>2 DEF IsDisplay, Alike
<1> QED
  BY <1>1, <1>2, <1>3, <1>4 DEF a, b

\* A display with its own namespace's stream closed.
LEMMA FinalizeOwn ==
  ASSUME NEW d, IsDisplay(d), NEW n \in Spaces
  PROVE  /\ IsDisplay(Finalize(d, {n}))
         /\ Finalize(d, {n}).stream =
              [d.stream EXCEPT ![n] = IF Open(d, {n}) = {} THEN d.stream[n] ELSE Quiet]
         /\ Finalize(d, {n}).rendered = d.rendered \cup {AI(d.stream[m].msg) : m \in Open(d, {n})}
         /\ Finalize(d, {n}).headers = d.headers \cup UNION {d.stream[m].calls : m \in Open(d, {n})}
         /\ DOMAIN Finalize(d, {n}).shown = DOMAIN d.shown \cup {Gathered(d, m) : m \in Open(d, {n})}
         /\ Once(d.shown) /\ (\A m \in Open(d, {n}) : AI(d.stream[m].msg) \notin Heads(d))
              => Once(Finalize(d, {n}).shown)
<1> DEFINE N == {n}
<1>2. N \subseteq Spaces
  OBVIOUS
<1> HIDE DEF N
<1>3. /\ IsDisplay(Finalize(d, N))
      /\ Finalize(d, N).stream = [k \in Spaces |-> IF k \in Open(d, N) THEN Quiet ELSE d.stream[k]]
      /\ Finalize(d, N).rendered = d.rendered \cup {AI(d.stream[k].msg) : k \in Open(d, N)}
      /\ Finalize(d, N).headers = d.headers \cup UNION {d.stream[k].calls : k \in Open(d, N)}
      /\ DOMAIN Finalize(d, N).shown = DOMAIN d.shown \cup {Gathered(d, k) : k \in Open(d, N)}
  BY <1>2, FinalizeFields
<1> USE DEF N
<1>4. Finalize(d, {n}).stream =
        [d.stream EXCEPT ![n] = IF Open(d, {n}) = {} THEN d.stream[n] ELSE Quiet]
  <2>1. DOMAIN d.stream = Spaces /\ d.stream = [m \in Spaces |-> d.stream[m]]
    BY DEF IsDisplay
  <2>2. Open(d, {n}) = IF d.stream[n].msg # 0 THEN {n} ELSE {}
    BY DEF Open
  <2> QED
    BY <1>3, <2>1, <2>2
<1>5. ASSUME Once(d.shown), \A m \in Open(d, {n}) : AI(d.stream[m].msg) \notin Heads(d)
      PROVE  Once(Finalize(d, {n}).shown)
  <2>1. \A m, k \in Open(d, {n}) : m = k
    BY DEF Open
  <2> QED
    BY <1>2, <1>5, <2>1, FinalizeOnce
<1> QED
  BY <1>3, <1>4, <1>5

\* A chunk.
LEMMA ChunkEffect ==
  ASSUME NEW d, IsDisplay(d), NEW e \in ChunkEvents
  PROVE  Effect(d, e, ProcessChunk(d, e))
<1> DEFINE n == e.ns
           o == Opened(d, e)
           s == o.stream[n]
           r == [msg |-> s.msg, parts |-> s.parts + 1, calls |-> s.calls \cup e.calls]
           f == [o EXCEPT !.stream[n] = r]
           p == ProcessChunk(d, e)
<1>0. p = IF e.calls # {} THEN SetActivity(f, e.ns, e.calls) ELSE SetThinking(f, e.ns)
  BY DEF ProcessChunk
<1>1. n \in Spaces /\ e.kind = "chunk" /\ e.id \in Nat \ {0} /\ e.calls \subseteq Ids
  BY DEF ChunkEvents
<1>2. d.stream[n] \in Streams /\ DOMAIN d.stream = Spaces /\ d.stream \in [Spaces -> Streams]
  BY <1>1 DEF IsDisplay
<1>3. Own(d, e) = {} /\ Drawings(d, e) = {Gathered(d, m) : m \in Closed(d, e)}
  BY <1>1 DEF Own, Drawings
<1> DEFINE c == Closed(d, e)
<1>31. {x[1] : x \in Drawings(d, e)} = {AI(d.stream[m].msg) : m \in c}
  <2>1. ASSUME NEW y \in {x[1] : x \in Drawings(d, e)}
        PROVE  y \in {AI(d.stream[m].msg) : m \in c}
    BY <1>3 DEF Gathered
  <2>2. ASSUME NEW m \in c
        PROVE  AI(d.stream[m].msg) \in {x[1] : x \in Drawings(d, e)}
    <3>1. Gathered(d, m) \in Drawings(d, e) /\ Gathered(d, m)[1] = AI(d.stream[m].msg)
      BY <1>3 DEF Gathered
    <3> QED
      BY <3>1
  <2> QED
    BY <2>1, <2>2
<1>32. ClosedCalls(d, e) = UNION {d.stream[m].calls : m \in c}
  BY DEF ClosedCalls
<1> HIDE DEF c
<1>4. /\ IsDisplay(o)
      /\ o.stream = [d.stream EXCEPT ![n] = IF d.stream[n].msg = e.id THEN d.stream[n]
                                           ELSE [msg |-> e.id, parts |-> 0, calls |-> {}]]
      /\ o.rendered = d.rendered \cup {AI(d.stream[m].msg) : m \in c}
      /\ o.headers = d.headers \cup ClosedCalls(d, e)
      /\ DOMAIN o.shown = DOMAIN d.shown \cup Drawings(d, e)
      /\ Once(d.shown) /\ (\A x \in Drawings(d, e) : x[1] \notin Heads(d)) => Once(o.shown)
  <2>1. CASE d.stream[n].msg = e.id
    <3>1. o = d
      BY <2>1 DEF Opened
    <3>2. c = {}
      BY <2>1, <1>1 DEF Closed, c
    <3>3. Drawings(d, e) = {} /\ ClosedCalls(d, e) = {} /\ {AI(d.stream[m].msg) : m \in c} = {}
      BY <3>2, <1>3, <1>32 DEF c
    <3>4. d.stream = [d.stream EXCEPT ![n] = d.stream[n]]
      BY <1>2
    <3> HIDE DEF o
    <3> QED
      BY <3>1, <3>3, <3>4, <2>1
  <2>2. CASE d.stream[n].msg # e.id
    <3> DEFINE z == Finalize(d, {n})
               q == [Quiet EXCEPT !.msg = e.id]
    <3>1. o = [z EXCEPT !.stream[n] = q]
      BY <2>2 DEF Opened
    <3>2. c = Open(d, {n})
      BY <2>2, <1>1 DEF Closed, c
    <3>3. /\ IsDisplay(z)
          /\ z.stream = [d.stream EXCEPT ![n] = IF Open(d, {n}) = {} THEN d.stream[n] ELSE Quiet]
          /\ z.rendered = d.rendered \cup {AI(d.stream[m].msg) : m \in Open(d, {n})}
          /\ z.headers = d.headers \cup UNION {d.stream[m].calls : m \in Open(d, {n})}
          /\ DOMAIN z.shown = DOMAIN d.shown \cup {Gathered(d, m) : m \in Open(d, {n})}
          /\ Once(d.shown) /\ (\A m \in Open(d, {n}) : AI(d.stream[m].msg) \notin Heads(d)) => Once(z.shown)
      <4> HIDE DEF n
      <4> QED
        BY <1>1, FinalizeOwn
    <3>4. q = [msg |-> e.id, parts |-> 0, calls |-> {}]
      BY DEF Quiet
    <3> HIDE DEF z, q
    <3>5. /\ o = [x \in DispFields |-> o[x]]
          /\ o.stream = [z.stream EXCEPT ![n] = q]
          /\ o.rendered = z.rendered /\ o.headers = z.headers /\ o.shown = z.shown
      BY <3>1, <3>3 DEF IsDisplay, DispFields
    <3>6. o.stream = [d.stream EXCEPT ![n] = [msg |-> e.id, parts |-> 0, calls |-> {}]]
      BY <3>3, <3>4, <3>5, <1>1, <1>2
    <3> HIDE DEF o
    <3>7. IsDisplay(o)
      <4>1. q \in Streams
        BY <3>4, <1>1 DEF Streams
      <4>2. o.stream \in [Spaces -> Streams]
        BY <3>5, <3>3, <4>1 DEF IsDisplay
      <4> QED
        BY <3>5, <3>3, <4>2 DEF IsDisplay
    <3>9. o.rendered = d.rendered \cup {AI(d.stream[m].msg) : m \in c}
      BY <3>3, <3>5, <3>2
    <3>10. DOMAIN o.shown = DOMAIN d.shown \cup Drawings(d, e)
      <4>1. Drawings(d, e) = {Gathered(d, m) : m \in Open(d, {n})}
        BY <1>3, <3>2 DEF c
      <4> QED
        BY <4>1, <3>3, <3>5
    <3>12. o.headers = d.headers \cup ClosedCalls(d, e)
      BY <1>32, <3>3, <3>5, <3>2
    <3>11. ASSUME Once(d.shown), \A x \in Drawings(d, e) : x[1] \notin Heads(d)
           PROVE  Once(o.shown)
      <4>1. \A m \in c : AI(d.stream[m].msg) \notin Heads(d)
        BY <1>31, <3>11
      <4> QED
        BY <4>1, <3>11, <3>3, <3>5, <3>2
    <3> QED
      BY <2>2, <3>6, <3>7, <3>9, <3>10, <3>11, <3>12
  <2> QED
    BY <2>1, <2>2
<1> HIDE DEF o, r
<1>5. /\ f = [x \in DispFields |-> f[x]]
      /\ f.rendered = o.rendered /\ f.headers = o.headers /\ f.shown = o.shown
      /\ f.stream = [o.stream EXCEPT ![n] = r]
  BY <1>4 DEF IsDisplay, DispFields
<1>7. r = NewStream(d, e)
  <2>1. o.stream[n] = IF d.stream[n].msg = e.id THEN d.stream[n]
                      ELSE [msg |-> e.id, parts |-> 0, calls |-> {}]
    BY <1>4, <1>1, <1>2
  <2>2. CASE d.stream[n].msg = e.id
    BY <2>1, <2>2, <1>1 DEF NewStream, r
  <2>3. CASE d.stream[n].msg # e.id
    <3>1. s.msg = e.id /\ s.parts = 0 /\ s.calls = {}
      BY <2>1, <2>3
    <3>2. r = [msg |-> e.id, parts |-> 1, calls |-> e.calls]
      BY <3>1 DEF r
    <3> QED
      BY <3>2, <2>3, <1>1 DEF NewStream
  <2> QED
    BY <2>2, <2>3
<1> HIDE DEF f, s
<1>8. f.stream = [d.stream EXCEPT ![n] = NewStream(d, e)]
  BY <1>4, <1>5, <1>7, <1>1, <1>2
<1>9. NewStream(d, e) \in Streams
  BY <1>1, <1>2 DEF NewStream, Streams
<1>10. IsDisplay(f)
  <2>1. f.stream \in [Spaces -> Streams]
    BY <1>8, <1>9, <1>2 DEF IsDisplay
  <2> QED
    BY <2>1, <1>4, <1>5 DEF IsDisplay
<1> HIDE DEF p
<1>11. IsDisplay(p) /\ Alike(f, p)
  BY <1>0, <1>10, ActivityAlike
<1>12. NewHeaders(d, e) = d.headers \cup ClosedCalls(d, e)
  BY <1>1 DEF NewHeaders
<1>13. Effect(d, e, p)
  BY <1>4, <1>5, <1>8, <1>11, <1>12, <1>31 DEF Effect, Alike
<1> QED
  BY <1>13 DEF p

\* A display with one drawing more.
Adds(d, f, x, headers) ==
  /\ IsDisplay(f) /\ f.stream = d.stream
  /\ f.rendered = d.rendered \cup {x[1]}
  /\ f.headers = headers
  /\ f.shown = d.shown (+) SetToBag({x})
  /\ DOMAIN f.shown = DOMAIN d.shown \cup {x}

\* What an assistant message and a result do to a display.
LEMMA ShowAssistantFields ==
  ASSUME NEW d, IsDisplay(d), NEW id \in Nat, NEW parts \in Nat, NEW cs, cs \subseteq Ids
  PROVE  Adds(d, ShowAssistant([d EXCEPT !.rendered = @ \cup {AI(id)}], id, parts, cs),
              <<AI(id), parts>>, d.headers \cup cs)
<1> DEFINE g == [d EXCEPT !.rendered = @ \cup {AI(id)}]
           f == ShowAssistant(g, id, parts, cs)
<1>1. /\ g = [x \in DispFields |-> g[x]]
      /\ g.stream = d.stream /\ g.rendered = d.rendered \cup {AI(id)}
      /\ g.headers = d.headers /\ g.shown = d.shown
  BY DEF IsDisplay, DispFields
<1> HIDE DEF g
<1>2. /\ f = [x \in DispFields |-> f[x]]
      /\ f.stream = g.stream /\ f.rendered = g.rendered
      /\ f.headers = g.headers \cup cs
      /\ f.shown = g.shown (+) SetToBag({<<AI(id), parts>>})
  BY <1>1 DEF ShowAssistant, DispFields
<1> HIDE DEF f
<1>3. DOMAIN f.shown = DOMAIN d.shown \cup {<<AI(id), parts>>}
  BY <1>1, <1>2 DEF (+), SetToBag
<1>4. AI(id) \in Ids /\ <<AI(id), parts>> \in Ids \X Nat
  BY DEF AI, Ids
<1>5. IsDisplay(f)
  <2>1. f.stream \in [Spaces -> Streams]
    BY <1>1, <1>2 DEF IsDisplay
  <2>2. f.rendered \subseteq Ids /\ f.headers \subseteq Ids
    BY <1>1, <1>2, <1>4 DEF IsDisplay
  <2>3. DOMAIN f.shown \subseteq Ids \X Nat
    BY <1>3, <1>4 DEF IsDisplay
  <2> QED
    BY <1>2, <2>1, <2>2, <2>3 DEF IsDisplay
<1> QED
  BY <1>1, <1>2, <1>3, <1>5 DEF f, g, Adds

LEMMA ShowResultFields ==
  ASSUME NEW d, IsDisplay(d), NEW c \in Ids,
         NEW k, k = IF c \in d.headers THEN 1 ELSE 0
  PROVE  Adds(d, ShowResult([d EXCEPT !.rendered = @ \cup {Result(c)}], c), <<c, k>>, d.headers \ {c})
<1> DEFINE g == [d EXCEPT !.rendered = @ \cup {Result(c)}]
           f == ShowResult(g, c)
<1>1. /\ g = [x \in DispFields |-> g[x]]
      /\ g.stream = d.stream /\ g.rendered = d.rendered \cup {c}
      /\ g.headers = d.headers /\ g.shown = d.shown
  BY DEF IsDisplay, DispFields, Result
<1> HIDE DEF g
<1>2. /\ f = [x \in DispFields |-> f[x]]
      /\ f.stream = g.stream /\ f.rendered = g.rendered
      /\ f.headers = g.headers \ {c}
      /\ f.shown = g.shown (+) SetToBag({<<c, k>>})
  <2>1. <<Result(c), IF c \in g.headers THEN 1 ELSE 0>> = <<c, k>>
    BY <1>1 DEF Result
  <2> DEFINE x == <<Result(c), IF c \in g.headers THEN 1 ELSE 0>>
  <2>2. f = [g EXCEPT !.shown = @ (+) SetToBag({x}), !.headers = @ \ {c}]
    BY DEF ShowResult
  <2> HIDE DEF f, x
  <2>3. /\ f = [y \in DispFields |-> f[y]]
        /\ f.stream = g.stream /\ f.rendered = g.rendered
        /\ f.headers = g.headers \ {c}
        /\ f.shown = g.shown (+) SetToBag({x})
    BY <1>1, <2>2 DEF DispFields
  <2> QED
    BY <2>1, <2>3 DEF x
<1> HIDE DEF f
<1>3. DOMAIN f.shown = DOMAIN d.shown \cup {<<c, k>>}
  BY <1>1, <1>2 DEF (+), SetToBag
<1>4. <<c, k>> \in Ids \X Nat
  OBVIOUS
<1>5. IsDisplay(f)
  <2>1. f.stream \in [Spaces -> Streams]
    BY <1>1, <1>2 DEF IsDisplay
  <2>2. f.rendered \subseteq Ids /\ f.headers \subseteq Ids
    BY <1>1, <1>2 DEF IsDisplay
  <2>3. DOMAIN f.shown \subseteq Ids \X Nat
    BY <1>3, <1>4 DEF IsDisplay
  <2> QED
    BY <1>2, <2>1, <2>2, <2>3 DEF IsDisplay
<1> QED
  BY <1>1, <1>2, <1>3, <1>5 DEF f, g, Adds

\* What an event has drawn, as a display whose stream it closed and one message more.
ClosedBy(d, e, z) ==
  /\ IsDisplay(z)
  /\ z.stream = [d.stream EXCEPT ![e.ns] = NewStream(d, e)]
  /\ z.rendered = d.rendered \cup {AI(d.stream[n].msg) : n \in Closed(d, e)}
  /\ z.rendered = d.rendered \cup {x[1] : x \in {Gathered(d, n) : n \in Closed(d, e)}}
  /\ z.headers = d.headers \cup ClosedCalls(d, e)
  /\ DOMAIN z.shown = DOMAIN d.shown \cup {Gathered(d, n) : n \in Closed(d, e)}
  /\ Once(d.shown) /\ (\A n \in Closed(d, e) : AI(d.stream[n].msg) \notin Heads(d))
       => Once(z.shown)
LEMMA ClosedFirst ==
  ASSUME NEW d, IsDisplay(d), NEW e \in Drawable, e.kind # "chunk"
  PROVE  ClosedBy(d, e, Finalize(d, {e.ns}))
<1> DEFINE n == e.ns
           c == Closed(d, e)
           z == Finalize(d, {n})
<1>1. n \in Spaces
  BY EventShape
<1>2. c = Open(d, {n})
  BY DEF Closed
<1>3. /\ IsDisplay(z)
      /\ z.stream = [d.stream EXCEPT ![n] = IF Open(d, {n}) = {} THEN d.stream[n] ELSE Quiet]
      /\ z.rendered = d.rendered \cup {AI(d.stream[m].msg) : m \in Open(d, {n})}
      /\ z.headers = d.headers \cup UNION {d.stream[m].calls : m \in Open(d, {n})}
      /\ DOMAIN z.shown = DOMAIN d.shown \cup {Gathered(d, m) : m \in Open(d, {n})}
      /\ Once(d.shown) /\ (\A m \in Open(d, {n}) : AI(d.stream[m].msg) \notin Heads(d)) => Once(z.shown)
  <2> HIDE DEF n
  <2> QED
    BY <1>1, FinalizeOwn
<1> HIDE DEF z
<1>4. NewStream(d, e) = IF c = {} THEN d.stream[n] ELSE Quiet
  BY DEF NewStream
<1>5. ClosedCalls(d, e) = UNION {d.stream[m].calls : m \in c}
  BY DEF ClosedCalls
<1>6. {x[1] : x \in {Gathered(d, m) : m \in c}} = {AI(d.stream[m].msg) : m \in c}
  <2> HIDE DEF c
  <2>1. ASSUME NEW y \in {x[1] : x \in {Gathered(d, m) : m \in c}}
        PROVE  y \in {AI(d.stream[m].msg) : m \in c}
    BY DEF Gathered
  <2>2. ASSUME NEW m \in c
        PROVE  AI(d.stream[m].msg) \in {x[1] : x \in {Gathered(d, k) : k \in c}}
    <3>1. Gathered(d, m) \in {Gathered(d, k) : k \in c} /\ Gathered(d, m)[1] = AI(d.stream[m].msg)
      BY DEF Gathered
    <3> QED
      BY <3>1
  <2> QED
    BY <2>1, <2>2
<1> HIDE DEF c
<1>7. /\ z.stream = [d.stream EXCEPT ![n] = NewStream(d, e)]
      /\ z.rendered = d.rendered \cup {AI(d.stream[m].msg) : m \in c}
      /\ z.headers = d.headers \cup ClosedCalls(d, e)
      /\ DOMAIN z.shown = DOMAIN d.shown \cup {Gathered(d, m) : m \in c}
      /\ Once(d.shown) /\ (\A m \in c : AI(d.stream[m].msg) \notin Heads(d)) => Once(z.shown)
  BY <1>2, <1>3, <1>4, <1>5
<1> QED
  BY <1>3, <1>6, <1>7 DEF c, z, ClosedBy

LEMMA ModelEffect ==
  ASSUME NEW d, IsDisplay(d), NEW e \in ModelEvents
  PROVE  Effect(d, e, ProcessModel(Finalize(d, {e.ns}), e))
<1> DEFINE z == Finalize(d, {e.ns})
           f == IF e.calls = {} THEN Usage(z, e.id) ELSE SetActivity(Usage(z, e.id), e.ns, e.calls)
           p == ProcessModel(z, e)
           G == {Gathered(d, n) : n \in Closed(d, e)}
<1>1. e \in Drawable /\ e.kind = "model" /\ e.id \in Nat \ {0} /\ e.parts \in Nat /\ e.calls \subseteq Ids
  BY DEF Drawable, ModelEvents
<1>2. /\ IsDisplay(z)
      /\ z.stream = [d.stream EXCEPT ![e.ns] = NewStream(d, e)]
      /\ z.rendered = d.rendered \cup {AI(d.stream[n].msg) : n \in Closed(d, e)}
      /\ z.rendered = d.rendered \cup {x[1] : x \in G}
      /\ z.headers = d.headers \cup ClosedCalls(d, e)
      /\ DOMAIN z.shown = DOMAIN d.shown \cup G
      /\ Once(d.shown) /\ (\A n \in Closed(d, e) : AI(d.stream[n].msg) \notin Heads(d)) => Once(z.shown)
  <2>1. ClosedBy(d, e, z)
    BY <1>1, ClosedFirst
  <2> HIDE DEF z
  <2> QED
    BY <2>1 DEF ClosedBy
<1>3. p = IF AI(e.id) \in f.rendered THEN f
          ELSE ShowAssistant([f EXCEPT !.rendered = @ \cup {AI(e.id)}], e.id, e.parts, e.calls)
  BY DEF ProcessModel
<1> HIDE DEF z, p
<1>4. IsDisplay(f) /\ Alike(z, f)
  <2> DEFINE u == Usage(z, e.id)
  <2>1. IsDisplay(u) /\ Alike(z, u)
    BY <1>2, ActivityAlike
  <2>2. CASE e.calls = {}
    BY <2>1, <2>2
  <2>3. CASE e.calls # {}
    <3> HIDE DEF u
    <3>1. IsDisplay(SetActivity(u, e.ns, e.calls)) /\ Alike(u, SetActivity(u, e.ns, e.calls))
      BY <2>1, ActivityAlike
    <3>2. f = SetActivity(u, e.ns, e.calls)
      BY <2>3 DEF u
    <3> QED
      BY <2>1, <3>1, <3>2 DEF Alike
  <2> QED
    BY <2>2, <2>3
<1> HIDE DEF f
<1>5. f.rendered = z.rendered /\ f.stream = z.stream /\ f.headers = z.headers /\ f.shown = z.shown
  BY <1>4 DEF Alike
<1>6. Once(d.shown) /\ (\A x \in G : x[1] \notin Heads(d)) => Once(f.shown)
  <2>1. \A n \in Closed(d, e) : Gathered(d, n) \in G /\ Gathered(d, n)[1] = AI(d.stream[n].msg)
    BY DEF Gathered
  <2> QED
    BY <2>1, <1>2, <1>5
<1>7. Own(d, e) = IF AI(e.id) \in f.rendered THEN {} ELSE {<<AI(e.id), e.parts>>}
  BY <1>1, <1>2, <1>5 DEF Own
<1>8. Drawings(d, e) = G \cup Own(d, e)
  BY DEF Drawings
<1> HIDE DEF G
<1>9. CASE AI(e.id) \in f.rendered
  <2>1. p = f /\ Own(d, e) = {} /\ Drawings(d, e) = G
    BY <1>9, <1>3, <1>7, <1>8
  <2>2. NewHeaders(d, e) = d.headers \cup ClosedCalls(d, e)
    BY <2>1, <1>1 DEF NewHeaders
  <2>3. Effect(d, e, p)
    BY <2>1, <2>2, <1>2, <1>4, <1>5, <1>6 DEF Effect
  <2> QED
    BY <2>3 DEF p, z
<1>10. CASE AI(e.id) \notin f.rendered
  <2> DEFINE x == <<AI(e.id), e.parts>>
  <2>1. p = ShowAssistant([f EXCEPT !.rendered = @ \cup {AI(e.id)}], e.id, e.parts, e.calls)
    BY <1>3, <1>10
  <2>2. /\ IsDisplay(p) /\ p.stream = f.stream
        /\ p.rendered = f.rendered \cup {AI(e.id)}
        /\ p.headers = f.headers \cup e.calls
        /\ p.shown = f.shown (+) SetToBag({x})
        /\ DOMAIN p.shown = DOMAIN f.shown \cup {x}
    <3>1. Adds(f, p, x, f.headers \cup e.calls)
      BY <2>1, <1>1, <1>4, ShowAssistantFields
    <3>2. x[1] = AI(e.id)
      OBVIOUS
    <3> HIDE DEF x
    <3> QED
      BY <3>1, <3>2 DEF Adds
  <2>3. Own(d, e) = {x} /\ x[1] = AI(e.id)
    BY <1>7, <1>10
  <2> HIDE DEF x
  <2>4. Drawings(d, e) = G \cup {x}
    BY <1>8, <2>3
  <2>5. {y[1] : y \in Drawings(d, e)} = {y[1] : y \in G} \cup {AI(e.id)}
    BY <2>3, <2>4
  <2>6. NewHeaders(d, e) = d.headers \cup ClosedCalls(d, e) \cup e.calls
    BY <2>3, <1>1 DEF NewHeaders
  <2>7. ASSUME Once(d.shown), \A y \in Drawings(d, e) : y[1] \notin Heads(d)
        PROVE  Once(p.shown)
    <3>1. Once(f.shown)
      BY <1>6, <2>4, <2>7
    <3>2. \A y \in DOMAIN f.shown : y[1] # x[1]
      <4>1. \A y \in DOMAIN d.shown : y[1] # x[1]
        BY <2>4, <2>7 DEF Heads
      <4>2. \A y \in G : y[1] \in f.rendered
        BY <1>2, <1>5
      <4>3. \A y \in G : y[1] # x[1]
        BY <4>2, <2>3, <1>10
      <4> QED
        BY <4>1, <4>3, <1>2, <1>5
    <3>3. Once(f.shown (+) SetToBag({x}))
      BY <3>1, <3>2, AddOnce
    <3> QED
      BY <2>2, <3>3
  <2>8. Effect(d, e, p)
    <3>1. DOMAIN p.shown = DOMAIN d.shown \cup Drawings(d, e)
      BY <1>2, <1>5, <2>2, <2>4
    <3>2. p.rendered = d.rendered \cup {y[1] : y \in Drawings(d, e)}
      BY <1>2, <1>5, <2>2, <2>5
    <3>3. p.headers = NewHeaders(d, e)
      BY <1>2, <1>5, <2>2, <2>6
    <3> QED
      BY <1>2, <1>5, <2>2, <2>7, <3>1, <3>2, <3>3 DEF Effect
  <2> QED
    BY <2>8 DEF p, z
<1> QED
  BY <1>9, <1>10

LEMMA ResultEffect ==
  ASSUME NEW d, IsDisplay(d), NEW e \in ResultEvents
  PROVE  Effect(d, e, ProcessResult(Finalize(d, {e.ns}), e))
<1> DEFINE z == Finalize(d, {e.ns})
           f == [z EXCEPT !.active[e.ns] = {}, !.thinking = @ \ {e.ns}]
           p == ProcessResult(z, e)
           c == e.call
           G == {Gathered(d, n) : n \in Closed(d, e)}
<1>1. e \in Drawable /\ e.kind = "result" /\ c \in (Nat \ {0}) \X (Nat \ {0}) /\ c \in Ids
  BY DEF Drawable, ResultEvents, Ids
<1>2. /\ IsDisplay(z)
      /\ z.stream = [d.stream EXCEPT ![e.ns] = NewStream(d, e)]
      /\ z.rendered = d.rendered \cup {AI(d.stream[n].msg) : n \in Closed(d, e)}
      /\ z.rendered = d.rendered \cup {x[1] : x \in G}
      /\ z.headers = d.headers \cup ClosedCalls(d, e)
      /\ DOMAIN z.shown = DOMAIN d.shown \cup G
      /\ Once(d.shown) /\ (\A n \in Closed(d, e) : AI(d.stream[n].msg) \notin Heads(d)) => Once(z.shown)
  <2>1. ClosedBy(d, e, z)
    BY <1>1, ClosedFirst
  <2> HIDE DEF z
  <2> QED
    BY <2>1 DEF ClosedBy
<1>3. p = IF c \in f.rendered THEN f
          ELSE ShowResult([f EXCEPT !.rendered = @ \cup {Result(c)}], c)
  BY DEF ProcessResult, Result
<1> HIDE DEF z, p
<1>4. IsDisplay(f) /\ Alike(z, f)
  <2>1. f = [x \in DispFields |-> f[x]] /\ Alike(z, f)
    BY <1>2 DEF Alike, IsDisplay, DispFields
  <2> HIDE DEF f
  <2> QED
    BY <2>1, <1>2 DEF IsDisplay, Alike
<1> HIDE DEF f
<1>5. f.rendered = z.rendered /\ f.stream = z.stream /\ f.headers = z.headers /\ f.shown = z.shown
  BY <1>4 DEF Alike
<1>6. Once(d.shown) /\ (\A x \in G : x[1] \notin Heads(d)) => Once(f.shown)
  <2>1. \A n \in Closed(d, e) : Gathered(d, n) \in G /\ Gathered(d, n)[1] = AI(d.stream[n].msg)
    BY DEF Gathered
  <2> QED
    BY <2>1, <1>2, <1>5
<1> DEFINE k == IF c \in f.headers THEN 1 ELSE 0
<1>61. c \in f.rendered <=> c \in d.rendered
  <2>1. \A id : c # AI(id)
    BY <1>1 DEF AI
  <2> QED
    BY <2>1, <1>2, <1>5
<1>7. Own(d, e) = IF c \in f.rendered THEN {} ELSE {<<c, k>>}
  BY <1>1, <1>2, <1>5, <1>61 DEF Own
<1>8. Drawings(d, e) = G \cup Own(d, e)
  BY DEF Drawings
<1> HIDE DEF G
<1>9. CASE c \in f.rendered
  <2>1. p = f /\ Own(d, e) = {} /\ Drawings(d, e) = G
    BY <1>9, <1>3, <1>7, <1>8
  <2>2. NewHeaders(d, e) = d.headers \cup ClosedCalls(d, e)
    BY <2>1, <1>1 DEF NewHeaders
  <2>3. Effect(d, e, p)
    BY <2>1, <2>2, <1>2, <1>4, <1>5, <1>6 DEF Effect
  <2> QED
    BY <2>3 DEF p, z
<1>10. CASE c \notin f.rendered
  <2> DEFINE x == <<c, k>>
  <2>1. p = ShowResult([f EXCEPT !.rendered = @ \cup {Result(c)}], c)
    BY <1>3, <1>10
  <2>2. /\ IsDisplay(p) /\ p.stream = f.stream
        /\ p.rendered = f.rendered \cup {c}
        /\ p.headers = f.headers \ {c}
        /\ p.shown = f.shown (+) SetToBag({x})
        /\ DOMAIN p.shown = DOMAIN f.shown \cup {x}
    <3>1. Adds(f, p, x, f.headers \ {c})
      <4> HIDE DEF c
      <4> QED
        BY <2>1, <1>1, <1>4, ShowResultFields
    <3>2. x[1] = c
      OBVIOUS
    <3> HIDE DEF x
    <3> QED
      BY <3>1, <3>2 DEF Adds
  <2>3. Own(d, e) = {x} /\ x[1] = c
    BY <1>7, <1>10
  <2> HIDE DEF x
  <2>4. Drawings(d, e) = G \cup {x}
    BY <1>8, <2>3
  <2>5. {y[1] : y \in Drawings(d, e)} = {y[1] : y \in G} \cup {c}
    BY <2>3, <2>4
  <2>6. NewHeaders(d, e) = (d.headers \cup ClosedCalls(d, e)) \ {c}
    BY <2>3, <1>1 DEF NewHeaders
  <2>7. ASSUME Once(d.shown), \A y \in Drawings(d, e) : y[1] \notin Heads(d)
        PROVE  Once(p.shown)
    <3>1. Once(f.shown)
      BY <1>6, <2>4, <2>7
    <3>2. \A y \in DOMAIN f.shown : y[1] # x[1]
      <4>1. \A y \in DOMAIN d.shown : y[1] # x[1]
        BY <2>4, <2>7 DEF Heads
      <4>2. \A y \in G : y[1] \in f.rendered
        BY <1>2, <1>5
      <4>3. \A y \in G : y[1] # x[1]
        BY <4>2, <2>3, <1>10
      <4> QED
        BY <4>1, <4>3, <1>2, <1>5
    <3>3. Once(f.shown (+) SetToBag({x}))
      BY <3>1, <3>2, AddOnce
    <3> QED
      BY <2>2, <3>3
  <2>8. Effect(d, e, p)
    <3>1. DOMAIN p.shown = DOMAIN d.shown \cup Drawings(d, e)
      BY <1>2, <1>5, <2>2, <2>4
    <3>2. p.rendered = d.rendered \cup {y[1] : y \in Drawings(d, e)}
      BY <1>2, <1>5, <2>2, <2>5
    <3>3. p.headers = NewHeaders(d, e)
      BY <1>2, <1>5, <2>2, <2>6
    <3> QED
      BY <1>2, <1>5, <2>2, <2>7, <3>1, <3>2, <3>3 DEF Effect
  <2> QED
    BY <2>8 DEF p, z
<1> QED
  BY <1>9, <1>10

\* What the dispatcher makes of an event.
LEMMA ProcessEffect ==
  ASSUME NEW d, IsDisplay(d), NEW e \in Drawable
  PROVE  Effect(d, e, Process(d, e))
<1>1. CASE e \in ChunkEvents
  <2>1. Process(d, e) = ProcessChunk(d, e)
    BY <1>1 DEF Process, ChunkEvents
  <2> QED
    BY <1>1, <2>1, ChunkEffect
<1>2. CASE e \in ModelEvents
  <2>1. Process(d, e) = ProcessModel(Finalize(d, {e.ns}), e)
    BY <1>2 DEF Process, ModelEvents
  <2> QED
    BY <1>2, <2>1, ModelEffect
<1>3. CASE e \in ResultEvents
  <2>1. Process(d, e) = ProcessResult(Finalize(d, {e.ns}), e)
    BY <1>3 DEF Process, ResultEvents
  <2> QED
    BY <1>3, <2>1, ResultEffect
<1> QED
  BY <1>1, <1>2, <1>3 DEF Drawable

-----------------------------------------------------------------------------
(* The inductive invariant *)

States == {"off", "gate", "model", "sleep", "tools", "end", "failed", "over"}
Active == States \ {"off", "over"}
RunFields == {"at", "msg", "tries", "parts", "calls", "steps", "tools", "parent"}
IsRun(r) ==
  /\ r = [f \in RunFields |-> r[f]]
  /\ r.at \in States /\ r.msg \in Nat /\ r.parts \in Nat /\ r.calls \in Nat
  /\ DOMAIN r.tools = IF r.at = "tools" THEN Calls(r.msg, r.calls) ELSE {}
  /\ r.at \in {"model", "tools"} => r.msg # 0
TurnTypeOK ==
  /\ phase \in {"idle", "stream", "invoke", "ask", "ended"}
  /\ run = [n \in Spaces |-> run[n]] /\ \A n \in Spaces : IsRun(run[n])
  /\ IsDisplay(disp) /\ queue \in Seq(Events) /\ next \in Nat /\ added \subseteq Ids \X Nat

\* The events of a namespace in a queue, each of a message, in the order they come.
Of(q, n) == {i \in DOMAIN q : q[i].ns = n /\ q[i].kind # "interrupt"}
EventId(e) == IF e.kind = "result" THEN e.call[1] ELSE e.id
Before(a, b) ==
  \/ EventId(a) < EventId(b)
  \/ /\ EventId(a) = EventId(b)
     /\ \/ b.kind = "result"
        \/ a.kind = "chunk" /\ b.kind = "model" /\ a.part <= b.parts
        \/ a.kind = "chunk" /\ b.kind = "chunk" /\ a.part < b.part

\* Nothing of a message is on the screen, neither it nor a result of its calls.
Untouched(d, id) == \A m \in Heads(d) : m[1] # id

\* Event e of n may stand at place j of q: it comes after those before it and after
\* what streams, and has not been drawn, or is known to have been.
Fits(d, q, n, e, j) ==
  /\ \A i \in Of(q, n) : i < j => Before(q[i], e)
  /\ d.stream[n].msg # 0 => d.stream[n].msg <= EventId(e)
  /\ IF e.kind = "result" THEN e.call \in Heads(d) => e.call \in d.rendered
     ELSE Untouched(d, e.id)

\* The message and the results a namespace is about to send.
ModelEvent(n) ==
  [kind |-> "model", ns |-> n, id |-> run[n].msg, parts |-> run[n].parts,
   calls |-> Calls(run[n].msg, run[n].calls)]
ResultEvent(n, c) == [kind |-> "result", ns |-> n, call |-> c]
Coming(n) ==
  IF run[n].at = "model" THEN {ModelEvent(n)}
  ELSE {ResultEvent(n, c) : c \in DOMAIN run[n].tools}

\* Every namespace's events are in order, and so are those it is about to send.
LineInv ==
  Running => \A n \in Spaces :
    /\ \A j \in Of(queue, n) : Fits(disp, queue, n, queue[j], j)
    /\ \A e \in Coming(n) : Fits(disp, queue, n, e, Len(queue) + 1)
    /\ disp.stream[n].msg # 0 => Untouched(disp, disp.stream[n].msg)

\* A stream has come to s where place j of q is reached.
ChunkOf(n, s) == [kind |-> "chunk", ns |-> n, id |-> s.msg, part |-> s.parts, calls |-> s.calls]
Arrived(d, q, n, s, j) ==
  IF s.parts = 0
  THEN /\ d.stream[n].msg # s.msg
       /\ \A i \in Of(q, n) : i < j => ~(q[i].kind = "chunk" /\ q[i].id = s.msg)
  ELSE d.stream[n] = s \/ \E i \in DOMAIN q : i < j /\ q[i] = ChunkOf(n, s)

\* What must have streamed when an event of a message comes.
SoFar(e) ==
  IF e.kind = "chunk" THEN [msg |-> e.id, parts |-> e.part - 1, calls |-> {}]
  ELSE [msg |-> e.id, parts |-> e.parts, calls |-> IF e.parts = MaxParts THEN e.calls ELSE {}]

\* No chunk is missing before another or before its message.
ChainInv ==
  phase = "stream" => \A n \in Spaces :
    /\ \A j \in Of(queue, n) :
         queue[j].kind # "result" => Arrived(disp, queue, n, SoFar(queue[j]), j)
    /\ run[n].at = "model" => Arrived(disp, queue, n, SoFar(ModelEvent(n)), Len(queue) + 1)
    /\ \A j \in Of(queue, n) : queue[j].kind = "model" => queue[j].parts \in {0, MaxParts}

\* Nothing streams while the user is asked, nor without a stream.
QuietInv ==
  /\ phase \in {"ask", "invoke"} => \A n \in Spaces : disp.stream[n].msg = 0
  /\ phase = "invoke" => queue = <<>> /\ disp.rendered = {}

\* Messages of two namespaces are different ones, and all have been given out.
IdsOf(n) == {disp.stream[n].msg, run[n].msg} \cup {EventId(queue[i]) : i \in Of(queue, n)}
ApartInv == Running => \A n, m \in Spaces : n # m => IdsOf(n) \cap IdsOf(m) \subseteq {0}
BoundInv ==
  /\ \A n \in Spaces : IdsOf(n) \subseteq 0..next
  /\ \A x \in DOMAIN disp.shown \cup added : x[1][1] \in 0..next

\* What is marked as drawn is drawn.
RenderedInv == Running => disp.rendered \subseteq Heads(disp)

\* A subagent runs inside a call of the agent that waits for it.
SubsInv ==
  Running =>
    /\ run[Main].at \in Active
    /\ \A s \in Subs : run[s].at \in Active =>
         /\ run[Main].at = "tools" /\ run[s].parent \in DOMAIN run[Main].tools
         /\ run[Main].tools[run[s].parent] = "sub"
    /\ \A s, t \in Subs :
         run[s].at \in Active /\ run[t].at \in Active /\ run[s].parent = run[t].parent => s = t

\* While an interrupt waits a call does, and the agent's graph has sent no message since.
Asking == \E n \in Spaces : \E c \in DOMAIN run[n].tools : run[n].tools[c] = "asks"
ResultOnly(e) == e.ns = Main => e.kind \in {"result", "interrupt"}
AsksInv ==
  /\ phase = "ask" => Asking /\ \A j \in DOMAIN queue : ResultOnly(queue[j])
  /\ phase = "stream" => \A i \in DOMAIN queue : queue[i].kind = "interrupt" =>
       Asking /\ \A j \in DOMAIN queue : i < j => ResultOnly(queue[j])

\* What the turn added is on the screen, or in the queue before any interrupt.
Draws(e, x) ==
  /\ e.ns = Main
  /\ \/ e.kind = "model" /\ x = <<AI(e.id), e.parts>>
     \/ e.kind = "result" /\ x = <<e.call, 1>>
ToCome(x) ==
  \E i \in DOMAIN queue :
    Draws(queue[i], x) /\ \A j \in DOMAIN queue : j < i => queue[j].kind # "interrupt"
AddedInv ==
  /\ phase = "stream" => \A x \in added : x \in DOMAIN disp.shown \/ ToCome(x)
  /\ phase \in {"ask", "ended"} => added \subseteq DOMAIN disp.shown

\* So is the result of every call that is done, until the user is asked.
DoneInv ==
  phase = "stream" => \A c \in DOMAIN run[Main].tools : run[Main].tools[c] = "done" =>
    <<c, 1>> \in DOMAIN disp.shown \/ \E i \in DOMAIN queue : queue[i] = ResultEvent(Main, c)

\* The header of a result of the agent's is pending when the result comes.
HeaderComes(c, j) ==
  \/ c \in disp.headers
  \/ \E i \in DOMAIN queue :
       i < j /\ queue[i].kind = "model" /\ queue[i].ns = Main /\ c \in queue[i].calls
Headed(c, j) == IF c \in Heads(disp) THEN <<c, 1>> \in DOMAIN disp.shown ELSE HeaderComes(c, j)
HeadersInv ==
  /\ phase \in {"stream", "ask"} => \A c \in DOMAIN run[Main].tools : Headed(c, Len(queue) + 1)
  /\ phase = "stream" => \A j \in Of(queue, Main) :
       queue[j].kind = "result" => Headed(queue[j].call, j)

\* Without a stream, what is added is on no screen yet, and one message is the latest.
LatestInv ==
  phase = "invoke" =>
    /\ \A x \in added : x[1] \notin Heads(disp) /\ x[1][2] <= MaxCalls[Main]
    /\ \A x, y \in added : x[1] = y[1] => x = y
    /\ \A x \in added : x[1][2] # 0 => x[2] = 1
    /\ run[Main].at \in {"tools", "end"} => added # {}
    /\ run[Main].at = "model" => \A x \in added : x[1][1] # run[Main].msg
    /\ run[Main].at \in {"model", "sleep", "tools"} => run[Main].calls <= MaxCalls[Main]

IInv ==
  /\ TurnTypeOK /\ LineInv /\ ChainInv /\ QuietInv /\ ApartInv /\ BoundInv /\ RenderedInv
  /\ SubsInv /\ AsksInv /\ Once(disp.shown) /\ AddedInv /\ DoneInv /\ HeadersInv /\ LatestInv

-----------------------------------------------------------------------------
(* The queue *)

LEMMA EventKinds ==
  ASSUME NEW e \in Events
  PROVE  /\ e.ns \in Spaces /\ e.kind \in {"chunk", "model", "result", "interrupt"}
         /\ e.kind = "interrupt" <=> e \in Interrupts
         /\ e.kind # "interrupt" => e \in Drawable /\ EventId(e) \in Nat \ {0}
<1>1. CASE e \in ChunkEvents
  BY <1>1 DEF ChunkEvents, Interrupts, Drawable, EventId
<1>2. CASE e \in ModelEvents
  BY <1>2 DEF ModelEvents, Interrupts, Drawable, EventId
<1>3. CASE e \in ResultEvents
  BY <1>3 DEF ResultEvents, Interrupts, Drawable, EventId
<1>4. CASE e \in Interrupts
  BY <1>4 DEF Interrupts
<1> QED
  BY <1>1, <1>2, <1>3, <1>4 DEF Events, Drawable

\* An event sent stands last, and those before it stay where they are.
LEMMA Appended ==
  ASSUME NEW q \in Seq(Events), NEW x \in Events
  PROVE  /\ Append(q, x) \in Seq(Events) /\ Len(q) \in Nat
         /\ DOMAIN q = 1..Len(q) /\ Len(Append(q, x)) = Len(q) + 1
         /\ DOMAIN Append(q, x) = 1..(Len(q) + 1)
         /\ \A i \in DOMAIN q : Append(q, x)[i] = q[i]
         /\ Append(q, x)[Len(q) + 1] = x
         /\ \A n : /\ \A i \in Of(Append(q, x), n) :
                        \/ i \in Of(q, n) /\ Append(q, x)[i] = q[i]
                        \/ i = Len(q) + 1 /\ x.ns = n /\ x.kind # "interrupt"
                   /\ Of(q, n) \subseteq Of(Append(q, x), n)
<1>1. /\ Append(q, x) \in Seq(Events) /\ Len(q) \in Nat
      /\ DOMAIN q = 1..Len(q) /\ Len(Append(q, x)) = Len(q) + 1
      /\ DOMAIN Append(q, x) = 1..(Len(q) + 1)
      /\ \A i \in DOMAIN q : Append(q, x)[i] = q[i]
      /\ Append(q, x)[Len(q) + 1] = x
  BY AppendProperties, LenProperties
<1> DEFINE a == Append(q, x)
<1> HIDE DEF a
<1>2. /\ DOMAIN q = 1..Len(q) /\ DOMAIN a = 1..(Len(q) + 1) /\ Len(q) \in Nat
      /\ \A i \in DOMAIN q : a[i] = q[i]
      /\ a[Len(q) + 1] = x
  BY <1>1 DEF a
<1>3. ASSUME NEW n
      PROVE  /\ \A i \in Of(a, n) :
                  \/ i \in Of(q, n) /\ a[i] = q[i]
                  \/ i = Len(q) + 1 /\ x.ns = n /\ x.kind # "interrupt"
             /\ Of(q, n) \subseteq Of(a, n)
  <2>1. \A i \in DOMAIN a : i \in DOMAIN q \/ i = Len(q) + 1
    BY <1>2
  <2>2. DOMAIN q \subseteq DOMAIN a
    BY <1>2
  <2> QED
    BY <1>2, <2>1, <2>2 DEF Of
<1> QED
  BY <1>1, <1>3 DEF a

\* An event taken: those behind it move one place on.
LEMMA Taken ==
  ASSUME NEW q \in Seq(Events), q # <<>>
  PROVE  /\ Tail(q) \in Seq(Events) /\ Len(q) \in Nat \ {0} /\ Len(Tail(q)) = Len(q) - 1
         /\ DOMAIN q = 1..Len(q) /\ DOMAIN Tail(q) = 1..(Len(q) - 1)
         /\ Head(q) = q[1] /\ q[1] \in Events
         /\ \A i \in DOMAIN Tail(q) : i + 1 \in DOMAIN q /\ Tail(q)[i] = q[i + 1]
         /\ \A n : \A i \in Of(Tail(q), n) : i + 1 \in Of(q, n) /\ Tail(q)[i] = q[i + 1]
         /\ \A n : \A i \in Of(q, n) : i > 1 => i - 1 \in Of(Tail(q), n)
<1>1. /\ Tail(q) \in Seq(Events) /\ Len(q) \in Nat \ {0} /\ Len(Tail(q)) = Len(q) - 1
      /\ DOMAIN q = 1..Len(q) /\ DOMAIN Tail(q) = 1..(Len(q) - 1)
      /\ \A i \in DOMAIN Tail(q) : Tail(q)[i] = q[i + 1]
  BY HeadTailProperties, LenProperties, EmptySeq
<1>2. Head(q) = q[1] /\ q[1] \in Events
  BY <1>1, ElementOfSeq
<1> DEFINE t == Tail(q)
<1> HIDE DEF t
<1>3. /\ DOMAIN q = 1..Len(q) /\ DOMAIN t = 1..(Len(q) - 1) /\ Len(q) \in Nat
      /\ \A i \in DOMAIN t : t[i] = q[i + 1]
  BY <1>1 DEF t
<1>4. \A i \in DOMAIN t : i + 1 \in DOMAIN q
  BY <1>3
<1>5. \A n : \A i \in Of(t, n) : i + 1 \in Of(q, n) /\ t[i] = q[i + 1]
  BY <1>3, <1>4 DEF Of
<1>6. \A n : \A i \in Of(q, n) : i > 1 => i - 1 \in Of(t, n)
  <2> SUFFICES ASSUME NEW n, NEW i \in Of(q, n), i > 1 PROVE i - 1 \in Of(t, n)
    OBVIOUS
  <2>1. i \in DOMAIN q /\ i - 1 \in DOMAIN t
    BY <1>3 DEF Of
  <2>2. t[i - 1] = q[i]
    BY <1>3, <2>1
  <2> QED
    BY <2>1, <2>2 DEF Of
<1> QED
  BY <1>1, <1>2, <1>3, <1>4, <1>5, <1>6 DEF t

\* What fits goes on to fit when another event is sent, at its place or behind it.
LEMMA FitsAppended ==
  ASSUME NEW d, NEW q \in Seq(Events), NEW x \in Events, NEW n, NEW e
  PROVE  /\ \A j \in 1..(Len(q) + 1) : Fits(d, q, n, e, j) => Fits(d, Append(q, x), n, e, j)
         /\ Fits(d, q, n, e, Len(q) + 1) /\ (x.ns = n /\ x.kind # "interrupt" => Before(x, e))
              => Fits(d, Append(q, x), n, e, Len(q) + 2)
<1> DEFINE a == Append(q, x)
           L == Len(q) + 1
<1>1. /\ Len(q) \in Nat
      /\ \A i \in Of(a, n) : \/ i \in Of(q, n) /\ a[i] = q[i] /\ i \in 1..Len(q)
                             \/ i = L /\ x.ns = n /\ x.kind # "interrupt" /\ a[i] = x
  <2>1. \A i \in Of(q, n) : i \in 1..Len(q)
    BY Appended DEF Of
  <2> QED
    BY <2>1, Appended
<1> HIDE DEF a
<1>2. ASSUME NEW j \in 1..(Len(q) + 1), Fits(d, q, n, e, j)
      PROVE  Fits(d, a, n, e, j)
  BY <1>1, <1>2 DEF Fits
<1>3. ASSUME Fits(d, q, n, e, Len(q) + 1), x.ns = n /\ x.kind # "interrupt" => Before(x, e)
      PROVE  Fits(d, a, n, e, Len(q) + 2)
  BY <1>1, <1>3 DEF Fits
<1> QED
  BY <1>2, <1>3 DEF a

\* So does what has streamed.
LEMMA ArrivedAppended ==
  ASSUME NEW d, NEW q \in Seq(Events), NEW x \in Events, NEW n, NEW s
  PROVE  /\ \A j \in 1..(Len(q) + 1) :
              Arrived(d, q, n, s, j) => Arrived(d, Append(q, x), n, s, j)
         /\ Arrived(d, q, n, s, Len(q) + 1)
              /\ (s.parts = 0 => ~(x.ns = n /\ x.kind = "chunk" /\ x.id = s.msg))
              => Arrived(d, Append(q, x), n, s, Len(q) + 2)
         /\ s.parts # 0 /\ x = ChunkOf(n, s) => Arrived(d, Append(q, x), n, s, Len(q) + 2)
<1> DEFINE a == Append(q, x)
           L == Len(q) + 1
<1>1. /\ Len(q) \in Nat
      /\ \A i \in Of(a, n) : \/ i \in Of(q, n) /\ a[i] = q[i] /\ i \in 1..Len(q)
                             \/ i = L /\ x.ns = n /\ x.kind # "interrupt" /\ a[i] = x
  <2>1. \A i \in Of(q, n) : i \in 1..Len(q)
    BY Appended DEF Of
  <2> QED
    BY <2>1, Appended
<1>2. /\ \A i \in DOMAIN q : i \in DOMAIN a /\ a[i] = q[i] /\ i \in 1..Len(q)
      /\ L \in DOMAIN a /\ a[L] = x
  BY Appended
<1> HIDE DEF a
<1>3. ASSUME NEW j \in 1..(Len(q) + 1), Arrived(d, q, n, s, j)
      PROVE  Arrived(d, a, n, s, j)
  <2>1. CASE s.parts = 0
    BY <1>1, <1>3, <2>1 DEF Arrived
  <2>2. CASE s.parts # 0
    BY <1>2, <1>3, <2>2 DEF Arrived
  <2> QED
    BY <2>1, <2>2
<1>4. ASSUME Arrived(d, q, n, s, Len(q) + 1),
             s.parts = 0 => ~(x.ns = n /\ x.kind = "chunk" /\ x.id = s.msg)
      PROVE  Arrived(d, a, n, s, Len(q) + 2)
  <2>1. CASE s.parts = 0
    BY <1>1, <1>4, <2>1 DEF Arrived
  <2>2. CASE s.parts # 0
    <3>1. \A i \in DOMAIN q : i < Len(q) + 2
      BY <1>1, <1>2
    <3> QED
      BY <1>2, <1>4, <2>2, <3>1 DEF Arrived
  <2> QED
    BY <2>1, <2>2
<1>5. ASSUME s.parts # 0, x = ChunkOf(n, s)
      PROVE  Arrived(d, a, n, s, Len(q) + 2)
  BY <1>1, <1>2, <1>5 DEF Arrived
<1> QED
  BY <1>3, <1>4, <1>5 DEF a

-----------------------------------------------------------------------------
(* What the graph sends *)

\* The events about to be sent.
LEMMA ComingShape ==
  ASSUME TurnTypeOK, NEW n \in Spaces, NEW e \in Coming(n)
  PROVE  /\ e \in Drawable /\ e \in Events /\ e.ns = n /\ EventId(e) = run[n].msg
         /\ EventId(e) \in Nat \ {0} /\ e.kind \in {"model", "result"}
<1>1. IsRun(run[n])
  BY DEF TurnTypeOK
<1>2. CASE run[n].at = "model"
  <2>1. e = ModelEvent(n) /\ run[n].msg \in Nat \ {0} /\ run[n].parts \in Nat /\ run[n].calls \in Nat
    BY <1>1, <1>2 DEF Coming, IsRun
  <2>2. Calls(run[n].msg, run[n].calls) \subseteq Ids
    BY <2>1 DEF Calls, Ids
  <2>3. e \in ModelEvents /\ e.ns = n /\ e.id = run[n].msg /\ e.kind = "model"
    BY <2>1, <2>2 DEF ModelEvent, ModelEvents
  <2> QED
    BY <2>1, <2>3 DEF Drawable, Events, EventId
<1>3. CASE run[n].at # "model"
  <2>1. PICK c \in DOMAIN run[n].tools : e = ResultEvent(n, c)
    BY <1>3 DEF Coming
  <2>2. c \in Calls(run[n].msg, run[n].calls) /\ run[n].msg \in Nat \ {0} /\ run[n].calls \in Nat
    BY <1>1, <2>1 DEF IsRun
  <2>3. c \in (Nat \ {0}) \X (Nat \ {0}) /\ c[1] = run[n].msg
    BY <2>2 DEF Calls
  <2>4. e \in ResultEvents /\ e.ns = n /\ e.kind = "result" /\ e.call = c
    BY <2>1, <2>3 DEF ResultEvent, ResultEvents
  <2> QED
    BY <2>2, <2>3, <2>4 DEF Drawable, Events, EventId
<1> QED
  BY <1>2, <1>3

\* A step that sends nothing keeps the line if what it is about to send fits.
LEMMA LineStays ==
  ASSUME LineInv, Running, UNCHANGED <<queue, disp>>,
         \A n \in Spaces : \A e \in Coming(n)' : Fits(disp, queue, n, e, Len(queue) + 1)
  PROVE  LineInv'
<1> SUFFICES ASSUME NEW n \in Spaces
             PROVE  /\ \A j \in Of(queue', n) : Fits(disp', queue', n, queue'[j], j)
                    /\ \A e \in Coming(n)' : Fits(disp', queue', n, e, Len(queue') + 1)
                    /\ disp'.stream[n].msg # 0 => Untouched(disp', disp'.stream[n].msg)
  BY DEF LineInv
<1>1. queue' = queue /\ disp' = disp
  OBVIOUS
<1> QED
  BY <1>1 DEF LineInv

\* So does a step that sends one that fits, before what it is about to send.
LEMMA LineGrows ==
  ASSUME TurnTypeOK, LineInv, Running, disp' = disp, NEW x \in Events, queue' = Append(queue, x),
         x.kind # "interrupt" => Fits(disp, queue, x.ns, x, Len(queue) + 1),
         \A n \in Spaces : \A e \in Coming(n)' :
           /\ Fits(disp, queue, n, e, Len(queue) + 1)
           /\ x.kind # "interrupt" /\ x.ns = n => Before(x, e)
  PROVE  LineInv'
<1> SUFFICES ASSUME NEW n \in Spaces
             PROVE  /\ \A j \in Of(queue', n) : Fits(disp', queue', n, queue'[j], j)
                    /\ \A e \in Coming(n)' : Fits(disp', queue', n, e, Len(queue') + 1)
                    /\ disp'.stream[n].msg # 0 => Untouched(disp', disp'.stream[n].msg)
  BY DEF LineInv
<1>1. queue \in Seq(Events)
  BY DEF TurnTypeOK
<1> DEFINE a == Append(queue, x)
<1>2. ASSUME NEW j \in Of(a, n)
      PROVE  Fits(disp, a, n, a[j], j)
  <2>1. CASE j \in Of(queue, n) /\ a[j] = queue[j]
    <3>1. j \in 1..(Len(queue) + 1)
      BY <1>1, <2>1, Appended DEF Of
    <3>2. Fits(disp, queue, n, queue[j], j)
      BY <2>1 DEF LineInv
    <3> QED
      BY <1>1, <2>1, <3>1, <3>2, FitsAppended
  <2>2. CASE j = Len(queue) + 1 /\ x.ns = n /\ x.kind # "interrupt"
    <3>1. a[j] = x /\ j \in 1..(Len(queue) + 1)
      BY <1>1, <2>2, Appended
    <3>2. Fits(disp, queue, n, x, j)
      BY <2>2
    <3> HIDE DEF a
    <3>3. Fits(disp, a, n, x, j)
      BY <1>1, <3>1, <3>2, FitsAppended DEF a
    <3> QED
      BY <3>1, <3>3
  <2>3. \/ j \in Of(queue, n) /\ a[j] = queue[j]
        \/ j = Len(queue) + 1 /\ x.ns = n /\ x.kind # "interrupt"
    BY <1>1, <1>2, Appended
  <2> QED
    BY <2>1, <2>2, <2>3
<1>3. ASSUME NEW e \in Coming(n)'
      PROVE  Fits(disp, a, n, e, Len(a) + 1)
  <2>1. Len(a) + 1 = Len(queue) + 2
    BY <1>1, Appended
  <2>2. Fits(disp, queue, n, e, Len(queue) + 1) /\ (x.ns = n /\ x.kind # "interrupt" => Before(x, e))
    OBVIOUS
  <2> QED
    BY <1>1, <2>1, <2>2, FitsAppended
<1> QED
  BY <1>2, <1>3 DEF LineInv

\* What streams and what has been drawn apart, a step that sends nothing keeps the
\* chain if no message comes, or a new one.
LEMMA ChainStays ==
  ASSUME ChainInv, UNCHANGED <<phase, queue, disp>>,
         \A n \in Spaces : run'[n].at = "model" =>
           \/ run[n].at = "model" /\ ModelEvent(n)' = ModelEvent(n)
           \/ Arrived(disp, queue, n, SoFar(ModelEvent(n)'), Len(queue) + 1)
  PROVE  ChainInv'
<1> SUFFICES ASSUME phase = "stream", NEW n \in Spaces
             PROVE  /\ \A j \in Of(queue, n) :
                         queue[j].kind # "result" => Arrived(disp, queue, n, SoFar(queue[j]), j)
                    /\ run'[n].at = "model" =>
                         Arrived(disp, queue, n, SoFar(ModelEvent(n)'), Len(queue) + 1)
                    /\ \A j \in Of(queue, n) : queue[j].kind = "model" => queue[j].parts \in {0, MaxParts}
  <2>1. phase' = phase /\ queue' = queue /\ disp' = disp
    OBVIOUS
  <2> QED
    BY <2>1 DEF ChainInv
<1> QED
  BY DEF ChainInv

LEMMA ChainGrows ==
  ASSUME TurnTypeOK, ChainInv, UNCHANGED <<phase, disp>>, NEW x \in Events, queue' = Append(queue, x),
         phase = "stream" =>
           /\ x.kind \in {"chunk", "model"} => Arrived(disp, queue, x.ns, SoFar(x), Len(queue) + 1)
           /\ x.kind = "model" => x.parts \in {0, MaxParts}
           /\ \A n \in Spaces : run'[n].at = "model" =>
                \/ n # x.ns /\ run[n].at = "model" /\ ModelEvent(n)' = ModelEvent(n)
                \/ x.kind = "interrupt" /\ run[n].at = "model" /\ ModelEvent(n)' = ModelEvent(n)
                \/ Arrived(disp, Append(queue, x), n, SoFar(ModelEvent(n)'), Len(queue) + 2)
  PROVE  ChainInv'
<1> DEFINE a == Append(queue, x)
<1>1. queue \in Seq(Events) /\ Len(a) + 1 = Len(queue) + 2 /\ x.kind \in {"chunk", "model", "result", "interrupt"}
  BY Appended, EventKinds DEF TurnTypeOK
<1> SUFFICES ASSUME phase = "stream", NEW n \in Spaces
             PROVE  /\ \A j \in Of(a, n) : a[j].kind # "result" => Arrived(disp, a, n, SoFar(a[j]), j)
                    /\ run'[n].at = "model" =>
                         Arrived(disp, a, n, SoFar(ModelEvent(n)'), Len(queue) + 2)
                    /\ \A j \in Of(a, n) : a[j].kind = "model" => a[j].parts \in {0, MaxParts}
  <2>1. phase' = phase /\ queue' = a /\ disp' = disp
    OBVIOUS
  <2> QED
    BY <2>1, <1>1 DEF ChainInv
<1>2. ASSUME NEW j \in Of(a, n)
      PROVE  \/ j \in Of(queue, n) /\ a[j] = queue[j] /\ j \in 1..(Len(queue) + 1)
             \/ j = Len(queue) + 1 /\ x.ns = n /\ x.kind # "interrupt" /\ a[j] = x
  <2>1. \A i \in Of(queue, n) : i \in 1..(Len(queue) + 1)
    BY <1>1, Appended DEF Of
  <2> QED
    BY <1>1, <2>1, Appended
<1>3. ASSUME NEW j \in Of(a, n), a[j].kind # "result"
      PROVE  Arrived(disp, a, n, SoFar(a[j]), j)
  <2>1. CASE j \in Of(queue, n) /\ a[j] = queue[j] /\ j \in 1..(Len(queue) + 1)
    <3>1. Arrived(disp, queue, n, SoFar(queue[j]), j)
      BY <1>3, <2>1 DEF ChainInv
    <3> QED
      BY <1>1, <2>1, <3>1, ArrivedAppended
  <2>2. CASE j = Len(queue) + 1 /\ x.ns = n /\ x.kind # "interrupt" /\ a[j] = x
    <3>1. Arrived(disp, queue, n, SoFar(x), j)
      BY <1>1, <1>3, <2>2
    <3>2. j \in 1..(Len(queue) + 1)
      BY <1>1, <2>2, Appended
    <3> QED
      BY <1>1, <2>2, <3>1, <3>2, ArrivedAppended
  <2> QED
    BY <1>2, <2>1, <2>2
<1>4. ASSUME run'[n].at = "model"
      PROVE  Arrived(disp, a, n, SoFar(ModelEvent(n)'), Len(queue) + 2)
  <2>1. CASE Arrived(disp, a, n, SoFar(ModelEvent(n)'), Len(queue) + 2)
    BY <2>1
  <2>2. CASE (n # x.ns \/ x.kind = "interrupt") /\ run[n].at = "model" /\ ModelEvent(n)' = ModelEvent(n)
    <3>1. Arrived(disp, queue, n, SoFar(ModelEvent(n)), Len(queue) + 1)
      BY <2>2 DEF ChainInv
    <3>2. ~(x.ns = n /\ x.kind = "chunk")
      BY <2>2
    <3> QED
      BY <1>1, <2>2, <3>1, <3>2, ArrivedAppended
  <2> QED
    BY <1>4, <2>1, <2>2
<1>5. ASSUME NEW j \in Of(a, n), a[j].kind = "model"
      PROVE  a[j].parts \in {0, MaxParts}
  BY <1>2, <1>5 DEF ChainInv
<1> QED
  BY <1>3, <1>4, <1>5

\* A step gives a namespace no other message than its own or a new one.
LEMMA ApartStays ==
  ASSUME TurnTypeOK, ApartInv, BoundInv, Running, NEW k \in Spaces, next' \in {next, next + 1},
         \A n \in Spaces : \A id \in IdsOf(n)' :
           id \in IdsOf(n) \cup {0} \/ (n = k /\ next' = next + 1 /\ id = next'),
         \A x \in DOMAIN disp'.shown \cup added' :
            x \in DOMAIN disp.shown \cup added \/ \E n \in Spaces : x[1][1] \in IdsOf(n)
  PROVE  ApartInv' /\ BoundInv'
<1>1. next \in Nat /\ next' \in Nat /\ 0..next \subseteq 0..next' /\ next' \in 0..next'
  BY DEF TurnTypeOK
<1>2. \A n \in Spaces : IdsOf(n) \subseteq 0..next
  BY DEF BoundInv
<1>3. \A n \in Spaces : IdsOf(n)' \subseteq 0..next'
  BY <1>1, <1>2
<1>4. \A x \in DOMAIN disp'.shown \cup added' : x[1][1] \in 0..next'
  <2> SUFFICES ASSUME NEW x \in DOMAIN disp'.shown \cup added' PROVE x[1][1] \in 0..next'
    OBVIOUS
  <2>1. CASE x \in DOMAIN disp.shown \cup added
    BY <2>1, <1>1 DEF BoundInv
  <2>2. CASE \E n \in Spaces : x[1][1] \in IdsOf(n)
    BY <2>2, <1>1, <1>2
  <2> QED
    BY <2>1, <2>2
<1>5. BoundInv'
  BY <1>3, <1>4 DEF BoundInv
<1>6. ASSUME NEW n \in Spaces, NEW m \in Spaces, n # m, NEW id \in IdsOf(n)', id \in IdsOf(m)', id # 0
      PROVE  FALSE
  <2>1. next + 1 \notin IdsOf(n) /\ next + 1 \notin IdsOf(m)
    BY <1>1, <1>2
  <2>2. id \in IdsOf(n) \/ (n = k /\ id = next + 1)
    BY <1>6
  <2>3. id \in IdsOf(m) \/ (m = k /\ id = next + 1)
    BY <1>6
  <2>4. ~(id \in IdsOf(n) /\ id \in IdsOf(m))
    BY <1>6 DEF ApartInv
  <2> QED
    BY <1>6, <2>1, <2>2, <2>3, <2>4
<1>7. ApartInv'
  BY <1>6 DEF ApartInv
<1> QED
  BY <1>5, <1>7

-----------------------------------------------------------------------------
(* The steps of the graph *)

\* A call that asks is one that the agent's graph waits for.
LEMMA AskingTools ==
  ASSUME TurnTypeOK, SubsInv, Running, Asking
  PROVE  run[Main].at = "tools" /\ \E c \in DOMAIN run[Main].tools : run[Main].tools[c] # "done"
<1>1. PICK n \in Spaces : \E c \in DOMAIN run[n].tools : run[n].tools[c] = "asks"
  BY DEF Asking
<1>2. IsRun(run[n])
  BY DEF TurnTypeOK
<1>3. run[n].at = "tools"
  BY <1>1, <1>2 DEF IsRun
<1>4. CASE n = Main
  BY <1>1, <1>3, <1>4
<1>5. CASE n \in Subs
  <2>1. run[n].at \in Active
    BY <1>3 DEF Active, States
  <2>2. run[Main].at = "tools" /\ run[n].parent \in DOMAIN run[Main].tools /\ run[Main].tools[run[n].parent] = "sub"
    BY <1>5, <2>1 DEF SubsInv
  <2> QED
    BY <2>2
<1> QED
  BY <1>4, <1>5 DEF Spaces

\* While none asks no interrupt waits.
LEMMA NoneAsks ==
  ASSUME AsksInv, ~Asking
  PROVE  phase # "ask" /\ (phase = "stream" => \A i \in DOMAIN queue : queue[i].kind # "interrupt")
BY DEF AsksInv

\* A new message fits wherever it comes, and nothing of it has streamed.
LEMMA NewFits ==
  ASSUME TurnTypeOK, BoundInv, NEW n \in Spaces, NEW e, EventId(e) = next + 1, e.kind = "model",
         e.id = next + 1
  PROVE  /\ Fits(disp, queue, n, e, Len(queue) + 1)
         /\ e.parts = 0 => Arrived(disp, queue, n, SoFar(e), Len(queue) + 1)
<1>1. next \in Nat
  BY DEF TurnTypeOK
<1>2. IdsOf(n) \subseteq 0..next
  BY DEF BoundInv
<1>3. disp.stream[n].msg \in 0..next
  BY <1>2 DEF IdsOf
<1>4. \A i \in Of(queue, n) : EventId(queue[i]) \in 0..next
  BY <1>2 DEF IdsOf
<1>5. \A i \in Of(queue, n) : Before(queue[i], e)
  BY <1>1, <1>4 DEF Before
<1>6. Untouched(disp, e.id)
  <2>1. \A x \in DOMAIN disp.shown : x[1][1] \in 0..next
    BY DEF BoundInv
  <2> QED
    BY <1>1, <2>1 DEF Untouched, Heads
<1>7. Fits(disp, queue, n, e, Len(queue) + 1)
  BY <1>1, <1>3, <1>5, <1>6 DEF Fits
<1>8. ASSUME e.parts = 0
      PROVE  Arrived(disp, queue, n, SoFar(e), Len(queue) + 1)
  <2>1. SoFar(e).parts = 0 /\ SoFar(e).msg = next + 1
    BY <1>8 DEF SoFar
  <2>2. \A i \in Of(queue, n) : ~(queue[i].kind = "chunk" /\ queue[i].id = next + 1)
    BY <1>1, <1>4 DEF EventId
  <2> QED
    BY <1>1, <1>3, <2>1, <2>2 DEF Arrived
<1> QED
  BY <1>7, <1>8

\* A step that sends nothing may start a new message, which k is about to send, and
\* end the calls of a namespace.
Newly(n) == run[n].at = "model" /\ run[n].parts = 0 /\ run[n].msg = next
LEMMA Unsent ==
  ASSUME IInv, Running, UNCHANGED <<phase, queue, disp>>, NEW k \in Spaces,
         next' \in {next, next + 1}, TurnTypeOK', SubsInv', LatestInv', Asking => Asking',
         \A n \in Spaces :
           \/ run'[n] = run[n]
           \/ n = k /\ next' = next + 1 /\ Newly(n)'
           \/ /\ run'[n].at # "model" /\ run'[n].msg \in {0, run[n].msg}
              /\ DOMAIN run'[n].tools \subseteq DOMAIN run[n].tools,
         \A c \in DOMAIN run'[Main].tools :
           run'[Main].tools[c] = "done" => run[Main].tools[c] = "done",
         \A x \in added' :
           \/ x \in added
           \/ /\ ~Asking /\ x[1][1] \in IdsOf(Main)
              /\ phase = "stream" => x \in DOMAIN disp.shown \/ ToCome(x)
  PROVE  IInv'
<1>0. /\ TurnTypeOK /\ LineInv /\ ChainInv /\ QuietInv /\ ApartInv /\ BoundInv /\ RenderedInv
      /\ SubsInv /\ AsksInv /\ Once(disp.shown) /\ AddedInv /\ DoneInv /\ HeadersInv
      /\ next \in Nat /\ phase' = phase /\ queue' = queue /\ disp' = disp
  BY DEF IInv, TurnTypeOK
<1>1. ASSUME NEW n \in Spaces, n = k /\ next' = next + 1 /\ Newly(n)'
      PROVE  /\ Coming(n)' = {ModelEvent(n)'} /\ EventId(ModelEvent(n)') = next + 1
             /\ ModelEvent(n)'.kind = "model" /\ ModelEvent(n)'.id = next + 1 /\ ModelEvent(n)'.parts = 0
  BY <1>1 DEF Newly, Coming, ModelEvent, EventId
<1>2. ASSUME NEW n \in Spaces, run'[n].at # "model" /\ DOMAIN run'[n].tools \subseteq DOMAIN run[n].tools
      PROVE  Coming(n)' \subseteq Coming(n)
  <2>1. Coming(n)' = {ResultEvent(n, c) : c \in DOMAIN run'[n].tools}
    BY <1>2 DEF Coming, ResultEvent
  <2>2. CASE run[n].at = "model"
    <3>1. DOMAIN run[n].tools = {}
      BY <1>0, <2>2 DEF TurnTypeOK, IsRun
    <3> QED
      BY <1>2, <2>1, <3>1
  <2>3. CASE run[n].at # "model"
    <3>1. Coming(n) = {ResultEvent(n, c) : c \in DOMAIN run[n].tools}
      BY <2>3 DEF Coming
    <3> QED
      BY <1>2, <2>1, <3>1
  <2> QED
    BY <2>2, <2>3
<1>3. ASSUME NEW n \in Spaces, run'[n] = run[n]
      PROVE  Coming(n)' = Coming(n) /\ ModelEvent(n)' = ModelEvent(n)
  BY <1>3 DEF Coming, ModelEvent, ResultEvent
<1>4. LineInv'
  <2>1. ASSUME NEW n \in Spaces, NEW e \in Coming(n)'
        PROVE  Fits(disp, queue, n, e, Len(queue) + 1)
    <3>1. CASE e \in Coming(n)
      BY <1>0, <3>1 DEF LineInv
    <3>2. CASE n = k /\ next' = next + 1 /\ Newly(n)'
      BY <1>0, <1>1, <2>1, <3>2, NewFits
    <3> QED
      BY <1>2, <1>3, <2>1, <3>1, <3>2
  <2> QED
    BY <1>0, <2>1, LineStays
<1>5. ChainInv'
  <2>1. ASSUME NEW n \in Spaces, run'[n].at = "model"
        PROVE  \/ run[n].at = "model" /\ ModelEvent(n)' = ModelEvent(n)
               \/ Arrived(disp, queue, n, SoFar(ModelEvent(n)'), Len(queue) + 1)
    <3>1. CASE run'[n] = run[n]
      BY <1>3, <2>1, <3>1
    <3>2. CASE n = k /\ next' = next + 1 /\ Newly(n)'
      BY <1>0, <1>1, <3>2, NewFits
    <3> QED
      BY <2>1, <3>1, <3>2
  <2> QED
    BY <1>0, <2>1, ChainStays
<1>6. QuietInv' /\ RenderedInv' /\ Once(disp.shown)'
  BY <1>0 DEF QuietInv, RenderedInv, Running
<1>7. ApartInv' /\ BoundInv'
  <2>1. ASSUME NEW n \in Spaces, NEW id \in IdsOf(n)'
        PROVE  id \in IdsOf(n) \cup {0} \/ (n = k /\ next' = next + 1 /\ id = next')
    <3>1. id = run'[n].msg \/ id \in IdsOf(n)
      BY <1>0 DEF IdsOf
    <3>2. run[n].msg \in IdsOf(n)
      BY DEF IdsOf
    <3> QED
      BY <3>1, <3>2 DEF Newly
  <2>2. ASSUME NEW x \in DOMAIN disp'.shown \cup added'
        PROVE  x \in DOMAIN disp.shown \cup added \/ \E n \in Spaces : x[1][1] \in IdsOf(n)
    BY <1>0 DEF Spaces
  <2> QED
    BY <1>0, <2>1, <2>2, ApartStays
<1>8. AsksInv'
  BY <1>0 DEF AsksInv, ResultOnly
<1>9. AddedInv'
  <2>1. phase = "stream" => \A x \in added' : x \in DOMAIN disp.shown \/ ToCome(x)
    BY <1>0 DEF AddedInv
  <2>2. phase = "ask" => added' \subseteq DOMAIN disp.shown
    BY <1>0, NoneAsks DEF AddedInv, AsksInv
  <2>3. phase # "ended"
    BY DEF Running
  <2> QED
    BY <1>0, <2>1, <2>2, <2>3 DEF AddedInv, ToCome
<1>10. DOMAIN run'[Main].tools \subseteq DOMAIN run[Main].tools
  <2>1. Main \in Spaces
    BY DEF Spaces
  <2>2. CASE Newly(Main)'
    BY <2>1, <2>2 DEF TurnTypeOK, IsRun, Newly
  <2> QED
    BY <2>1, <2>2
<1>11. DoneInv'
  BY <1>0, <1>10 DEF DoneInv, ResultEvent
<1>12. HeadersInv'
  BY <1>0, <1>10 DEF HeadersInv, Headed, HeaderComes
<1> QED
  BY <1>4, <1>5, <1>6, <1>7, <1>8, <1>9, <1>11, <1>12 DEF IInv

\* A header that is pending, or comes, still does when more is sent behind it.
LEMMA HeadedSent ==
  ASSUME TurnTypeOK, disp' = disp, NEW x \in Events, queue' = Append(queue, x), NEW c
  PROVE  /\ \A j \in 1..(Len(queue) + 1) : Headed(c, j) => Headed(c, j)'
         /\ Headed(c, Len(queue) + 1) => Headed(c, Len(queue) + 1)'
         /\ x.kind = "model" /\ x.ns = Main /\ c \in x.calls /\ c \notin Heads(disp)
              => Headed(c, Len(queue) + 1)'
<1>1. /\ Len(queue) \in Nat /\ Len(queue') = Len(queue) + 1
      /\ \A i \in DOMAIN queue : i \in DOMAIN queue' /\ queue'[i] = queue[i] /\ i \in 1..Len(queue)
      /\ Len(queue) + 1 \in DOMAIN queue' /\ queue'[Len(queue) + 1] = x
  BY Appended DEF TurnTypeOK
<1>2. \A i \in DOMAIN queue : i < Len(queue') + 1
  BY <1>1
<1>3. Len(queue) + 1 < Len(queue') + 1
  BY <1>1
<1>4. ASSUME NEW j \in 1..(Len(queue) + 1), HeaderComes(c, j)
      PROVE  HeaderComes(c, j)'
  BY <1>1, <1>4 DEF HeaderComes
<1>5. ASSUME HeaderComes(c, Len(queue) + 1)
      PROVE  HeaderComes(c, Len(queue) + 1)'
  BY <1>1, <1>2, <1>5 DEF HeaderComes
<1>6. ASSUME x.kind = "model" /\ x.ns = Main /\ c \in x.calls
      PROVE  HeaderComes(c, Len(queue) + 1)'
  BY <1>1, <1>3, <1>6 DEF HeaderComes
<1> QED
  BY <1>4, <1>5, <1>6 DEF Headed

\* A step that sends an event of the message of its namespace, or an interrupt,
\* and gives out no message.
Sending(x) == IF phase = "invoke" THEN queue' = queue ELSE queue' = Append(queue, x)
LEMMA Sent ==
  ASSUME IInv, Running, UNCHANGED <<phase, disp, next>>, NEW x \in Events, Sending(x),
         TurnTypeOK', SubsInv', LatestInv', Asking => Asking' /\ ResultOnly(x),
         x.kind = "interrupt" => Asking',
         x.kind # "interrupt" => EventId(x) = run[x.ns].msg /\ Fits(disp, queue, x.ns, x, Len(queue) + 1),
         \A n \in Spaces : run'[n].msg = run[n].msg,
         \A n \in Spaces : \A e \in Coming(n)' :
           /\ Fits(disp, queue, n, e, Len(queue) + 1)
           /\ x.kind # "interrupt" /\ x.ns = n => Before(x, e),
         phase = "stream" =>
           /\ x.kind \in {"chunk", "model"} => Arrived(disp, queue, x.ns, SoFar(x), Len(queue) + 1)
           /\ x.kind = "model" => x.parts \in {0, MaxParts}
           /\ \A n \in Spaces : run'[n].at = "model" =>
                \/ n # x.ns /\ run[n].at = "model" /\ ModelEvent(n)' = ModelEvent(n)
                \/ x.kind = "interrupt" /\ run[n].at = "model" /\ ModelEvent(n)' = ModelEvent(n)
                \/ Arrived(disp, Append(queue, x), n, SoFar(ModelEvent(n)'), Len(queue) + 2),
         \A y \in added' : y \in added \/ (Draws(x, y) /\ ~Asking),
         \A c \in DOMAIN run'[Main].tools : run'[Main].tools[c] = "done" =>
           (c \in DOMAIN run[Main].tools /\ run[Main].tools[c] = "done") \/ x = ResultEvent(Main, c),
         \A c \in DOMAIN run'[Main].tools :
           \/ c \in DOMAIN run[Main].tools
           \/ ~Asking /\ x.kind = "model" /\ x.ns = Main /\ c \in x.calls /\ c \notin Heads(disp),
         x.kind = "result" /\ x.ns = Main => x.call \in DOMAIN run[Main].tools
  PROVE  IInv'
<1>0. /\ TurnTypeOK /\ LineInv /\ ChainInv /\ QuietInv /\ ApartInv /\ BoundInv /\ RenderedInv
      /\ SubsInv /\ AsksInv /\ Once(disp.shown) /\ AddedInv /\ DoneInv /\ HeadersInv
      /\ next \in Nat /\ phase' = phase /\ disp' = disp /\ queue \in Seq(Events)
  BY DEF IInv, TurnTypeOK
<1>q. CASE phase = "invoke"
  <2>1. queue' = queue /\ queue = <<>>
    BY <1>0, <1>q DEF Sending, QuietInv
  <2>2. LineInv'
    BY <1>0, <2>1, LineStays
  <2>3. ChainInv' /\ AsksInv' /\ AddedInv' /\ DoneInv' /\ HeadersInv'
    BY <1>0, <1>q DEF ChainInv, AsksInv, AddedInv, DoneInv, HeadersInv
  <2>4. QuietInv' /\ RenderedInv' /\ Once(disp.shown)'
    BY <1>0, <2>1 DEF QuietInv, RenderedInv, Running
  <2>5. \A n \in Spaces : \A id \in IdsOf(n)' : id \in IdsOf(n)
    BY <1>0, <2>1 DEF IdsOf
  <2>6. ASSUME NEW y \in DOMAIN disp'.shown \cup added'
        PROVE  y \in DOMAIN disp.shown \cup added \/ \E n \in Spaces : y[1][1] \in IdsOf(n)
    <3>1. CASE Draws(x, y)
      <4>1. x.kind # "interrupt" /\ y[1][1] = EventId(x) /\ x.ns \in Spaces
        BY <3>1, EventKinds DEF Draws, EventId, AI
      <4> QED
        BY <4>1 DEF IdsOf
    <3> QED
      BY <1>0, <3>1
  <2>7. ApartInv' /\ BoundInv'
    <3>1. Main \in Spaces
      BY DEF Spaces
    <3> QED
      BY <1>0, <2>5, <2>6, <3>1, ApartStays
  <2> QED
    BY <2>2, <2>3, <2>4, <2>7 DEF IInv
<1> SUFFICES ASSUME phase \in {"stream", "ask"}
             PROVE  IInv'
  BY <1>q DEF Running
<1>1. queue' = Append(queue, x)
  BY DEF Sending
<1>2. /\ Len(queue) \in Nat /\ Len(queue') = Len(queue) + 1
      /\ \A i \in DOMAIN queue : i \in DOMAIN queue' /\ queue'[i] = queue[i] /\ i \in 1..Len(queue)
      /\ Len(queue) + 1 \in DOMAIN queue' /\ queue'[Len(queue) + 1] = x
      /\ \A i \in DOMAIN queue' : i \in DOMAIN queue \/ i = Len(queue) + 1
  BY <1>0, <1>1, Appended
<1>3. ASSUME NEW n
      PROVE  \A i \in Of(queue', n) :
               \/ i \in Of(queue, n) /\ queue'[i] = queue[i]
               \/ i = Len(queue) + 1 /\ x.ns = n /\ x.kind # "interrupt" /\ queue'[i] = x
  <2>1. \A i \in Of(queue', n) :
          \/ i \in Of(queue, n) /\ queue'[i] = queue[i]
          \/ i = Len(queue) + 1 /\ x.ns = n /\ x.kind # "interrupt"
    BY <1>0, <1>1, Appended
  <2> QED
    BY <1>2, <2>1
<1>4. LineInv'
  BY <1>0, <1>1, LineGrows
<1>5. ChainInv'
  BY <1>0, <1>1, ChainGrows
<1>6. QuietInv' /\ RenderedInv' /\ Once(disp.shown)'
  BY <1>0 DEF QuietInv, RenderedInv, Running
<1>7. ApartInv' /\ BoundInv'
  <2>1. ASSUME NEW n \in Spaces, NEW id \in IdsOf(n)'
        PROVE  id \in IdsOf(n)
    <3>1. id \in {disp.stream[n].msg, run[n].msg} \/ \E i \in Of(queue', n) : id = EventId(queue'[i])
      BY <1>0, <2>1 DEF IdsOf
    <3>2. run[n].msg \in IdsOf(n)
      BY DEF IdsOf
    <3>3. CASE \E i \in Of(queue', n) : id = EventId(queue'[i])
      BY <1>3, <3>2, <3>3 DEF IdsOf
    <3> QED
      BY <3>1, <3>3 DEF IdsOf
  <2>2. ASSUME NEW y \in DOMAIN disp'.shown \cup added'
        PROVE  y \in DOMAIN disp.shown \cup added \/ \E n \in Spaces : y[1][1] \in IdsOf(n)
    <3>1. CASE Draws(x, y)
      <4>1. x.kind # "interrupt" /\ y[1][1] = EventId(x) /\ x.ns \in Spaces
        BY <3>1, EventKinds DEF Draws, EventId, AI
      <4> QED
        BY <4>1 DEF IdsOf
    <3> QED
      BY <1>0, <3>1
  <2>3. Main \in Spaces
    BY DEF Spaces
  <2> QED
    BY <1>0, <2>1, <2>2, <2>3, ApartStays
<1>8. AsksInv'
  <2>1. CASE phase = "ask"
    BY <1>0, <1>2, <2>1 DEF AsksInv
  <2>2. CASE phase = "stream"
    <3> SUFFICES ASSUME NEW i \in DOMAIN queue', queue'[i].kind = "interrupt"
                 PROVE  Asking' /\ \A j \in DOMAIN queue' : i < j => ResultOnly(queue'[j])
      BY <1>0, <2>2 DEF AsksInv, ResultOnly
    <3>1. CASE i \in DOMAIN queue
      <4>1. Asking /\ \A j \in DOMAIN queue : i < j => ResultOnly(queue[j])
        BY <1>0, <1>2, <2>2, <3>1 DEF AsksInv
      <4> QED
        BY <1>2, <4>1
    <3>2. CASE i = Len(queue) + 1
      <4>1. \A j \in DOMAIN queue' : ~(i < j)
        BY <1>2, <3>2
      <4> QED
        BY <1>2, <3>2, <4>1
    <3> QED
      BY <1>2, <3>1, <3>2
  <2> QED
    BY <2>1, <2>2
<1>9. AddedInv'
  <2>1. ASSUME phase = "stream", NEW y \in added', y \notin DOMAIN disp.shown
        PROVE  ToCome(y)'
    <3>1. CASE y \in added
      <4>1. PICK i \in DOMAIN queue :
              Draws(queue[i], y) /\ \A j \in DOMAIN queue : j < i => queue[j].kind # "interrupt"
        BY <1>0, <2>1, <3>1 DEF AddedInv, ToCome
      <4>2. \A j \in DOMAIN queue' : j < i => j \in DOMAIN queue
        BY <1>2, <4>1
      <4> QED
        BY <1>2, <4>1, <4>2 DEF ToCome, Draws
    <3>2. CASE Draws(x, y) /\ ~Asking
      <4>1. \A i \in DOMAIN queue : queue[i].kind # "interrupt"
        BY <1>0, <2>1, <3>2, NoneAsks
      <4>2. \A j \in DOMAIN queue' : j < Len(queue) + 1 => j \in DOMAIN queue
        BY <1>2
      <4> QED
        BY <1>2, <3>2, <4>1, <4>2 DEF ToCome, Draws
    <3> QED
      BY <2>1, <3>1, <3>2
  <2>2. ASSUME phase = "ask"
        PROVE  added' \subseteq DOMAIN disp.shown
    <3>1. Asking
      BY <1>0, <2>2 DEF AsksInv
    <3> QED
      BY <1>0, <2>2, <3>1 DEF AddedInv
  <2> QED
    BY <1>0, <2>1, <2>2 DEF AddedInv
<1>10. DoneInv'
  <2> SUFFICES ASSUME phase = "stream", NEW c \in DOMAIN run'[Main].tools, run'[Main].tools[c] = "done",
                      <<c, 1>> \notin DOMAIN disp.shown
               PROVE  \E i \in DOMAIN queue' : queue'[i] = ResultEvent(Main, c)
    BY <1>0 DEF DoneInv, ResultEvent
  <2>1. CASE c \in DOMAIN run[Main].tools /\ run[Main].tools[c] = "done"
    <3>1. PICK i \in DOMAIN queue : queue[i] = ResultEvent(Main, c)
      BY <1>0, <2>1 DEF DoneInv
    <3> QED
      BY <1>2, <3>1
  <2>2. CASE x = ResultEvent(Main, c)
    BY <1>2, <2>2
  <2> QED
    BY <2>1, <2>2
<1>11. HeadersInv'
  <2>1. ASSUME NEW c \in DOMAIN run[Main].tools
        PROVE  Headed(c, Len(queue) + 1)
    BY <1>0 DEF HeadersInv
  <2>2. ASSUME NEW c \in DOMAIN run'[Main].tools
        PROVE  Headed(c, Len(queue) + 1)'
    BY <1>0, <1>1, <2>1, <2>2, HeadedSent
  <2>3. ASSUME phase = "stream", NEW j \in Of(queue', Main), queue'[j].kind = "result"
        PROVE  Headed(queue[j].call, j)'
    <3>1. CASE j \in Of(queue, Main) /\ queue'[j] = queue[j]
      <4>1. Headed(queue[j].call, j) /\ j \in 1..(Len(queue) + 1)
        BY <1>0, <1>2, <2>3, <3>1 DEF HeadersInv, Of
      <4>2. \A c : Headed(c, j) => Headed(c, j)'
        BY <1>0, <1>1, <4>1, HeadedSent
      <4> QED
        BY <3>1, <4>1, <4>2 DEF Headed, HeaderComes
    <3>2. CASE j = Len(queue) + 1 /\ x.ns = Main /\ queue'[j] = x
      <4>1. Headed(x.call, j) /\ j \in 1..(Len(queue) + 1)
        BY <1>2, <2>1, <2>3, <3>2
      <4>2. \A c : Headed(c, j) => Headed(c, j)'
        BY <1>0, <1>1, <4>1, HeadedSent
      <4> QED
        BY <3>2, <4>1, <4>2 DEF Headed, HeaderComes
    <3> QED
      BY <1>3, <2>3, <3>1, <3>2
  <2> QED
    BY <1>0, <2>2, <2>3 DEF HeadersInv, Headed, HeaderComes
<1> QED
  BY <1>4, <1>5, <1>6, <1>7, <1>8, <1>9, <1>10, <1>11 DEF IInv

\* One namespace's graph takes a step.
LEMMA OneRuns ==
  ASSUME TurnTypeOK, UNCHANGED <<phase, disp>>, queue' \in Seq(Events), next' \in Nat,
         added' \subseteq Ids \X Nat, NEW n \in Spaces, NEW r, IsRun(r),
         run' = [run EXCEPT ![n] = r]
  PROVE  /\ TurnTypeOK' /\ run'[n] = r
         /\ \A m \in Spaces : m # n => run'[m] = run[m]
<1>1. /\ run'[n] = r /\ \A m \in Spaces : m # n => run'[m] = run[m]
      /\ run' = [m \in Spaces |-> run'[m]]
  BY DEF TurnTypeOK
<1>2. \A m \in Spaces : IsRun(run'[m])
  BY <1>1 DEF TurnTypeOK
<1>3. phase' = phase /\ disp' = disp
  OBVIOUS
<1>4. \A m \in Spaces : IsRun(run[m])'
  BY <1>2 DEF IsRun
<1> QED
  BY <1>1, <1>3, <1>4 DEF TurnTypeOK

\* A call that asks goes on asking, and the subagents of the agent go on.
LEMMA AskingStays ==
  ASSUME \A n \in Spaces : \/ run'[n].tools = run[n].tools
                           \/ \A c \in DOMAIN run[n].tools : run[n].tools[c] # "asks"
  PROVE  Asking => Asking'
BY DEF Asking
LEMMA SubsStay ==
  ASSUME TurnTypeOK, SubsInv, Running, phase' = phase, NEW n \in Spaces,
         \A m \in Spaces : m # n => run'[m] = run[m],
         run[n].at \in Active, run'[n].at \in Active, run'[n].parent = run[n].parent,
         n = Main =>
           \/ run[Main].at # "tools"
           \/ /\ run'[Main].at = "tools"
              /\ \A c \in DOMAIN run[Main].tools : run[Main].tools[c] = "sub" =>
                   c \in DOMAIN run'[Main].tools /\ run'[Main].tools[c] = "sub"
           \/ \A c \in DOMAIN run[Main].tools : run[Main].tools[c] # "sub"
  PROVE  SubsInv'
<1>1. Main \in Spaces /\ Subs \subseteq Spaces /\ Main \notin Subs
  BY TurnAssumption DEF Spaces
<1>2. CASE n = Main
  <2>1. \A s \in Subs : run'[s] = run[s]
    BY <1>1, <1>2
  <2> QED
    BY <1>1, <1>2, <2>1 DEF SubsInv
<1>3. CASE n # Main
  <2>1. run'[Main] = run[Main]
    BY <1>1, <1>3
  <2>2. \A s \in Subs : run'[s].parent = run[s].parent /\ (run'[s].at \in Active <=> run[s].at \in Active)
    BY <1>1
  <2> QED
    BY <1>1, <2>1, <2>2 DEF SubsInv
<1> QED
  BY <1>2, <1>3
LEMMA LatestStays ==
  ASSUME LatestInv, UNCHANGED <<phase, disp, added>>, run'[Main] = run[Main]
  PROVE  LatestInv'
BY DEF LatestInv

\* A run of another state than waiting for calls has none.
LEMMA NoTools ==
  ASSUME TurnTypeOK, NEW n \in Spaces, run[n].at # "tools"
  PROVE  DOMAIN run[n].tools = {}
BY DEF TurnTypeOK, IsRun

\* An attempt of a model call, with a new id.
LEMMA Attempted ==
  ASSUME IInv, Running, NEW n \in Spaces, run[n].at \in {"gate", "sleep"}, NEW r,
         r.at = "model" /\ r.msg = next + 1 /\ r.parts = 0 /\ r.calls \in Nat,
         r.parent = run[n].parent, DOMAIN r.tools = {}, r = [f \in RunFields |-> r[f]],
         n = Main => (phase = "invoke" => r.calls <= MaxCalls[Main]),
         run' = [run EXCEPT ![n] = r], next' = next + 1, UNCHANGED <<phase, queue, disp, added>>
  PROVE  IInv'
<1>0. TurnTypeOK /\ SubsInv /\ LatestInv /\ BoundInv /\ next \in Nat /\ Main \in Spaces
  BY DEF IInv, TurnTypeOK, Spaces
<1>1. IsRun(r)
  BY <1>0 DEF IsRun, States
<1>2. TurnTypeOK' /\ run'[n] = r /\ \A m \in Spaces : m # n => run'[m] = run[m]
  BY <1>0, <1>1, OneRuns DEF TurnTypeOK
<1>3. DOMAIN run[n].tools = {}
  BY <1>0, NoTools
<1>4. SubsInv'
  BY <1>0, <1>2, SubsStay DEF Active, States
<1>5. Asking => Asking'
  BY <1>2, <1>3, AskingStays
<1>6. LatestInv'
  <2>1. CASE n = Main
    <3>1. \A x \in added : x[1][1] # next + 1
      BY <1>0 DEF BoundInv
    <3> QED
      BY <1>0, <1>2, <2>1, <3>1 DEF LatestInv
  <2>2. CASE n # Main
    BY <1>0, <1>2, <2>2, LatestStays
  <2> QED
    BY <2>1, <2>2
<1>7. Newly(n)'
  BY <1>2 DEF Newly
<1>8. \A c \in DOMAIN run'[Main].tools : run'[Main].tools[c] = "done" => run[Main].tools[c] = "done"
  BY <1>0, <1>2
<1> QED
  BY <1>0, <1>2, <1>4, <1>5, <1>6, <1>7, <1>8, Unsent

\* A run of which a field other than its calls changes goes on without a message.
LEMMA Stopping ==
  ASSUME IInv, Running, NEW n \in Spaces, run[n].at \in {"gate", "model"},
         NEW at \in {"failed", "sleep"}, at = "sleep" => run[n].at = "model",
         run' = [run EXCEPT ![n].at = at], UNCHANGED <<phase, queue, disp, added, next>>
  PROVE  IInv'
<1> DEFINE r == [run[n] EXCEPT !.at = at]
<1>0. /\ TurnTypeOK /\ SubsInv /\ LatestInv /\ next \in Nat /\ Main \in Spaces /\ IsRun(run[n])
      /\ next' = next
  BY DEF IInv, TurnTypeOK, Spaces
<1>1. /\ r.at = at /\ r.msg = run[n].msg /\ r.calls = run[n].calls /\ r.parts = run[n].parts
      /\ r.tools = run[n].tools /\ r.parent = run[n].parent /\ r = [f \in RunFields |-> r[f]]
  BY <1>0 DEF IsRun, RunFields
<1>2. run' = [run EXCEPT ![n] = r]
  OBVIOUS
<1> HIDE DEF r
<1>3. IsRun(r)
  BY <1>0, <1>1 DEF IsRun, States
<1>4. TurnTypeOK' /\ run'[n] = r /\ \A m \in Spaces : m # n => run'[m] = run[m]
  BY <1>0, <1>2, <1>3, OneRuns DEF TurnTypeOK
<1>5. DOMAIN run[n].tools = {}
  BY <1>0, NoTools
<1>6. SubsInv'
  BY <1>0, <1>1, <1>4, SubsStay DEF Active, States
<1>7. Asking => Asking'
  BY <1>1, <1>4, AskingStays
<1>8. LatestInv'
  <2>1. CASE n = Main
    BY <1>0, <1>1, <1>4, <2>1 DEF LatestInv
  <2>2. CASE n # Main
    BY <1>0, <1>4, <2>2, LatestStays
  <2> QED
    BY <2>1, <2>2
<1>9. /\ \A c \in DOMAIN run'[Main].tools : run'[Main].tools[c] = "done" => run[Main].tools[c] = "done"
      /\ \A m \in Spaces : \/ run'[m] = run[m]
                           \/ /\ run'[m].at # "model" /\ run'[m].msg \in {0, run[m].msg}
                              /\ DOMAIN run'[m].tools \subseteq DOMAIN run[m].tools
  BY <1>0, <1>1, <1>4
<1> QED
  BY <1>0, <1>4, <1>6, <1>7, <1>8, <1>9, Unsent

LEMMA CallModelKeeps ==
  ASSUME IInv, NEW n \in Spaces, CallModel(n)
  PROVE  IInv'
<1>0. IsRun(run[n]) /\ next \in Nat
  BY DEF IInv, TurnTypeOK
<1>1. PICK k \in {0, MaxCalls[n]} :
        /\ Running /\ run[n].at = "gate" /\ UNCHANGED <<phase, queue, disp, added>>
        /\ \/ run' = [run EXCEPT ![n].at = "failed"] /\ next' = next
           \/ /\ run' = [run EXCEPT ![n] = [Attempt(run[n], next + 1) EXCEPT
                            !.tries = 0, !.calls = k, !.steps = @ + 1]]
              /\ next' = next + 1
  BY DEF CallModel, Kept
<1>2. CASE run' = [run EXCEPT ![n].at = "failed"] /\ next' = next
  BY <1>1, <1>2, Stopping
<1>3. CASE /\ run' = [run EXCEPT ![n] = [Attempt(run[n], next + 1) EXCEPT
                        !.tries = 0, !.calls = k, !.steps = @ + 1]]
           /\ next' = next + 1
  <2> DEFINE r == [Attempt(run[n], next + 1) EXCEPT !.tries = 0, !.calls = k, !.steps = @ + 1]
  <2>1. /\ r.at = "model" /\ r.msg = next + 1 /\ r.parts = 0 /\ r.calls = k
        /\ r.parent = run[n].parent /\ r.tools = run[n].tools /\ r = [f \in RunFields |-> r[f]]
    BY <1>0 DEF IsRun, RunFields, Attempt
  <2>2. run' = [run EXCEPT ![n] = r]
    BY <1>3
  <2> HIDE DEF r
  <2>3. k \in Nat /\ (n = Main => k <= MaxCalls[Main])
    BY TurnAssumption DEF Spaces
  <2>4. DOMAIN r.tools = {}
    BY <1>1, <2>1, NoTools DEF IInv
  <2> QED
    BY <1>1, <1>3, <2>1, <2>2, <2>3, <2>4, Attempted
<1> QED
  BY <1>1, <1>2, <1>3

LEMMA ModelFailsKeeps ==
  ASSUME IInv, NEW n \in Spaces, ModelFails(n)
  PROVE  IInv'
<1>1. /\ Running /\ run[n].at = "model" /\ UNCHANGED <<phase, queue, disp, added, next>>
      /\ \E at \in {"failed", "sleep"} : run' = [run EXCEPT ![n].at = at]
  BY DEF ModelFails
<1> QED
  BY <1>1, Stopping

LEMMA WakeKeeps ==
  ASSUME IInv, NEW n \in Spaces, Wake(n)
  PROVE  IInv'
<1> DEFINE r == [Attempt(run[n], next + 1) EXCEPT !.tries = @ + 1]
<1>0. IsRun(run[n]) /\ next \in Nat
  BY DEF IInv, TurnTypeOK
<1>1. /\ Running /\ run[n].at = "sleep" /\ UNCHANGED <<phase, queue, disp, added>>
      /\ run' = [run EXCEPT ![n] = r] /\ next' = next + 1
  BY DEF Wake, Kept
<1>2. /\ r.at = "model" /\ r.msg = next + 1 /\ r.parts = 0 /\ r.calls = run[n].calls
      /\ r.parent = run[n].parent /\ r.tools = run[n].tools /\ r = [f \in RunFields |-> r[f]]
  BY <1>0 DEF IsRun, RunFields, Attempt
<1> HIDE DEF r
<1>3. DOMAIN r.tools = {}
  BY <1>1, <1>2, NoTools DEF IInv
<1>4. r.calls \in Nat
  BY <1>0, <1>2 DEF IsRun
<1>5. n = Main => (phase = "invoke" => r.calls <= MaxCalls[Main])
  BY <1>1, <1>2 DEF IInv, LatestInv
<1> QED
  BY <1>1, <1>2, <1>3, <1>4, <1>5, Attempted

LEMMA NoneCalled == DOMAIN <<>> = {}
  OBVIOUS

LEMMA DelegateKeeps ==
  ASSUME IInv, NEW s \in Subs, NEW c \in DOMAIN run[Main].tools, Delegate(c, s)
  PROVE  IInv'
<1> DEFINE r == [run[Main] EXCEPT !.tools[c] = "sub"]
           t == [Off EXCEPT !.at = "gate", !.parent = c]
<1>0. /\ TurnTypeOK /\ SubsInv /\ LatestInv /\ Main \in Spaces /\ s \in Spaces /\ s # Main
      /\ IsRun(run[Main]) /\ IsRun(run[s]) /\ next \in Nat
  BY TurnAssumption DEF IInv, TurnTypeOK, Spaces
<1>1. /\ Running /\ run[Main].at = "tools" /\ run[s].at = "off" /\ run[Main].tools[c] = "run"
      /\ run' = [run EXCEPT ![Main].tools[c] = "sub", ![s] = t]
      /\ UNCHANGED <<phase, queue, disp, added, next>>
  BY DEF Delegate, Kept
<1>2. /\ r = [f \in RunFields |-> r[f]] /\ r.at = "tools" /\ r.msg = run[Main].msg
      /\ r.calls = run[Main].calls /\ r.parts = run[Main].parts /\ r.parent = run[Main].parent
      /\ r.tools = [run[Main].tools EXCEPT ![c] = "sub"]
  BY <1>0, <1>1 DEF IsRun, RunFields
<1>3. /\ t = [f \in RunFields |-> t[f]] /\ t.at = "gate" /\ t.msg = 0 /\ t.parts = 0 /\ t.calls = 0
      /\ t.parent = c /\ DOMAIN t.tools = {}
  BY NoneCalled DEF Off, RunFields
<1>4. /\ run'[Main] = r /\ run'[s] = t /\ \A m \in Spaces \ {Main, s} : run'[m] = run[m]
      /\ run' = [m \in Spaces |-> run'[m]]
  BY <1>0, <1>1 DEF TurnTypeOK
<1> HIDE DEF r, t
<1>5. DOMAIN r.tools = DOMAIN run[Main].tools
  BY <1>2
<1>6. IsRun(r) /\ IsRun(t)
  <2>1. IsRun(r)
    BY <1>0, <1>1, <1>2, <1>5 DEF IsRun
  <2>2. IsRun(t)
    BY <1>3 DEF IsRun, States
  <2> QED
    BY <2>1, <2>2
<1>7. TurnTypeOK'
  <2>1. \A m \in Spaces : IsRun(run'[m])
    BY <1>0, <1>4, <1>6 DEF TurnTypeOK
  <2>2. \A m \in Spaces : IsRun(run[m])'
    BY <2>1 DEF IsRun
  <2>3. phase' = phase /\ queue' = queue /\ disp' = disp /\ added' = added /\ next' = next
    BY <1>1
  <2> QED
    BY <1>0, <1>4, <2>2, <2>3 DEF TurnTypeOK
<1>8. SubsInv'
  <2>0. r.tools[c] = "sub" /\ \A x \in DOMAIN run[Main].tools : x # c => r.tools[x] = run[Main].tools[x]
    BY <1>2
  <2>1. run'[Main].at = "tools" /\ DOMAIN run'[Main].tools = DOMAIN run[Main].tools
        /\ run'[Main].tools[c] = "sub"
        /\ \A x \in DOMAIN run[Main].tools : run[Main].tools[x] = "sub" => run'[Main].tools[x] = "sub"
    BY <1>1, <1>2, <1>4, <1>5, <2>0
  <2>2. ASSUME NEW m \in Subs, run'[m].at \in Active
        PROVE  /\ run'[m].parent \in DOMAIN run'[Main].tools
               /\ run'[Main].tools[run'[m].parent] = "sub"
               /\ m # s => run[m].at \in Active /\ run[m].parent = run'[m].parent /\ run'[m].parent # c
    <3>1. CASE m = s
      BY <1>3, <1>4, <2>1, <3>1
    <3>2. CASE m # s
      <4>1. run'[m] = run[m]
        BY <1>0, <1>4, <3>2, TurnAssumption DEF Spaces
      <4>2. /\ run[m].parent \in DOMAIN run[Main].tools
            /\ run[Main].tools[run[m].parent] = "sub"
        BY <1>0, <1>1, <2>2, <4>1 DEF SubsInv
      <4>3. run[m].parent # c
        BY <1>1, <4>2
      <4> QED
        BY <2>1, <2>2, <4>1, <4>2, <4>3
    <3> QED
      BY <3>1, <3>2
  <2>3. ASSUME NEW m \in Subs, NEW q \in Subs, run'[m].at \in Active, run'[q].at \in Active,
               run'[m].parent = run'[q].parent
        PROVE  m = q
    <3>1. m = s <=> q = s
      BY <1>3, <1>4, <2>2, <2>3
    <3> QED
      BY <1>0, <1>1, <2>2, <2>3, <3>1 DEF SubsInv
  <2>4. run'[Main].at \in Active
    BY <2>1 DEF Active, States
  <2> QED
    BY <2>1, <2>2, <2>3, <2>4 DEF SubsInv
<1>9. Asking => Asking'
  <2>1. ASSUME NEW n \in Spaces, NEW x \in DOMAIN run[n].tools, run[n].tools[x] = "asks"
        PROVE  x \in DOMAIN run'[n].tools /\ run'[n].tools[x] = "asks"
    <3>1. CASE n = Main
      BY <1>1, <1>2, <1>4, <1>5, <2>1, <3>1
    <3>2. CASE n = s
      BY <1>0, <1>1, <2>1, <3>2, NoTools
    <3>3. CASE n \notin {Main, s}
      BY <1>4, <2>1, <3>3
    <3> QED
      BY <3>1, <3>2, <3>3
  <2> QED
    BY <2>1 DEF Asking
<1>10. LatestInv'
  BY <1>0, <1>1, <1>2, <1>4 DEF LatestInv
<1>11. \A x \in DOMAIN run'[Main].tools : run'[Main].tools[x] = "done" => run[Main].tools[x] = "done"
  BY <1>2, <1>4, <1>5
<1>12. \A m \in Spaces : \/ run'[m] = run[m]
                         \/ /\ run'[m].at # "model" /\ run'[m].msg \in {0, run[m].msg}
                            /\ DOMAIN run'[m].tools \subseteq DOMAIN run[m].tools
  BY <1>2, <1>3, <1>4, <1>5
<1> QED
  BY <1>0, <1>1, <1>7, <1>8, <1>9, <1>10, <1>11, <1>12, Unsent

LEMMA CommitKeeps ==
  ASSUME IInv, NEW n \in Spaces, Commit(n)
  PROVE  IInv'
<1>0. /\ TurnTypeOK /\ SubsInv /\ LatestInv /\ BoundInv /\ DoneInv /\ AsksInv /\ LineInv /\ QuietInv
      /\ Main \in Spaces /\ IsRun(run[n]) /\ next \in Nat
  BY DEF IInv, TurnTypeOK, Spaces
<1>1. PICK at \in {"end", "gate"} :
        /\ Running /\ run[n].at = "tools"
        /\ \A c \in DOMAIN run[n].tools : run[n].tools[c] = "done"
        /\ run' = [run EXCEPT ![n].at = at, ![n].tools = <<>>]
        /\ added' = IF n = Main THEN added \cup {<<Result(c), 1>> : c \in DOMAIN run[n].tools} ELSE added
        /\ UNCHANGED <<phase, queue, disp, next>>
  BY DEF Commit, Kept
<1> DEFINE r == [run[n] EXCEPT !.at = at, !.tools = <<>>]
<1>2. /\ r = [f \in RunFields |-> r[f]] /\ r.at = at /\ r.msg = run[n].msg
      /\ r.calls = run[n].calls /\ r.parts = run[n].parts /\ r.parent = run[n].parent
      /\ DOMAIN r.tools = {}
  BY <1>0, <1>1, NoneCalled DEF IsRun, RunFields
<1>3. run' = [run EXCEPT ![n] = r]
  BY <1>0, <1>1 DEF TurnTypeOK
<1> HIDE DEF r
<1>4. IsRun(r)
  BY <1>0, <1>2 DEF IsRun, States
<1>5. /\ run[n].msg \in Nat \ {0} /\ run[n].calls \in Nat
      /\ DOMAIN run[n].tools = Calls(run[n].msg, run[n].calls)
  BY <1>0, <1>1 DEF IsRun
<1>6. \A c \in DOMAIN run[n].tools :
        /\ c \in Ids /\ c[1] = run[n].msg /\ c[2] \in 1..run[n].calls /\ <<c, 1>> \in Ids \X Nat
        /\ Result(c) = c
  BY <1>5 DEF Calls, Ids, Result
<1>7. added' \subseteq Ids \X Nat
  BY <1>0, <1>1, <1>6 DEF TurnTypeOK
<1>8. TurnTypeOK' /\ run'[n] = r /\ \A m \in Spaces : m # n => run'[m] = run[m]
  BY <1>0, <1>1, <1>3, <1>4, <1>7, OneRuns DEF TurnTypeOK
<1>9. SubsInv'
  BY <1>0, <1>1, <1>2, <1>8, SubsStay DEF Active, States
<1>10. Asking => Asking'
  BY <1>1, <1>8, AskingStays
<1>11. n = Main => ~Asking
  BY <1>0, <1>1, AskingTools
<1>12. LatestInv'
  <2>1. CASE n = Main /\ phase = "invoke"
    <3>1. \A c \in DOMAIN run[Main].tools : c \notin Heads(disp)
      <4> SUFFICES ASSUME NEW c \in DOMAIN run[Main].tools PROVE c \notin Heads(disp)
        OBVIOUS
      <4>1. ResultEvent(Main, c) \in Coming(Main)
        BY <1>1, <2>1 DEF Coming
      <4>2. Fits(disp, queue, Main, ResultEvent(Main, c), Len(queue) + 1)
        BY <1>0, <1>1, <4>1 DEF LineInv
      <4> QED
        BY <1>0, <2>1, <4>2 DEF Fits, ResultEvent, QuietInv
    <3>2. /\ \A x \in added : x[1] \notin Heads(disp) /\ x[1][2] <= MaxCalls[Main]
          /\ \A x, y \in added : x[1] = y[1] => x = y
          /\ \A x \in added : x[1][2] # 0 => x[2] = 1
          /\ added # {} /\ run[Main].calls <= MaxCalls[Main]
      BY <1>0, <1>1, <2>1 DEF LatestInv
    <3>3. \A x \in added' : x \in added \/ \E c \in DOMAIN run[Main].tools : x = <<c, 1>>
      BY <1>1, <1>6, <2>1
    <3>4. MaxCalls[Main] \in Nat
      BY TurnAssumption
    <3>5. \A c \in DOMAIN run[Main].tools : c[2] <= MaxCalls[Main] /\ c[2] # 0
      <4>1. run[Main].calls \in Nat /\ \A c \in DOMAIN run[Main].tools : c[2] \in 1..run[Main].calls
        BY <1>5, <1>6, <2>1
      <4> QED
        BY <3>2, <3>4, <4>1
    <3>6. \A x \in added' : x[1] \notin Heads(disp) /\ x[1][2] <= MaxCalls[Main] /\ (x[1][2] # 0 => x[2] = 1)
      BY <3>1, <3>2, <3>3, <3>5
    <3>7. \A x \in added, c \in DOMAIN run[Main].tools : x[1] = c => x = <<c, 1>>
      BY <1>0, <3>2, <3>5 DEF TurnTypeOK
    <3>8. \A x, y \in added' : x[1] = y[1] => x = y
      BY <3>2, <3>3, <3>7
    <3>9. added' # {} /\ run'[Main].at \in {"end", "gate"} /\ disp' = disp
      BY <1>1, <1>2, <1>8, <2>1, <3>2
    <3> QED
      BY <3>6, <3>8, <3>9 DEF LatestInv
  <2>2. CASE n # Main
    BY <1>0, <1>1, <1>8, <2>2, LatestStays
  <2>3. CASE phase # "invoke"
    BY <1>1, <2>3 DEF LatestInv
  <2> QED
    BY <2>1, <2>2, <2>3
<1>13. ASSUME NEW x \in added'
       PROVE  \/ x \in added
              \/ /\ ~Asking /\ x[1][1] \in IdsOf(Main)
                 /\ phase = "stream" => x \in DOMAIN disp.shown \/ ToCome(x)
  <2>1. CASE n = Main /\ x \notin added
    <3>1. PICK c \in DOMAIN run[Main].tools : x = <<c, 1>>
      BY <1>1, <1>6, <2>1
    <3>2. x[1][1] \in IdsOf(Main)
      BY <1>6, <2>1, <3>1 DEF IdsOf
    <3>3. ASSUME phase = "stream", x \notin DOMAIN disp.shown
          PROVE  ToCome(x)
      <4>1. PICK i \in DOMAIN queue : queue[i] = ResultEvent(Main, c)
        BY <1>0, <1>1, <2>1, <3>1, <3>3 DEF DoneInv
      <4>2. Draws(queue[i], x)
        BY <3>1, <4>1 DEF Draws, ResultEvent
      <4>3. \A j \in DOMAIN queue : queue[j].kind # "interrupt"
        BY <1>0, <1>11, <2>1, <3>3, NoneAsks
      <4> QED
        BY <4>2, <4>3 DEF ToCome
    <3> QED
      BY <1>11, <2>1, <3>2, <3>3
  <2> QED
    BY <1>1, <2>1
<1>14. \A c \in DOMAIN run'[Main].tools : run'[Main].tools[c] = "done" => run[Main].tools[c] = "done"
  BY <1>0, <1>2, <1>8
<1>15. \A m \in Spaces : \/ run'[m] = run[m]
                         \/ /\ run'[m].at # "model" /\ run'[m].msg \in {0, run[m].msg}
                            /\ DOMAIN run'[m].tools \subseteq DOMAIN run[m].tools
  BY <1>2, <1>8
<1> QED
  BY <1>0, <1>1, <1>8, <1>9, <1>10, <1>12, <1>13, <1>14, <1>15, Unsent

LEMMA CallsIds == \A id, k \in Nat : Calls(id, k) \subseteq Ids
BY DEF Calls, Ids

\* The message about to be sent, when the model is called.
LEMMA AboutToSend ==
  ASSUME IInv, Running, NEW n \in Spaces, run[n].at = "model"
  PROVE  /\ run[n].msg \in Nat \ {0} /\ run[n].parts \in Nat /\ run[n].calls \in Nat
         /\ IsRun(run[n]) /\ DOMAIN run[n].tools = {}
         /\ ModelEvent(n) \in Coming(n) /\ ModelEvent(n) \in Events
         /\ Fits(disp, queue, n, ModelEvent(n), Len(queue) + 1)
         /\ phase = "stream" => Arrived(disp, queue, n, SoFar(ModelEvent(n)), Len(queue) + 1)
         /\ n = Main => ~Asking
<1>1. IsRun(run[n]) /\ TurnTypeOK /\ LineInv /\ ChainInv /\ SubsInv
  BY DEF IInv, TurnTypeOK
<1>2. ModelEvent(n) \in Coming(n)
  BY DEF Coming
<1>3. ModelEvent(n) \in Events
  BY <1>1, <1>2, ComingShape
<1>4. Fits(disp, queue, n, ModelEvent(n), Len(queue) + 1)
  BY <1>1, <1>2 DEF LineInv
<1>5. n = Main => ~Asking
  BY <1>1, AskingTools
<1> QED
  BY <1>1, <1>2, <1>3, <1>4, <1>5 DEF IsRun, ChainInv

LEMMA ChunkKeeps ==
  ASSUME IInv, NEW n \in Spaces, Chunk(n)
  PROVE  IInv'
<1> DEFINE r == [run[n] EXCEPT !.parts = @ + 1]
           k == IF run[n].parts + 1 = MaxParts THEN Calls(run[n].msg, run[n].calls) ELSE {}
           x == [kind |-> "chunk", ns |-> n, id |-> run[n].msg, part |-> run[n].parts + 1, calls |-> k]
<1>0. /\ TurnTypeOK /\ SubsInv /\ LatestInv /\ LineInv /\ Main \in Spaces /\ next \in Nat
      /\ queue \in Seq(Events) /\ MaxParts \in Nat /\ Len(queue) \in Nat
  <2>1. queue \in Seq(Events) /\ MaxParts \in Nat
    BY TurnAssumption DEF IInv, TurnTypeOK
  <2>2. Len(queue) \in Nat
    BY <2>1, LenProperties
  <2> QED
    BY <2>1, <2>2 DEF IInv, TurnTypeOK, Spaces
<1>1. /\ Running /\ run[n].at = "model" /\ run[n].parts < MaxParts
      /\ UNCHANGED <<phase, disp, next, added>> /\ Sending(x)
      /\ run' = [run EXCEPT ![n].parts = @ + 1]
  BY DEF Chunk, Kept, Emit, Sending
<1>2. /\ run[n].msg \in Nat \ {0} /\ run[n].parts \in Nat /\ run[n].calls \in Nat
      /\ IsRun(run[n]) /\ DOMAIN run[n].tools = {}
      /\ Fits(disp, queue, n, ModelEvent(n), Len(queue) + 1)
      /\ phase = "stream" => Arrived(disp, queue, n, SoFar(ModelEvent(n)), Len(queue) + 1)
      /\ n = Main => ~Asking
  BY <1>1, AboutToSend
<1>3. /\ r = [f \in RunFields |-> r[f]] /\ r.at = "model" /\ r.msg = run[n].msg
      /\ r.parts = run[n].parts + 1 /\ r.calls = run[n].calls /\ r.parent = run[n].parent
      /\ r.tools = run[n].tools
  BY <1>1, <1>2 DEF IsRun, RunFields
<1>4. run' = [run EXCEPT ![n] = r]
  BY <1>1
<1> HIDE DEF r
<1>5. IsRun(r)
  <2>1. DOMAIN r.tools = {} /\ r.parts \in Nat /\ r.at \in States
    BY <1>2, <1>3 DEF States
  <2> QED
    BY <1>2, <1>3, <2>1 DEF IsRun
<1>6. k \subseteq Ids
  BY <1>2, CallsIds
<1>7. /\ x \in Events /\ x.kind = "chunk" /\ x.ns = n /\ x.id = run[n].msg
      /\ x.part = run[n].parts + 1 /\ x.calls = k /\ EventId(x) = run[n].msg
  <2> HIDE DEF k
  <2>1. x \in ChunkEvents
    BY <1>2, <1>6 DEF ChunkEvents
  <2> QED
    BY <2>1 DEF Events, Drawable, EventId
<1> DEFINE y == [kind |-> "model", ns |-> n, id |-> run[n].msg, parts |-> run[n].parts + 1,
                 calls |-> Calls(run[n].msg, run[n].calls)]
<1>8. /\ ModelEvent(n).kind = "model" /\ ModelEvent(n).id = run[n].msg
      /\ ModelEvent(n).parts = run[n].parts /\ EventId(ModelEvent(n)) = run[n].msg
      /\ y.kind = "model" /\ y.id = run[n].msg /\ y.parts = run[n].parts + 1
      /\ EventId(y) = run[n].msg
  BY DEF ModelEvent, EventId
<1>9. SoFar(x) = SoFar(ModelEvent(n)) /\ ChunkOf(n, SoFar(y)) = x /\ SoFar(y).parts # 0
  <2>1. x.part - 1 = run[n].parts /\ run[n].parts # MaxParts /\ run[n].parts + 1 # 0
    BY <1>0, <1>1, <1>2
  <2>2. SoFar(x) = [msg |-> run[n].msg, parts |-> run[n].parts, calls |-> {}]
    BY <2>1 DEF SoFar
  <2>3. SoFar(ModelEvent(n)) = [msg |-> run[n].msg, parts |-> run[n].parts, calls |-> {}]
    BY <2>1 DEF SoFar, ModelEvent
  <2>4. SoFar(y) = [msg |-> run[n].msg, parts |-> run[n].parts + 1, calls |-> k]
    BY DEF SoFar
  <2> QED
    BY <2>1, <2>2, <2>3, <2>4 DEF ChunkOf
<1> HIDE DEF k, x, y
<1>10. queue' \in Seq(Events)
  BY <1>0, <1>1, <1>7, Appended DEF Sending
<1>11. TurnTypeOK' /\ run'[n] = r /\ \A m \in Spaces : m # n => run'[m] = run[m]
  BY <1>0, <1>1, <1>4, <1>5, <1>10, OneRuns DEF TurnTypeOK
<1>12. /\ Coming(n)' = {y} /\ ModelEvent(n)' = y
       /\ \A m \in Spaces : m # n => Coming(m)' = Coming(m) /\ ModelEvent(m)' = ModelEvent(m)
  BY <1>3, <1>11 DEF Coming, ModelEvent, ResultEvent, y
<1>13. SubsInv'
  BY <1>0, <1>1, <1>3, <1>11, SubsStay DEF Active, States
<1>14. Asking => Asking'
  BY <1>3, <1>11, AskingStays
<1>15. LatestInv'
  <2>1. CASE n = Main
    BY <1>0, <1>1, <1>3, <1>11, <2>1 DEF LatestInv
  <2>2. CASE n # Main
    BY <1>0, <1>1, <1>11, <2>2, LatestStays
  <2> QED
    BY <2>1, <2>2
<1>16. ASSUME NEW i \in Of(queue, n)
       PROVE  Before(queue[i], x) /\ Before(queue[i], y)
  <2>1. i < Len(queue) + 1 /\ queue[i] \in Events /\ queue[i].kind # "interrupt"
    BY <1>0, Appended, ElementOfSeq, LenProperties DEF Of
  <2>2. Before(queue[i], ModelEvent(n))
    BY <1>2, <2>1 DEF Fits
  <2>3. queue[i].kind = "chunk" => queue[i].part \in Nat
    BY <2>1, EventKinds, EventShape
  <2> QED
    BY <1>2, <1>7, <1>8, <2>2, <2>3 DEF Before
<1>17. Before(x, y)
  BY <1>2, <1>7, <1>8 DEF Before
<1>18. Fits(disp, queue, n, x, Len(queue) + 1) /\ Fits(disp, queue, n, y, Len(queue) + 1)
  BY <1>2, <1>7, <1>8, <1>16 DEF Fits
<1>19. ASSUME NEW m \in Spaces, NEW e \in Coming(m)'
       PROVE  /\ Fits(disp, queue, m, e, Len(queue) + 1)
              /\ x.kind # "interrupt" /\ x.ns = m => Before(x, e)
  BY <1>0, <1>1, <1>7, <1>12, <1>17, <1>18, <1>19 DEF LineInv
<1>20. Arrived(disp, Append(queue, x), n, SoFar(y), Len(queue) + 2)
  BY <1>0, <1>7, <1>9, ArrivedAppended
<1>21. phase = "stream" =>
           /\ x.kind \in {"chunk", "model"} => Arrived(disp, queue, x.ns, SoFar(x), Len(queue) + 1)
           /\ x.kind = "model" => x.parts \in {0, MaxParts}
           /\ \A m \in Spaces : run'[m].at = "model" =>
                \/ m # x.ns /\ run[m].at = "model" /\ ModelEvent(m)' = ModelEvent(m)
                \/ x.kind = "interrupt" /\ run[m].at = "model" /\ ModelEvent(m)' = ModelEvent(m)
                \/ Arrived(disp, Append(queue, x), m, SoFar(ModelEvent(m)'), Len(queue) + 2)
  BY <1>2, <1>7, <1>9, <1>11, <1>12, <1>20
<1>22. Asking => Asking' /\ ResultOnly(x)
  BY <1>2, <1>7, <1>14 DEF ResultOnly
<1>23. \A m \in Spaces : run'[m].msg = run[m].msg /\ run'[m].tools = run[m].tools
  BY <1>3, <1>11
<1> QED
  BY <1>0, <1>1, <1>7, <1>11, <1>13, <1>15, <1>18, <1>19, <1>21, <1>22, <1>23, Sent

LEMMA ModelDoneKeeps ==
  ASSUME IInv, NEW n \in Spaces, ModelDone(n)
  PROVE  IInv'
<1> DEFINE k == Calls(run[n].msg, run[n].calls)
           at == IF run[n].calls = 0 THEN "end" ELSE "tools"
           r == [run[n] EXCEPT !.at = at, !.tools = [c \in k |-> "run"]]
           x == ModelEvent(n)
<1>0. /\ TurnTypeOK /\ SubsInv /\ LatestInv /\ LineInv /\ Main \in Spaces /\ next \in Nat
      /\ queue \in Seq(Events) /\ Len(queue) \in Nat
  <2>1. queue \in Seq(Events)
    BY DEF IInv, TurnTypeOK
  <2>2. Len(queue) \in Nat
    BY <2>1, LenProperties
  <2> QED
    BY <2>1, <2>2 DEF IInv, TurnTypeOK, Spaces
<1>1. /\ Running /\ run[n].at = "model" /\ run[n].parts \in {0, MaxParts}
      /\ UNCHANGED <<phase, disp, next>> /\ Sending(x)
      /\ run' = [run EXCEPT ![n].at = at, ![n].tools = [c \in k |-> "run"]]
      /\ added' = IF n = Main THEN added \cup {<<AI(run[n].msg), run[n].parts>>} ELSE added
  BY DEF ModelDone, Kept, Emit, Sending, ModelEvent
<1>2. /\ run[n].msg \in Nat \ {0} /\ run[n].parts \in Nat /\ run[n].calls \in Nat
      /\ IsRun(run[n]) /\ DOMAIN run[n].tools = {} /\ x \in Events
      /\ Fits(disp, queue, n, x, Len(queue) + 1)
      /\ phase = "stream" => Arrived(disp, queue, n, SoFar(x), Len(queue) + 1)
      /\ n = Main => ~Asking
  BY <1>1, AboutToSend
<1>3. /\ r = [f \in RunFields |-> r[f]] /\ r.at = at /\ r.msg = run[n].msg
      /\ r.parts = run[n].parts /\ r.calls = run[n].calls /\ r.parent = run[n].parent
      /\ r.tools = [c \in k |-> "run"]
  BY <1>1, <1>2 DEF IsRun, RunFields
<1>4. run' = [run EXCEPT ![n] = r]
  BY <1>0, <1>1 DEF TurnTypeOK
<1> HIDE DEF r
<1>5. DOMAIN r.tools = k /\ \A c \in k : r.tools[c] = "run"
  BY <1>3
<1>6. at = "end" => k = {}
  BY DEF Calls
<1>7. k \subseteq Ids /\ \A c \in k : c[1] = run[n].msg
  BY <1>2, CallsIds DEF Calls
<1>8. IsRun(r)
  BY <1>2, <1>3, <1>5, <1>6 DEF IsRun, States
<1>9. /\ x.kind = "model" /\ x.ns = n /\ x.id = run[n].msg /\ x.parts = run[n].parts /\ x.calls = k
      /\ EventId(x) = run[n].msg
  BY DEF ModelEvent, EventId
<1> HIDE DEF k, x, at
<1>10. queue' \in Seq(Events)
  BY <1>0, <1>1, <1>2, Appended DEF Sending
<1>11. added' \subseteq Ids \X Nat
  BY <1>0, <1>1, <1>2 DEF TurnTypeOK, AI, Ids
<1>12. TurnTypeOK' /\ run'[n] = r /\ \A m \in Spaces : m # n => run'[m] = run[m]
  BY <1>0, <1>1, <1>4, <1>8, <1>10, <1>11, OneRuns DEF TurnTypeOK
<1>13. r.at \in {"end", "tools"} /\ r.at # "model"
  BY <1>3 DEF at
<1>14. /\ Coming(n)' = {ResultEvent(n, c) : c \in k}
       /\ \A m \in Spaces : m # n => Coming(m)' = Coming(m) /\ ModelEvent(m)' = ModelEvent(m)
  BY <1>5, <1>12, <1>13 DEF Coming, ModelEvent, ResultEvent
<1>15. SubsInv'
  BY <1>0, <1>1, <1>3, <1>12, <1>13, SubsStay DEF Active, States
<1>16. Asking => Asking'
  BY <1>2, <1>12, AskingStays
<1>17. Untouched(disp, run[n].msg)
  BY <1>2, <1>9 DEF Fits
<1>18. LatestInv'
  <2>1. CASE n = Main /\ phase = "invoke"
    <3> DEFINE z == <<AI(run[n].msg), run[n].parts>>
    <3>1. /\ \A y \in added : y[1] \notin Heads(disp) /\ y[1][2] <= MaxCalls[Main] /\ y[1][1] # run[n].msg
          /\ \A y, u \in added : y[1] = u[1] => y = u
          /\ \A y \in added : y[1][2] # 0 => y[2] = 1
          /\ run[Main].calls <= MaxCalls[Main]
      BY <1>0, <1>1, <2>1 DEF LatestInv
    <3>2. added' = added \cup {z} /\ z[1][1] = run[n].msg /\ z[1][2] = 0
      BY <1>1, <2>1 DEF AI
    <3>3. z[1] \notin Heads(disp)
      BY <1>17, <3>2 DEF Untouched
    <3>4. 0 <= MaxCalls[Main]
      BY TurnAssumption
    <3>5. run'[Main].calls = run[Main].calls /\ run'[Main].at # "model" /\ disp' = disp
      BY <1>1, <1>3, <1>12, <1>13, <2>1
    <3> HIDE DEF z
    <3> QED
      BY <3>1, <3>2, <3>3, <3>4, <3>5 DEF LatestInv
  <2>2. CASE n # Main
    BY <1>0, <1>1, <1>12, <2>2, LatestStays
  <2>3. CASE phase # "invoke"
    BY <1>1, <2>3 DEF LatestInv
  <2> QED
    BY <2>1, <2>2, <2>3
<1>19. ASSUME NEW c \in k
       PROVE  /\ Fits(disp, queue, n, ResultEvent(n, c), Len(queue) + 1)
              /\ Before(x, ResultEvent(n, c)) /\ c \notin Heads(disp)
  <2>1. /\ ResultEvent(n, c).kind = "result" /\ ResultEvent(n, c).call = c
        /\ EventId(ResultEvent(n, c)) = run[n].msg
    BY <1>7 DEF ResultEvent, EventId
  <2>2. c \notin Heads(disp)
    BY <1>7, <1>17 DEF Untouched
  <2>3. \A i \in Of(queue, n) : i < Len(queue) + 1 => Before(queue[i], ResultEvent(n, c))
    BY <1>2, <1>9, <2>1 DEF Fits, Before
  <2> QED
    BY <1>2, <1>9, <2>1, <2>2, <2>3 DEF Fits, Before
<1>20. ASSUME NEW m \in Spaces, NEW e \in Coming(m)'
       PROVE  /\ Fits(disp, queue, m, e, Len(queue) + 1)
              /\ x.kind # "interrupt" /\ x.ns = m => Before(x, e)
  BY <1>0, <1>1, <1>9, <1>14, <1>19, <1>20 DEF LineInv
<1>21. phase = "stream" =>
           /\ x.kind \in {"chunk", "model"} => Arrived(disp, queue, x.ns, SoFar(x), Len(queue) + 1)
           /\ x.kind = "model" => x.parts \in {0, MaxParts}
           /\ \A m \in Spaces : run'[m].at = "model" =>
                \/ m # x.ns /\ run[m].at = "model" /\ ModelEvent(m)' = ModelEvent(m)
                \/ x.kind = "interrupt" /\ run[m].at = "model" /\ ModelEvent(m)' = ModelEvent(m)
                \/ Arrived(disp, Append(queue, x), m, SoFar(ModelEvent(m)'), Len(queue) + 2)
  BY <1>1, <1>2, <1>9, <1>12, <1>13, <1>14
<1>22. Asking => Asking' /\ ResultOnly(x)
  BY <1>2, <1>9, <1>16 DEF ResultOnly
<1>23. \A m \in Spaces : run'[m].msg = run[m].msg
  BY <1>3, <1>12
<1>24. \A y \in added' : y \in added \/ (Draws(x, y) /\ ~Asking)
  BY <1>1, <1>2, <1>9 DEF Draws
<1>25. /\ \A c \in DOMAIN run'[Main].tools : run'[Main].tools[c] = "done" =>
            (c \in DOMAIN run[Main].tools /\ run[Main].tools[c] = "done") \/ x = ResultEvent(Main, c)
       /\ \A c \in DOMAIN run'[Main].tools :
            \/ c \in DOMAIN run[Main].tools
            \/ ~Asking /\ x.kind = "model" /\ x.ns = Main /\ c \in x.calls /\ c \notin Heads(disp)
  <2>1. CASE n = Main
    BY <1>2, <1>5, <1>9, <1>12, <1>19, <2>1
  <2>2. CASE n # Main
    BY <1>0, <1>12, <2>2
  <2> QED
    BY <2>1, <2>2
<1> QED
  BY <1>0, <1>1, <1>2, <1>9, <1>12, <1>15, <1>18, <1>20, <1>21, <1>22, <1>23, <1>24, <1>25, Sent

\* The calls of a namespace that waits for them, and the result of each.
LEMMA Waiting ==
  ASSUME IInv, Running, NEW n \in Spaces, run[n].at = "tools", NEW c \in DOMAIN run[n].tools
  PROVE  /\ IsRun(run[n]) /\ c[1] = run[n].msg
         /\ ResultEvent(n, c) \in Coming(n) /\ ResultEvent(n, c) \in Events
         /\ ResultEvent(n, c).kind = "result" /\ ResultEvent(n, c).ns = n
         /\ ResultEvent(n, c).call = c /\ EventId(ResultEvent(n, c)) = run[n].msg
         /\ Fits(disp, queue, n, ResultEvent(n, c), Len(queue) + 1)
         /\ \A e \in Coming(n) : Before(ResultEvent(n, c), e)
<1>1. IsRun(run[n]) /\ TurnTypeOK /\ LineInv
  BY DEF IInv, TurnTypeOK
<1>2. c[1] = run[n].msg
  <2>1. c \in Calls(run[n].msg, run[n].calls)
    BY <1>1 DEF IsRun
  <2> QED
    BY <2>1 DEF Calls
<1>3. Coming(n) = {ResultEvent(n, d) : d \in DOMAIN run[n].tools}
  BY DEF Coming
<1>4. ResultEvent(n, c) \in Coming(n)
  BY <1>3
<1>5. /\ ResultEvent(n, c) \in Events /\ ResultEvent(n, c).kind = "result"
      /\ ResultEvent(n, c).ns = n /\ ResultEvent(n, c).call = c
  BY <1>1, <1>4, ComingShape DEF ResultEvent
<1>6. \A e \in Coming(n) : EventId(e) = run[n].msg /\ e.kind = "result"
  <2>1. \A e \in Coming(n) : EventId(e) = run[n].msg
    BY <1>1, ComingShape
  <2> QED
    BY <1>3, <2>1 DEF ResultEvent
<1>7. Fits(disp, queue, n, ResultEvent(n, c), Len(queue) + 1)
  BY <1>1, <1>4 DEF LineInv
<1>8. \A e \in Coming(n) : Before(ResultEvent(n, c), e)
  BY <1>4, <1>6 DEF Before
<1> QED
  BY <1>1, <1>2, <1>4, <1>5, <1>6, <1>7, <1>8

LEMMA CallDoneKeeps ==
  ASSUME IInv, NEW n \in Spaces, NEW c \in DOMAIN run[n].tools, CallDone(n, c)
  PROVE  IInv'
<1> DEFINE r == [run[n] EXCEPT !.tools[c] = "done"]
           x == ResultEvent(n, c)
           R == Returned(c)
<1>0. /\ TurnTypeOK /\ SubsInv /\ LatestInv /\ LineInv /\ Main \in Spaces /\ next \in Nat
      /\ Main \notin Subs /\ Subs \subseteq Spaces /\ R \subseteq Subs
      /\ queue \in Seq(Events)
  BY TurnAssumption DEF IInv, TurnTypeOK, Spaces, Returned
<1>1. /\ Running /\ run[n].at = "tools" /\ UNCHANGED <<phase, disp, next, added>> /\ Sending(x)
      /\ run[n].tools[c] = "run" \/ (run[n].tools[c] = "sub" /\ R # {})
      /\ run' = [m \in Spaces |-> IF m \in R THEN [run[m] EXCEPT !.at = "over"]
                                  ELSE IF m = n THEN r ELSE run[m]]
  BY DEF CallDone, Kept, Emit, Sending, ResultEvent
<1>2. /\ IsRun(run[n]) /\ x \in Events /\ x.kind = "result" /\ x.ns = n /\ x.call = c
      /\ EventId(x) = run[n].msg /\ Fits(disp, queue, n, x, Len(queue) + 1)
      /\ \A e \in Coming(n) : Before(x, e)
  BY <1>1, Waiting
<1>3. /\ r = [f \in RunFields |-> r[f]] /\ r.at = "tools" /\ r.msg = run[n].msg
      /\ r.parts = run[n].parts /\ r.calls = run[n].calls /\ r.parent = run[n].parent
      /\ r.tools = [run[n].tools EXCEPT ![c] = "done"]
  BY <1>1, <1>2 DEF IsRun, RunFields
<1>4. /\ DOMAIN r.tools = DOMAIN run[n].tools /\ r.tools[c] = "done"
      /\ \A d \in DOMAIN run[n].tools : d # c => r.tools[d] = run[n].tools[d]
  BY <1>3
<1>5. ASSUME NEW m \in R
      PROVE  /\ run'[m].at = "over" /\ run'[m].msg = run[m].msg
             /\ DOMAIN run'[m].tools = {} /\ DOMAIN run[m].tools = {} /\ run[m].at \in {"end", "failed"}
             /\ run[m].parent = c /\ m \in Spaces /\ IsRun(run'[m])
  <2>1. m \in Spaces /\ run[m].at \in {"end", "failed"} /\ run[m].parent = c
    BY <1>0 DEF Returned
  <2>2. IsRun(run[m]) /\ DOMAIN run[m].tools = {}
    BY <1>0, <2>1, NoTools DEF TurnTypeOK
  <2> DEFINE t == [run[m] EXCEPT !.at = "over"]
  <2>3. /\ t = [f \in RunFields |-> t[f]] /\ t.at = "over" /\ t.msg = run[m].msg
        /\ t.parts = run[m].parts /\ t.calls = run[m].calls /\ t.tools = run[m].tools
    BY <2>2 DEF IsRun, RunFields
  <2>4. run'[m] = t
    BY <1>1, <2>1
  <2> HIDE DEF t
  <2>5. IsRun(t)
    BY <2>2, <2>3 DEF IsRun, States
  <2> QED
    BY <2>1, <2>2, <2>3, <2>4, <2>5
<1>6. n \notin R
  BY <1>1 DEF Returned
<1>7. /\ run'[n] = r /\ \A m \in Spaces : m # n /\ m \notin R => run'[m] = run[m]
      /\ run' = [m \in Spaces |-> run'[m]]
  BY <1>1, <1>6
<1> HIDE DEF r, x, R
<1>8. IsRun(r)
  BY <1>1, <1>2, <1>3, <1>4 DEF IsRun
<1>9. queue' \in Seq(Events)
  BY <1>0, <1>1, <1>2, Appended DEF Sending
<1>10. TurnTypeOK'
  <2>1. \A m \in Spaces : IsRun(run'[m])
    BY <1>0, <1>5, <1>7, <1>8 DEF TurnTypeOK
  <2>2. \A m \in Spaces : IsRun(run[m])'
    BY <2>1 DEF IsRun
  <2>3. phase' = phase /\ disp' = disp /\ added' = added /\ next' = next
    BY <1>1
  <2> QED
    BY <1>0, <1>7, <1>9, <2>2, <2>3 DEF TurnTypeOK
<1>11. ASSUME NEW m \in Spaces
       PROVE  /\ Coming(m)' = Coming(m) /\ run'[m].msg = run[m].msg
              /\ run'[m].at = "model" => m # n /\ run[m].at = "model" /\ ModelEvent(m)' = ModelEvent(m)
  <2>1. CASE m = n
    BY <1>1, <1>3, <1>4, <1>7, <2>1 DEF Coming, ResultEvent
  <2>2. CASE m \in R
    BY <1>5, <2>2 DEF Coming
  <2>3. CASE m # n /\ m \notin R
    BY <1>7, <2>3 DEF Coming, ResultEvent, ModelEvent
  <2> QED
    BY <2>1, <2>2, <2>3
<1>12. run'[Main].at = run[Main].at /\ run'[Main].msg = run[Main].msg /\ run'[Main].calls = run[Main].calls
       /\ DOMAIN run'[Main].tools = DOMAIN run[Main].tools
  BY <1>0, <1>1, <1>3, <1>4, <1>7
<1>13. SubsInv'
  <2>1. ASSUME NEW s \in Subs, run'[s].at \in Active
        PROVE  s \notin R /\ run[s].at \in Active /\ run'[s].parent = run[s].parent
    <3>1. s \notin R
      BY <1>5, <2>1 DEF Active
    <3> QED
      BY <1>0, <1>1, <1>3, <1>7, <2>1, <3>1
  <2>2. ASSUME NEW s \in Subs, run'[s].at \in Active
        PROVE  /\ run[Main].at = "tools" /\ run[s].parent \in DOMAIN run[Main].tools
               /\ run'[Main].tools[run[s].parent] = "sub"
    <3>1. /\ run[Main].at = "tools" /\ run[s].parent \in DOMAIN run[Main].tools
          /\ run[Main].tools[run[s].parent] = "sub"
      BY <1>0, <1>1, <2>1, <2>2 DEF SubsInv
    <3>2. CASE n = Main
      <4>1. run[s].parent # c
        <5> SUFFICES ASSUME run[s].parent = c PROVE FALSE
          OBVIOUS
        <5>1. PICK t \in R : TRUE
          BY <1>1, <3>1, <3>2
        <5>2. t \in Subs /\ run[t].at \in Active /\ run[t].parent = c
          BY <1>0, <1>5 DEF Active, States
        <5> QED
          BY <1>0, <1>1, <2>1, <2>2, <5>1, <5>2 DEF SubsInv
      <4> QED
        BY <1>4, <1>7, <3>1, <3>2, <4>1
    <3>3. CASE n # Main
      BY <1>0, <1>7, <3>1, <3>3
    <3> QED
      BY <3>1, <3>2, <3>3
  <2>3. ASSUME NEW s \in Subs, NEW t \in Subs, run'[s].at \in Active, run'[t].at \in Active,
               run'[s].parent = run'[t].parent
        PROVE  s = t
    BY <1>0, <1>1, <2>1, <2>3 DEF SubsInv
  <2>4. run'[Main].at \in Active
    BY <1>0, <1>1, <1>12 DEF SubsInv
  <2> QED
    BY <1>12, <2>1, <2>2, <2>3, <2>4 DEF SubsInv
<1>14. Asking => Asking'
  <2>1. ASSUME NEW m \in Spaces, NEW d \in DOMAIN run[m].tools, run[m].tools[d] = "asks"
        PROVE  d \in DOMAIN run'[m].tools /\ run'[m].tools[d] = "asks"
    <3>1. CASE m = n
      BY <1>1, <1>4, <1>7, <2>1, <3>1
    <3>2. CASE m \in R
      BY <1>5, <2>1, <3>2
    <3>3. CASE m # n /\ m \notin R
      BY <1>7, <2>1, <3>3
    <3> QED
      BY <3>1, <3>2, <3>3
  <2> QED
    BY <2>1 DEF Asking
<1>15. LatestInv'
  BY <1>0, <1>1, <1>12 DEF LatestInv
<1>16. ASSUME NEW m \in Spaces, NEW e \in Coming(m)'
       PROVE  /\ Fits(disp, queue, m, e, Len(queue) + 1)
              /\ x.kind # "interrupt" /\ x.ns = m => Before(x, e)
  BY <1>0, <1>1, <1>2, <1>11, <1>16 DEF LineInv
<1>17. \A d \in DOMAIN run'[Main].tools : run'[Main].tools[d] = "done" =>
          (d \in DOMAIN run[Main].tools /\ run[Main].tools[d] = "done") \/ x = ResultEvent(Main, d)
  <2>1. CASE n = Main
    BY <1>4, <1>7, <2>1 DEF x
  <2>2. CASE n # Main
    BY <1>0, <1>7, <2>2
  <2> QED
    BY <2>1, <2>2
<1>18. Asking => Asking' /\ ResultOnly(x)
  BY <1>2, <1>14 DEF ResultOnly
<1> QED
  BY <1>0, <1>1, <1>2, <1>10, <1>11, <1>12, <1>13, <1>15, <1>16, <1>17, <1>18, Sent

LEMMA CallAsksKeeps ==
  ASSUME IInv, NEW n \in Spaces, NEW c \in DOMAIN run[n].tools, CallAsks(n, c)
  PROVE  IInv'
<1> DEFINE r == [run[n] EXCEPT !.tools[c] = "asks"]
           x == [kind |-> "interrupt", ns |-> n]
<1>0. /\ TurnTypeOK /\ SubsInv /\ LatestInv /\ LineInv /\ Main \in Spaces /\ next \in Nat
      /\ queue \in Seq(Events) /\ IsRun(run[n])
  BY DEF IInv, TurnTypeOK, Spaces
<1>1. /\ Running /\ run[n].at = "tools" /\ UNCHANGED <<phase, disp, next, added>> /\ Sending(x)
      /\ run[n].tools[c] = "run" /\ run' = [run EXCEPT ![n].tools[c] = "asks"]
  BY DEF CallAsks, Emit, Sending
<1>2. x \in Events /\ x.kind = "interrupt" /\ x.ns = n
  BY DEF Events, Interrupts
<1>3. /\ r = [f \in RunFields |-> r[f]] /\ r.at = "tools" /\ r.msg = run[n].msg
      /\ r.parts = run[n].parts /\ r.calls = run[n].calls /\ r.parent = run[n].parent
      /\ r.tools = [run[n].tools EXCEPT ![c] = "asks"]
  BY <1>0, <1>1 DEF IsRun, RunFields
<1>4. /\ DOMAIN r.tools = DOMAIN run[n].tools /\ r.tools[c] = "asks"
      /\ \A d \in DOMAIN run[n].tools : d # c => r.tools[d] = run[n].tools[d]
  BY <1>3
<1>5. run' = [run EXCEPT ![n] = r]
  BY <1>1
<1> HIDE DEF r, x
<1>6. IsRun(r)
  BY <1>0, <1>1, <1>3, <1>4 DEF IsRun
<1>7. queue' \in Seq(Events)
  BY <1>0, <1>1, <1>2, Appended DEF Sending
<1>8. TurnTypeOK' /\ run'[n] = r /\ \A m \in Spaces : m # n => run'[m] = run[m]
  BY <1>0, <1>1, <1>5, <1>6, <1>7, OneRuns DEF TurnTypeOK
<1>9. ASSUME NEW m \in Spaces
      PROVE  /\ Coming(m)' = Coming(m) /\ run'[m].msg = run[m].msg
             /\ run'[m].at = "model" => run[m].at = "model" /\ ModelEvent(m)' = ModelEvent(m)
             /\ DOMAIN run'[m].tools = DOMAIN run[m].tools
  <2>1. CASE m = n
    BY <1>1, <1>3, <1>4, <1>8, <2>1 DEF Coming, ResultEvent
  <2>2. CASE m # n
    BY <1>8, <2>2 DEF Coming, ResultEvent, ModelEvent
  <2> QED
    BY <2>1, <2>2
<1>10. SubsInv'
  <2>1. n = Main => /\ run'[Main].at = "tools"
                    /\ \A d \in DOMAIN run[Main].tools : run[Main].tools[d] = "sub" =>
                         d \in DOMAIN run'[Main].tools /\ run'[Main].tools[d] = "sub"
    BY <1>1, <1>3, <1>4, <1>8
  <2> QED
    BY <1>0, <1>1, <1>3, <1>8, <2>1, SubsStay DEF Active, States
<1>11. Asking'
  BY <1>4, <1>8 DEF Asking
<1>12. LatestInv'
  <2>1. CASE n = Main
    BY <1>0, <1>1, <1>3, <1>8, <2>1 DEF LatestInv
  <2>2. CASE n # Main
    BY <1>0, <1>1, <1>8, <2>2, LatestStays
  <2> QED
    BY <2>1, <2>2
<1>13. ASSUME NEW m \in Spaces, NEW e \in Coming(m)'
       PROVE  /\ Fits(disp, queue, m, e, Len(queue) + 1)
              /\ x.kind # "interrupt" /\ x.ns = m => Before(x, e)
  BY <1>0, <1>1, <1>2, <1>9, <1>13 DEF LineInv
<1>14. \A d \in DOMAIN run'[Main].tools :
         d \in DOMAIN run[Main].tools /\ (run'[Main].tools[d] = "done" => run[Main].tools[d] = "done")
  <2>1. CASE n = Main
    BY <1>4, <1>8, <2>1
  <2>2. CASE n # Main
    BY <1>0, <1>8, <2>2
  <2> QED
    BY <2>1, <2>2
<1>15. ResultOnly(x)
  BY <1>2 DEF ResultOnly
<1> QED
  BY <1>0, <1>1, <1>2, <1>8, <1>9, <1>10, <1>11, <1>12, <1>13, <1>14, <1>15, Sent

\* Every step of the graph keeps the invariant.
LEMMA GraphKeeps ==
  ASSUME IInv, NEW n \in Spaces, GraphStep(n)
  PROVE  IInv'
BY CallModelKeeps, ChunkKeeps, ModelDoneKeeps, ModelFailsKeeps, WakeKeeps, CommitKeeps,
   CallDoneKeeps, CallAsksKeeps, DelegateKeeps DEF GraphStep

-----------------------------------------------------------------------------
(* The dispatcher takes an event *)

First == Head(queue)
Taking == phase = "stream" /\ queue # <<>> /\ First.kind # "interrupt"

\* The first event of the queue has its place, and what is to have streamed has.
LEMMA FirstFits ==
  ASSUME IInv, Taking
  PROVE  /\ First \in Drawable /\ First.ns \in Spaces /\ First = queue[1] /\ 1 \in DOMAIN queue
         /\ 1 \in Of(queue, First.ns) /\ EventId(First) \in Nat \ {0}
         /\ First.kind \in {"chunk", "model", "result"}
         /\ disp.stream[First.ns] \in Streams
         /\ Fits(disp, queue, First.ns, First, 1)
         /\ First.kind # "result" =>
              IF SoFar(First).parts = 0 THEN disp.stream[First.ns].msg # First.id
              ELSE disp.stream[First.ns] = SoFar(First)
         /\ First.kind = "model" => First.parts \in {0, MaxParts}
         /\ First.kind = "result" /\ First.ns = Main => Headed(First.call, 1)
<1>0. /\ queue \in Seq(Events) /\ LineInv /\ ChainInv /\ HeadersInv /\ IsDisplay(disp)
      /\ Running /\ phase = "stream" /\ queue # <<>> /\ First.kind # "interrupt"
  BY DEF IInv, TurnTypeOK, Taking, Running
<1>1. First = queue[1] /\ queue[1] \in Events /\ 1 \in DOMAIN queue /\ DOMAIN queue = 1..Len(queue)
      /\ Len(queue) \in Nat
  BY <1>0, Taken DEF First
<1>2. /\ First \in Drawable /\ First.ns \in Spaces /\ EventId(First) \in Nat \ {0}
      /\ First.kind \in {"chunk", "model", "result"}
  BY <1>0, <1>1, EventKinds
<1>3. 1 \in Of(queue, First.ns)
  BY <1>0, <1>1 DEF Of
<1>4. Fits(disp, queue, First.ns, First, 1)
  BY <1>0, <1>1, <1>2, <1>3 DEF LineInv
<1>5. disp.stream[First.ns] \in Streams
  BY <1>0, <1>2 DEF IsDisplay
<1>6. ASSUME First.kind # "result"
      PROVE  IF SoFar(First).parts = 0 THEN disp.stream[First.ns].msg # First.id
             ELSE disp.stream[First.ns] = SoFar(First)
  <2>1. Arrived(disp, queue, First.ns, SoFar(First), 1)
    BY <1>0, <1>1, <1>2, <1>3, <1>6 DEF ChainInv
  <2>2. \A i \in DOMAIN queue : ~(i < 1)
    BY <1>1
  <2>3. SoFar(First).msg = First.id
    BY DEF SoFar
  <2> QED
    BY <2>1, <2>2, <2>3 DEF Arrived
<1>7. First.kind = "model" => First.parts \in {0, MaxParts}
  BY <1>0, <1>1, <1>2, <1>3 DEF ChainInv
<1>8. First.kind = "result" /\ First.ns = Main => Headed(First.call, 1)
  BY <1>0, <1>1, <1>3 DEF HeadersInv
<1> QED
  BY <1>1, <1>2, <1>3, <1>4, <1>5, <1>6, <1>7, <1>8

\* What it draws has been on no screen, and is of its namespace and no later message.
LEMMA FirstDraws ==
  ASSUME IInv, Taking, NEW x \in Drawings(disp, First)
  PROVE  /\ x[1] \notin Heads(disp) /\ x[1][1] \in IdsOf(First.ns) /\ x[1][1] \in Nat \ {0}
         /\ x[1][1] <= EventId(First)
         /\ First.kind = "chunk" => x[1][1] < EventId(First)
         /\ x[1][2] # 0 => First.kind = "result" /\ x[1] = First.call
         /\ x[1][2] # 0 => x[1][1] = EventId(First)
<1>0. /\ First \in Drawable /\ First.ns \in Spaces /\ First = queue[1]
      /\ 1 \in Of(queue, First.ns) /\ EventId(First) \in Nat \ {0}
      /\ First.kind \in {"chunk", "model", "result"}
      /\ disp.stream[First.ns] \in Streams
      /\ Fits(disp, queue, First.ns, First, 1)
  BY FirstFits
<1> DEFINE m == disp.stream[First.ns].msg
<1>1. m \in Nat /\ (m # 0 => m <= EventId(First))
  BY <1>0 DEF Streams, Fits
<1>2. m \in IdsOf(First.ns) /\ EventId(First) \in IdsOf(First.ns)
  BY <1>0 DEF IdsOf
<1>3. CASE x \notin Own(disp, First)
  <2>1. First.ns \in Closed(disp, First) /\ x = Gathered(disp, First.ns)
    BY <1>3 DEF Drawings, Closed, Open
  <2>2. m # 0 /\ x[1] = <<m, 0>> /\ x[1][1] = m /\ x[1][2] = 0
    BY <2>1 DEF Closed, Open, Gathered, AI
  <2>3. Untouched(disp, m)
    BY <1>0, <2>2 DEF IInv, LineInv, Taking, Running
  <2>4. First.kind = "chunk" => m # EventId(First)
    BY <2>1 DEF Closed, EventId
  <2>5. x[1] \notin Heads(disp)
    BY <2>2, <2>3 DEF Untouched
  <2> HIDE DEF m
  <2> QED
    BY <1>0, <1>1, <1>2, <2>2, <2>4, <2>5
<1>4. CASE x \in Own(disp, First)
  <2>1. CASE First.kind = "model"
    <3>1. x[1] = <<First.id, 0>> /\ EventId(First) = First.id
      BY <1>4, <2>1 DEF Own, AI, EventId
    <3>2. Untouched(disp, First.id)
      BY <1>0, <2>1 DEF Fits
    <3>3. x[1] \notin Heads(disp)
      BY <3>1, <3>2 DEF Untouched
    <3> QED
      BY <1>0, <1>2, <2>1, <3>1, <3>3
  <2>2. CASE First.kind = "result"
    <3>1. x[1] = First.call /\ First.call \notin disp.rendered /\ EventId(First) = First.call[1]
      BY <1>4, <2>2 DEF Own, EventId
    <3>2. First.call \notin Heads(disp)
      BY <1>0, <2>2, <3>1 DEF Fits
    <3> QED
      BY <1>0, <1>2, <2>2, <3>1, <3>2
  <2>3. CASE First.kind = "chunk"
    BY <1>4, <2>3 DEF Own
  <2> QED
    BY <1>0, <2>1, <2>2, <2>3
<1> QED
  BY <1>3, <1>4

\* It draws a message with all its parts and leaves its calls pending; a result of
\* the agent's comes under its header.
LEMMA FirstShows ==
  ASSUME IInv, Taking
  PROVE  /\ First.kind = "model" => /\ <<AI(First.id), First.parts>> \in Drawings(disp, First)
                                    /\ First.calls \subseteq NewHeaders(disp, First)
         /\ First.kind = "result" /\ First.ns = Main =>
              <<First.call, 1>> \in DOMAIN disp.shown \cup Drawings(disp, First)
<1>0. /\ First \in Drawable /\ First.ns \in Spaces
      /\ disp.stream[First.ns] \in Streams
      /\ Fits(disp, queue, First.ns, First, 1) /\ disp.rendered \subseteq Heads(disp)
      /\ First.kind = "model" => First.parts \in {0, MaxParts}
      /\ First.kind # "result" =>
           IF SoFar(First).parts = 0 THEN disp.stream[First.ns].msg # First.id
           ELSE disp.stream[First.ns] = SoFar(First)
      /\ First.kind = "result" /\ First.ns = Main => Headed(First.call, 1)
      /\ 1 \in DOMAIN queue /\ DOMAIN queue = 1..Len(queue)
  <2>1. disp.rendered \subseteq Heads(disp)
    BY DEF IInv, RenderedInv, Running, Taking
  <2>2. DOMAIN queue = 1..Len(queue)
    BY LenProperties DEF IInv, TurnTypeOK
  <2> QED
    BY <2>1, <2>2, FirstFits
<1>1. CASE First.kind = "model"
  <2> DEFINE s == disp.stream[First.ns]
             G == {AI(disp.stream[n].msg) : n \in Closed(disp, First)}
  <2>1. AI(First.id) \notin disp.rendered
    BY <1>0, <1>1 DEF Fits, Untouched, AI
  <2>2. CASE AI(First.id) \in G
    <3>1. First.ns \in Closed(disp, First) /\ s.msg = First.id
      BY <1>1, <2>2 DEF Closed, Open, AI
    <3>2. SoFar(First).parts # 0 /\ s = SoFar(First)
      BY <1>0, <1>1, <3>1
    <3>3. s.parts = First.parts /\ s.calls = First.calls
      BY <1>0, <1>1, <3>2 DEF SoFar
    <3>4. Gathered(disp, First.ns) = <<AI(First.id), First.parts>>
      BY <3>1, <3>3 DEF Gathered
    <3>5. First.calls \subseteq ClosedCalls(disp, First)
      BY <3>1, <3>3 DEF ClosedCalls
    <3> QED
      BY <1>1, <3>1, <3>4, <3>5 DEF Drawings, NewHeaders
  <2>3. CASE AI(First.id) \notin G
    <3>1. Own(disp, First) = {<<AI(First.id), First.parts>>}
      BY <1>1, <2>1, <2>3 DEF Own
    <3> QED
      BY <1>1, <3>1 DEF Drawings, NewHeaders
  <2> QED
    BY <1>1, <2>2, <2>3
<1>2. CASE First.kind = "result" /\ First.ns = Main
  <2>1. Headed(First.call, 1)
    BY <1>0, <1>2
  <2>2. CASE First.call \in Heads(disp)
    BY <1>2, <2>1, <2>2 DEF Headed
  <2>3. CASE First.call \notin Heads(disp)
    <3>1. HeaderComes(First.call, 1)
      BY <2>1, <2>3 DEF Headed
    <3>2. \A i \in DOMAIN queue : ~(i < 1)
      BY <1>0
    <3>3. First.call \in disp.headers
      BY <3>1, <3>2 DEF HeaderComes
    <3>4. First.call \notin disp.rendered
      BY <1>0, <2>3
    <3>5. Own(disp, First) = {<<First.call, 1>>}
      BY <1>2, <3>3, <3>4 DEF Own
    <3> QED
      BY <1>2, <3>5 DEF Drawings
  <2> QED
    BY <1>2, <2>2, <2>3
<1> QED
  BY <1>1, <1>2

LEMMA TakeFields ==
  ASSUME IInv, Take
  PROVE  /\ Taking /\ UNCHANGED <<phase, run, added, next>> /\ queue' = Tail(queue)
         /\ IsDisplay(disp')
         /\ disp'.stream = [disp.stream EXCEPT ![First.ns] = NewStream(disp, First)]
         /\ DOMAIN disp'.shown = DOMAIN disp.shown \cup Drawings(disp, First)
         /\ disp'.rendered = disp.rendered \cup {x[1] : x \in Drawings(disp, First)}
         /\ disp'.headers = NewHeaders(disp, First)
         /\ Once(disp'.shown)
         /\ Heads(disp') = Heads(disp) \cup {x[1] : x \in Drawings(disp, First)}
<1>1. /\ Taking /\ UNCHANGED <<phase, run, added, next>> /\ queue' = Tail(queue)
      /\ disp' = Process(disp, First)
  BY DEF Take, Taking, First
<1>2. IsDisplay(disp) /\ Once(disp.shown)
  BY DEF IInv, TurnTypeOK
<1>3. Effect(disp, First, disp')
  BY <1>1, <1>2, FirstFits, ProcessEffect
<1>4. \A x \in Drawings(disp, First) : x[1] \notin Heads(disp)
  BY <1>1, FirstDraws
<1> QED
  BY <1>1, <1>2, <1>3, <1>4 DEF Effect, Heads

\* Only a chunk leaves a stream behind, of its message.
LEMMA TakeStream ==
  ASSUME IInv, Take
  PROVE  /\ disp'.stream[First.ns] = NewStream(disp, First)
         /\ disp'.stream[First.ns].msg = IF First.kind = "chunk" THEN First.id ELSE 0
         /\ \A n \in Spaces : n # First.ns => disp'.stream[n] = disp.stream[n]
<1>0. /\ First.ns \in Spaces /\ First.kind \in {"chunk", "model", "result"}
      /\ disp'.stream = [disp.stream EXCEPT ![First.ns] = NewStream(disp, First)]
      /\ DOMAIN disp.stream = Spaces
  BY TakeFields, FirstFits DEF IInv, TurnTypeOK, IsDisplay
<1>1. NewStream(disp, First).msg = IF First.kind = "chunk" THEN First.id ELSE 0
  BY <1>0 DEF NewStream, Closed, Open, Quiet
<1> QED
  BY <1>0, <1>1

\* What fits behind the first event fits when that is taken.
LEMMA FitsTaken ==
  ASSUME IInv, Take, NEW n \in Spaces, NEW e, NEW j \in Nat, j > 1, Fits(disp, queue, n, e, j),
         EventId(e) \in Nat \ {0}, EventId(e) \in IdsOf(n)
  PROVE  Fits(disp', queue', n, e, j - 1)
<1>0. /\ Taking /\ queue \in Seq(Events) /\ queue # <<>> /\ queue' = Tail(queue)
      /\ ApartInv /\ RenderedInv /\ Running /\ First.ns \in Spaces
      /\ disp'.rendered = disp.rendered \cup {x[1] : x \in Drawings(disp, First)}
      /\ Heads(disp') = Heads(disp) \cup {x[1] : x \in Drawings(disp, First)}
  BY TakeFields, FirstFits DEF IInv, TurnTypeOK, Taking, Running
<1>1. \A i \in Of(queue', n) : i + 1 \in Of(queue, n) /\ queue'[i] = queue[i + 1] /\ i \in Nat
  <2>1. \A i \in DOMAIN Tail(queue) : i \in Nat
    BY <1>0, Taken
  <2> QED
    BY <1>0, <2>1, Taken DEF Of
<1>2. \A i \in Of(queue', n) : i < j - 1 => Before(queue'[i], e)
  BY <1>1 DEF Fits
<1>3. ASSUME n = First.ns
      PROVE  Before(First, e)
  BY <1>3, FirstFits, <1>0 DEF Fits
<1>4. n = First.ns => EventId(First) <= EventId(e)
  BY <1>3, FirstFits, <1>0 DEF Before
<1>5. disp'.stream[n].msg # 0 => disp'.stream[n].msg <= EventId(e)
  <2>1. CASE n = First.ns
    BY <1>4, <2>1, TakeStream DEF EventId
  <2>2. CASE n # First.ns
    BY <2>2, TakeStream DEF Fits
  <2> QED
    BY <2>1, <2>2
<1>6. CASE e.kind # "result"
  <2>1. EventId(e) = e.id /\ Untouched(disp, e.id)
    BY <1>6 DEF EventId, Fits
  <2>2. ASSUME NEW x \in Drawings(disp, First)
        PROVE  x[1][1] # e.id
    <3>1. /\ x[1][1] \in IdsOf(First.ns) /\ x[1][1] \in Nat \ {0} /\ x[1][1] <= EventId(First)
          /\ First.kind = "chunk" => x[1][1] < EventId(First)
      BY <1>0, <2>2, FirstDraws
    <3>2. CASE n # First.ns
      BY <1>0, <2>1, <3>1, <3>2 DEF ApartInv
    <3>3. CASE n = First.ns
      <4>1. EventId(First) < EventId(e) \/ First.kind = "chunk"
        BY <1>3, <1>6, <3>3 DEF Before
      <4>2. EventId(First) \in Nat
        BY <1>0, FirstFits
      <4> QED
        BY <1>4, <2>1, <3>1, <3>3, <4>1, <4>2
    <3> QED
      BY <3>2, <3>3
  <2>3. Untouched(disp', e.id)
    BY <1>0, <2>1, <2>2 DEF Untouched
  <2> QED
    BY <1>2, <1>5, <1>6, <2>3 DEF Fits
<1>7. CASE e.kind = "result"
  <2>1. e.call \in Heads(disp) => e.call \in disp.rendered
    BY <1>7 DEF Fits
  <2>2. e.call \in Heads(disp') => e.call \in disp'.rendered
    BY <1>0, <2>1
  <2> QED
    BY <1>2, <1>5, <1>7, <2>2 DEF Fits
<1> QED
  BY <1>6, <1>7

\* So does what has streamed before an event that is no result.
LEMMA ArrivedTaken ==
  ASSUME IInv, Take, NEW n \in Spaces, NEW e, NEW j \in Nat, j > 1, Fits(disp, queue, n, e, j),
         e.kind \in {"chunk", "model"}, e.id \in Nat \ {0},
         e.kind = "chunk" => e.part \in Nat, e.kind = "model" => e.parts \in Nat,
         Arrived(disp, queue, n, SoFar(e), j)
  PROVE  Arrived(disp', queue', n, SoFar(e), j - 1)
<1> DEFINE s == SoFar(e)
           h == First.ns
<1>0. /\ Taking /\ queue \in Seq(Events) /\ queue # <<>> /\ queue' = Tail(queue)
      /\ First = queue[1] /\ h \in Spaces /\ First \in Drawable
      /\ 1 \in Of(queue, h) /\ First.kind \in {"chunk", "model", "result"}
      /\ disp.stream[h] \in Streams
      /\ First.kind # "result" =>
           IF SoFar(First).parts = 0 THEN disp.stream[h].msg # First.id
           ELSE disp.stream[h] = SoFar(First)
      /\ Fits(disp, queue, h, First, 1)
  BY TakeFields, FirstFits DEF IInv, TurnTypeOK, Taking
<1>1. /\ \A i \in Of(queue', n) : i + 1 \in Of(queue, n) /\ queue'[i] = queue[i + 1] /\ i \in Nat
      /\ \A i \in DOMAIN queue : i > 1 => i - 1 \in DOMAIN queue' /\ queue'[i - 1] = queue[i]
      /\ \A i \in DOMAIN queue : i \in Nat \ {0}
  <2>1. /\ \A i \in DOMAIN Tail(queue) : i \in Nat
        /\ \A i \in DOMAIN queue : i \in Nat \ {0}
    BY <1>0, Taken
  <2>2. \A i \in DOMAIN queue : i > 1 => i - 1 \in DOMAIN queue' /\ queue'[i - 1] = queue[i]
    <3> SUFFICES ASSUME NEW i \in DOMAIN queue, i > 1
                 PROVE  i - 1 \in DOMAIN queue' /\ queue'[i - 1] = queue[i]
      OBVIOUS
    <3>1. DOMAIN queue = 1..Len(queue) /\ DOMAIN queue' = 1..(Len(queue) - 1) /\ Len(queue) \in Nat
      BY <1>0, Taken
    <3>2. i - 1 \in DOMAIN queue' /\ (i - 1) + 1 = i
      BY <3>1
    <3> QED
      BY <1>0, <3>2, Taken
  <2> QED
    BY <1>0, <2>1, <2>2, Taken DEF Of
<1>2. s.msg = e.id /\ e.id \in Nat \ {0} /\ EventId(e) = e.id
  BY DEF SoFar, EventId
<1>3. CASE s.parts = 0
  <2>1. /\ disp.stream[n].msg # e.id
        /\ \A i \in Of(queue, n) : i < j => ~(queue[i].kind = "chunk" /\ queue[i].id = e.id)
    BY <1>2, <1>3 DEF Arrived
  <2>2. disp'.stream[n].msg # e.id
    <3>1. CASE n = h
      BY <1>0, <1>2, <2>1, <3>1, TakeStream
    <3>2. CASE n # h
      BY <2>1, <3>2, TakeStream
    <3> QED
      BY <3>1, <3>2
  <2>3. \A i \in Of(queue', n) : i < j - 1 => ~(queue'[i].kind = "chunk" /\ queue'[i].id = e.id)
    BY <1>1, <2>1
  <2> QED
    BY <1>2, <1>3, <2>2, <2>3 DEF Arrived
<1>4. CASE s.parts # 0
  <2>0. disp.stream[n] = s \/ \E i \in DOMAIN queue : i < j /\ queue[i] = ChunkOf(n, s)
    BY <1>4 DEF Arrived
  <2>1. CASE \E i \in DOMAIN queue : i > 1 /\ i < j /\ queue[i] = ChunkOf(n, s)
    <3>1. PICK i \in DOMAIN queue : i > 1 /\ i < j /\ queue[i] = ChunkOf(n, s)
      BY <2>1
    <3>2. i - 1 \in DOMAIN queue' /\ queue'[i - 1] = ChunkOf(n, s) /\ i - 1 < j - 1
      BY <1>1, <3>1
    <3> QED
      BY <1>4, <3>2 DEF Arrived
  <2>2. CASE First = ChunkOf(n, s)
    <3>1. First.kind = "chunk" /\ h = n /\ First.id = s.msg /\ First.part = s.parts /\ First.calls = s.calls
      BY <2>2 DEF ChunkOf
    <3>2. s = [msg |-> s.msg, parts |-> s.parts, calls |-> s.calls]
      BY DEF SoFar
    <3>3. First.part \in Nat \ {0} /\ First.calls \subseteq Ids
      BY <1>0, <3>1, EventShape
    <3>4. SoFar(First).parts = First.part - 1 /\ SoFar(First).msg = First.id /\ SoFar(First).calls = {}
      BY <3>1 DEF SoFar
    <3>5. NewStream(disp, First) = [msg |-> First.id, parts |-> First.part, calls |-> First.calls]
      <4>1. CASE First.part - 1 = 0
        <5>1. disp.stream[h].msg # First.id /\ First.part = 1
          BY <1>0, <3>1, <3>3, <3>4, <4>1
        <5> QED
          BY <3>1, <5>1 DEF NewStream
      <4>2. CASE First.part - 1 # 0
        <5>1. disp.stream[h] = SoFar(First)
          BY <1>0, <3>1, <3>4, <4>2
        <5>2. /\ disp.stream[h].msg = First.id /\ disp.stream[h].parts + 1 = First.part
              /\ disp.stream[h].calls \cup First.calls = First.calls
          BY <3>3, <3>4, <5>1
        <5> QED
          BY <3>1, <5>2 DEF NewStream
      <4> QED
        BY <4>1, <4>2
    <3>6. disp'.stream[n] = s
      BY <3>1, <3>2, <3>5, TakeStream
    <3> QED
      BY <1>4, <3>6 DEF Arrived
  <2>3. CASE disp.stream[n] = s /\ n # h
    <3>1. disp'.stream[n] = s
      BY <2>3, TakeStream
    <3> QED
      BY <1>4, <3>1 DEF Arrived
  <2>4. CASE disp.stream[n] = s /\ n = h
    <3>1. disp.stream[h].msg = e.id /\ e.id <= EventId(First) /\ EventId(First) \in Nat \ {0}
      BY <1>0, <1>2, <2>4, FirstFits DEF Fits
    <3>2. Before(First, e)
      BY <1>0, <2>4 DEF Fits
    <3>3. /\ EventId(First) = e.id /\ First.kind = "chunk" /\ First.id = e.id
          /\ e.kind = "chunk" => First.part < e.part
          /\ e.kind = "model" => First.part <= e.parts
      BY <1>2, <3>1, <3>2 DEF Before, EventId
    <3>4. First.part \in Nat \ {0}
      BY <1>0, <3>3, EventShape
    <3>5. SoFar(First).parts = First.part - 1 /\ SoFar(First).msg = First.id
      BY <3>3 DEF SoFar
    <3>6. disp.stream[h] = SoFar(First)
      BY <1>0, <3>1, <3>3, <3>5
    <3>7. s.parts = First.part - 1
      BY <2>4, <3>5, <3>6
    <3>8. s.parts = IF e.kind = "chunk" THEN e.part - 1 ELSE e.parts
      BY DEF SoFar
    <3>9. FALSE
      BY <3>3, <3>4, <3>7, <3>8
    <3> QED
      BY <3>9
  <2>5. \A i \in DOMAIN queue : i = 1 \/ i > 1
    BY <1>1
  <2> QED
    BY <1>0, <2>0, <2>1, <2>2, <2>3, <2>4, <2>5
<1> QED
  BY <1>3, <1>4

\* A header that is pending, or comes, is still to come or above its result.
LEMMA HeadedTaken ==
  ASSUME IInv, Take, NEW c \in (Nat \ {0}) \X (Nat \ {0}), c[1] \in IdsOf(Main),
         NEW j \in Nat, j > 1, Headed(c, j)
  PROVE  Headed(c, j - 1)'
<1>0. /\ Taking /\ queue \in Seq(Events) /\ queue # <<>> /\ queue' = Tail(queue)
      /\ ApartInv /\ Running /\ First.ns \in Spaces /\ Main \in Spaces /\ First = queue[1]
      /\ DOMAIN disp'.shown = DOMAIN disp.shown \cup Drawings(disp, First)
      /\ disp'.headers = NewHeaders(disp, First)
      /\ Heads(disp') = Heads(disp) \cup {x[1] : x \in Drawings(disp, First)}
      /\ c[1] # 0 /\ c[2] # 0
  BY TakeFields, FirstFits DEF IInv, TurnTypeOK, Taking, Running, Spaces
<1>1. \A i \in DOMAIN queue : i = 1 \/ (i - 1 \in DOMAIN queue' /\ queue'[i - 1] = queue[i] /\ i \in Nat)
  <2> SUFFICES ASSUME NEW i \in DOMAIN queue, i # 1
               PROVE  i - 1 \in DOMAIN queue' /\ queue'[i - 1] = queue[i] /\ i \in Nat
    OBVIOUS
  <2>1. DOMAIN queue = 1..Len(queue) /\ DOMAIN queue' = 1..(Len(queue) - 1) /\ Len(queue) \in Nat
    BY <1>0, Taken
  <2>2. i - 1 \in DOMAIN queue' /\ (i - 1) + 1 = i /\ i \in Nat
    BY <2>1
  <2> QED
    BY <1>0, <2>2, Taken
<1>2. CASE c \in Heads(disp)
  <2>1. <<c, 1>> \in DOMAIN disp'.shown /\ c \in Heads(disp')
    BY <1>0, <1>2 DEF Headed
  <2> QED
    BY <2>1 DEF Headed
<1>3. CASE c \notin Heads(disp) /\ c \in Heads(disp')
  <2>1. PICK x \in Drawings(disp, First) : x[1] = c
    BY <1>0, <1>3
  <2>2. First.kind = "result" /\ c = First.call /\ c[1] = EventId(First) /\ c[1] \in IdsOf(First.ns)
    BY <1>0, <2>1, FirstDraws
  <2>3. First.ns = Main
    BY <1>0, <2>2 DEF ApartInv
  <2>4. <<c, 1>> \in DOMAIN disp'.shown
    BY <1>0, <2>2, <2>3, FirstShows
  <2> QED
    BY <1>3, <2>4 DEF Headed
<1>4. CASE c \notin Heads(disp')
  <2>1. c \notin Heads(disp) /\ HeaderComes(c, j)
    BY <1>0, <1>4 DEF Headed
  <2>2. First.kind = "result" /\ Own(disp, First) # {} => First.call # c
    <3> SUFFICES ASSUME First.kind = "result", Own(disp, First) # {}, First.call = c PROVE FALSE
      OBVIOUS
    <3>1. \E x \in Own(disp, First) : x[1] = c
      BY DEF Own
    <3> QED
      BY <1>0, <1>4, <3>1 DEF Drawings
  <2>3. CASE c \in disp.headers
    <3>1. c \in disp'.headers
      BY <1>0, <2>2, <2>3 DEF NewHeaders
    <3> QED
      BY <1>4, <3>1 DEF Headed, HeaderComes
  <2>4. CASE c \notin disp.headers
    <3>1. PICK i \in DOMAIN queue : i < j /\ queue[i].kind = "model" /\ queue[i].ns = Main /\ c \in queue[i].calls
      BY <2>1, <2>4 DEF HeaderComes
    <3>2. CASE i = 1
      <4>1. c \in disp'.headers
        BY <1>0, <3>1, <3>2, FirstShows
      <4> QED
        BY <1>4, <4>1 DEF Headed, HeaderComes
    <3>3. CASE i # 1
      <4>1. i - 1 \in DOMAIN queue' /\ queue'[i - 1] = queue[i] /\ i - 1 < j - 1
        BY <1>1, <3>1, <3>3
      <4> QED
        BY <1>4, <3>1, <4>1 DEF Headed, HeaderComes
    <3> QED
      BY <3>2, <3>3
  <2> QED
    BY <2>3, <2>4
<1> QED
  BY <1>2, <1>3, <1>4

LEMMA TakeKeeps ==
  ASSUME IInv, Take
  PROVE  IInv'
<1>0. /\ TurnTypeOK /\ LineInv /\ ChainInv /\ ApartInv /\ BoundInv /\ RenderedInv
      /\ SubsInv /\ AsksInv /\ AddedInv /\ DoneInv /\ HeadersInv /\ Running
      /\ phase = "stream" /\ queue \in Seq(Events) /\ queue # <<>> /\ next \in Nat /\ Main \in Spaces
  BY TakeFields DEF IInv, TurnTypeOK, Taking, Running, Spaces
<1>1. /\ Taking /\ phase' = phase /\ run' = run /\ added' = added /\ next' = next
      /\ queue' = Tail(queue) /\ IsDisplay(disp')
      /\ DOMAIN disp'.shown = DOMAIN disp.shown \cup Drawings(disp, First)
      /\ disp'.rendered = disp.rendered \cup {x[1] : x \in Drawings(disp, First)}
      /\ Once(disp'.shown)
      /\ Heads(disp') = Heads(disp) \cup {x[1] : x \in Drawings(disp, First)}
  BY TakeFields
<1>2. /\ queue' \in Seq(Events) /\ Len(queue) \in Nat \ {0} /\ Len(queue') = Len(queue) - 1
      /\ DOMAIN queue = 1..Len(queue) /\ DOMAIN queue' = 1..(Len(queue) - 1)
      /\ First = queue[1] /\ First \in Events /\ First.kind # "interrupt"
      /\ \A i \in DOMAIN queue' : i + 1 \in DOMAIN queue /\ queue'[i] = queue[i + 1]
      /\ \A n : \A i \in Of(queue', n) : i + 1 \in Of(queue, n) /\ queue'[i] = queue[i + 1]
  BY <1>0, <1>1, Taken DEF First, Taking
<1>3. \A i \in DOMAIN queue' : i \in Nat \ {0} /\ (i + 1) - 1 = i /\ i + 1 > 1 /\ i + 1 \in Nat
  BY <1>2
<1>4. \A i \in DOMAIN queue : i = 1 \/ (i > 1 /\ i - 1 \in DOMAIN queue' /\ queue'[i - 1] = queue[i])
  <2> SUFFICES ASSUME NEW i \in DOMAIN queue, i # 1
               PROVE  i > 1 /\ i - 1 \in DOMAIN queue' /\ queue'[i - 1] = queue[i]
    OBVIOUS
  <2>1. i > 1 /\ i - 1 \in DOMAIN queue' /\ (i - 1) + 1 = i
    BY <1>2
  <2> QED
    BY <1>2, <2>1
<1>5. TurnTypeOK'
  <2>1. \A n \in Spaces : IsRun(run[n])'
    BY <1>0, <1>1 DEF TurnTypeOK, IsRun
  <2> QED
    BY <1>0, <1>1, <1>2, <2>1 DEF TurnTypeOK
<1>6. ASSUME NEW n \in Spaces, NEW i \in Of(queue, n)
      PROVE  /\ EventId(queue[i]) \in IdsOf(n) /\ EventId(queue[i]) \in Nat \ {0} /\ queue[i] \in Events
             /\ queue[i].kind # "interrupt" /\ queue[i] \in Drawable
  <2>1. queue[i] \in Events /\ queue[i].kind # "interrupt"
    BY <1>0, ElementOfSeq, <1>2 DEF Of
  <2> QED
    BY <2>1, EventKinds DEF IdsOf
<1>7. LineInv'
  <2> SUFFICES ASSUME NEW n \in Spaces
               PROVE  /\ \A j \in Of(queue', n) : Fits(disp', queue', n, queue'[j], j)
                      /\ \A e \in Coming(n)' : Fits(disp', queue', n, e, Len(queue') + 1)
                      /\ disp'.stream[n].msg # 0 => Untouched(disp', disp'.stream[n].msg)
    BY DEF LineInv
  <2>1. ASSUME NEW j \in Of(queue', n)
        PROVE  Fits(disp', queue', n, queue'[j], j)
    <3> DEFINE k == j + 1
    <3>1. k \in Of(queue, n) /\ queue'[j] = queue[k] /\ k - 1 = j /\ k > 1 /\ k \in Nat
      BY <1>2, <1>3, <2>1 DEF Of
    <3> HIDE DEF k
    <3>2. Fits(disp, queue, n, queue[k], k)
      BY <1>0, <3>1 DEF LineInv
    <3>3. Fits(disp', queue', n, queue[k], k - 1)
      BY <1>6, <3>1, <3>2, FitsTaken
    <3> QED
      BY <3>1, <3>3
  <2>2. ASSUME NEW e \in Coming(n)'
        PROVE  Fits(disp', queue', n, e, Len(queue') + 1)
    <3> DEFINE k == Len(queue) + 1
    <3>1. e \in Coming(n)
      BY <1>1, <2>2 DEF Coming, ModelEvent, ResultEvent
    <3>2. Fits(disp, queue, n, e, k) /\ EventId(e) \in Nat \ {0} /\ EventId(e) \in IdsOf(n)
      BY <1>0, <3>1, ComingShape DEF LineInv, IdsOf
    <3>3. k > 1 /\ k \in Nat /\ Len(queue') + 1 = k - 1
      BY <1>2
    <3> HIDE DEF k
    <3>4. Fits(disp', queue', n, e, k - 1)
      BY <3>2, <3>3, FitsTaken
    <3> QED
      BY <3>3, <3>4
  <2>3. ASSUME disp'.stream[n].msg # 0
        PROVE  Untouched(disp', disp'.stream[n].msg)
    <3>1. CASE n = First.ns
      <4>1. First.kind = "chunk" /\ disp'.stream[n].msg = First.id /\ EventId(First) = First.id
        BY <2>3, <3>1, TakeStream DEF EventId
      <4>2. Untouched(disp, First.id) /\ First.id \in Nat
        BY <1>1, <4>1, FirstFits DEF Fits
      <4>3. \A x \in Drawings(disp, First) : x[1][1] # First.id
        BY <1>1, <4>1, <4>2, FirstDraws
      <4> QED
        BY <1>1, <4>1, <4>2, <4>3 DEF Untouched
    <3>2. CASE n # First.ns
      <4>1. disp'.stream[n].msg = disp.stream[n].msg /\ disp.stream[n].msg \in IdsOf(n)
        BY <3>2, TakeStream DEF IdsOf
      <4>2. Untouched(disp, disp.stream[n].msg)
        BY <1>0, <2>3, <4>1 DEF LineInv
      <4>3. \A x \in Drawings(disp, First) : x[1][1] # disp.stream[n].msg
        <5> SUFFICES ASSUME NEW x \in Drawings(disp, First), x[1][1] = disp.stream[n].msg PROVE FALSE
          OBVIOUS
        <5>1. x[1][1] \in IdsOf(First.ns) /\ First.ns \in Spaces
          BY <1>1, FirstDraws, FirstFits
        <5> QED
          BY <1>0, <2>3, <3>2, <4>1, <5>1 DEF ApartInv
      <4> QED
        BY <1>1, <4>1, <4>2, <4>3 DEF Untouched
    <3> QED
      BY <3>1, <3>2
  <2> QED
    BY <2>1, <2>2, <2>3
<1>8. ChainInv'
  <2> SUFFICES ASSUME NEW n \in Spaces
               PROVE  /\ \A j \in Of(queue', n) :
                           queue'[j].kind # "result" => Arrived(disp', queue', n, SoFar(queue'[j]), j)
                      /\ run[n].at = "model" => Arrived(disp', queue', n, SoFar(ModelEvent(n)), Len(queue') + 1)
                      /\ \A j \in Of(queue', n) : queue'[j].kind = "model" => queue'[j].parts \in {0, MaxParts}
    <3>1. \A n \in Spaces : ModelEvent(n)' = ModelEvent(n) /\ run'[n].at = run[n].at
      BY <1>1 DEF ModelEvent
    <3> QED
      BY <3>1 DEF ChainInv
  <2>1. ASSUME NEW j \in Of(queue', n), queue'[j].kind # "result"
        PROVE  Arrived(disp', queue', n, SoFar(queue'[j]), j)
    <3> DEFINE k == j + 1
    <3>1. k \in Of(queue, n) /\ queue'[j] = queue[k] /\ k - 1 = j /\ k > 1 /\ k \in Nat
      BY <1>2, <1>3, <2>1 DEF Of
    <3> HIDE DEF k
    <3> DEFINE e == queue[k]
    <3>2. Fits(disp, queue, n, e, k) /\ Arrived(disp, queue, n, SoFar(e), k)
      BY <1>0, <2>1, <3>1 DEF LineInv, ChainInv
    <3>3. /\ e.kind \in {"chunk", "model"} /\ e.id \in Nat \ {0}
          /\ e.kind = "chunk" => e.part \in Nat
          /\ e.kind = "model" => e.parts \in Nat
      BY <1>6, <2>1, <3>1, EventShape
    <3> HIDE DEF e
    <3>4. Arrived(disp', queue', n, SoFar(e), k - 1)
      BY <3>1, <3>2, <3>3, ArrivedTaken
    <3> QED
      BY <3>1, <3>4 DEF e
  <2>2. ASSUME run[n].at = "model"
        PROVE  Arrived(disp', queue', n, SoFar(ModelEvent(n)), Len(queue') + 1)
    <3> DEFINE k == Len(queue) + 1
               e == ModelEvent(n)
    <3>1. /\ e.kind = "model" /\ e.id \in Nat \ {0} /\ e.parts \in Nat
          /\ Fits(disp, queue, n, e, k) /\ Arrived(disp, queue, n, SoFar(e), k)
      BY <1>0, <2>2, AboutToSend DEF ModelEvent
    <3>2. k > 1 /\ k \in Nat /\ Len(queue') + 1 = k - 1
      BY <1>2
    <3> HIDE DEF k, e
    <3>3. Arrived(disp', queue', n, SoFar(e), k - 1)
      BY <3>1, <3>2, ArrivedTaken
    <3> QED
      BY <3>2, <3>3 DEF e
  <2>3. \A j \in Of(queue', n) : queue'[j].kind = "model" => queue'[j].parts \in {0, MaxParts}
    BY <1>0, <1>2 DEF ChainInv
  <2> QED
    BY <2>1, <2>2, <2>3
<1>9. QuietInv' /\ LatestInv' /\ RenderedInv'
  BY <1>0, <1>1 DEF QuietInv, LatestInv, RenderedInv
<1>10. ApartInv' /\ BoundInv'
  <2>1. ASSUME NEW n \in Spaces, NEW id \in IdsOf(n)'
        PROVE  id \in IdsOf(n) \cup {0}
    <3>1. \/ id = disp'.stream[n].msg \/ id = run[n].msg
          \/ \E i \in Of(queue', n) : id = EventId(queue'[i])
      BY <1>1, <2>1 DEF IdsOf
    <3>2. CASE \E i \in Of(queue', n) : id = EventId(queue'[i])
      BY <1>2, <3>2 DEF IdsOf
    <3>3. CASE id = disp'.stream[n].msg
      <4>1. CASE n = First.ns
        <5>1. id = 0 \/ (id = EventId(First) /\ 1 \in Of(queue, n))
          BY <1>1, <3>3, <4>1, TakeStream, FirstFits DEF EventId
        <5> QED
          BY <1>2, <5>1 DEF IdsOf
      <4>2. CASE n # First.ns
        BY <3>3, <4>2, TakeStream DEF IdsOf
      <4> QED
        BY <4>1, <4>2
    <3> QED
      BY <3>1, <3>2, <3>3 DEF IdsOf
  <2>2. ASSUME NEW x \in DOMAIN disp'.shown \cup added'
        PROVE  x \in DOMAIN disp.shown \cup added \/ \E n \in Spaces : x[1][1] \in IdsOf(n)
    <3>1. CASE x \in Drawings(disp, First)
      BY <1>1, <3>1, FirstDraws, FirstFits
    <3> QED
      BY <1>1, <3>1
  <2> QED
    BY <1>0, <1>1, <2>1, <2>2, ApartStays
<1>11. SubsInv'
  BY <1>0, <1>1 DEF SubsInv
<1>12. AsksInv'
  <2>1. ASSUME NEW i \in DOMAIN queue', queue'[i].kind = "interrupt"
        PROVE  Asking /\ \A j \in DOMAIN queue' : i < j => ResultOnly(queue'[j])
    <3>1. Asking /\ \A j \in DOMAIN queue : i + 1 < j => ResultOnly(queue[j])
      BY <1>0, <1>2, <2>1 DEF AsksInv
    <3>2. \A j \in DOMAIN queue' : i < j => i + 1 < j + 1
      BY <1>3
    <3> QED
      BY <1>2, <3>1, <3>2
  <2>2. Asking' <=> Asking
    BY <1>1 DEF Asking
  <2> QED
    BY <1>0, <1>1, <2>1, <2>2 DEF AsksInv, ResultOnly
<1>14. \A x : Draws(First, x) => x \in DOMAIN disp'.shown
  BY <1>1, FirstShows DEF Draws
<1>15. AddedInv'
  <2>1. ASSUME NEW x \in added, x \notin DOMAIN disp'.shown
        PROVE  ToCome(x)'
    <3>1. PICK i \in DOMAIN queue :
            Draws(queue[i], x) /\ \A j \in DOMAIN queue : j < i => queue[j].kind # "interrupt"
      BY <1>0, <1>1, <2>1 DEF AddedInv, ToCome
    <3>2. i # 1
      BY <1>2, <1>14, <2>1, <3>1
    <3>3. i - 1 \in DOMAIN queue' /\ queue'[i - 1] = queue[i] /\ i \in Nat
      BY <1>2, <1>4, <3>2
    <3>4. ASSUME NEW j \in DOMAIN queue', j < i - 1
          PROVE  queue'[j].kind # "interrupt"
      <4>1. j + 1 < i /\ j + 1 \in DOMAIN queue
        BY <1>2, <1>3, <3>3, <3>4
      <4> QED
        BY <1>2, <3>1, <4>1
    <3> QED
      BY <3>1, <3>3, <3>4 DEF ToCome, Draws
  <2> QED
    BY <1>0, <1>1, <2>1 DEF AddedInv
<1>16. DoneInv'
  <2>1. ASSUME NEW c \in DOMAIN run[Main].tools, run[Main].tools[c] = "done",
               <<c, 1>> \notin DOMAIN disp'.shown
        PROVE  \E i \in DOMAIN queue' : queue'[i] = ResultEvent(Main, c)
    <3>1. PICK i \in DOMAIN queue : queue[i] = ResultEvent(Main, c)
      BY <1>0, <1>1, <2>1 DEF DoneInv
    <3>2. i # 1
      BY <1>2, <1>14, <2>1, <3>1 DEF ResultEvent, Draws
    <3> QED
      BY <1>4, <3>1, <3>2
  <2> QED
    BY <1>1, <2>1 DEF DoneInv, ResultEvent
<1>17. HeadersInv'
  <2>1. ASSUME NEW c \in DOMAIN run[Main].tools, NEW k, k = Len(queue)
        PROVE  Headed(c, k)'
    <3>1. Headed(c, k + 1)
      BY <1>0, <2>1 DEF HeadersInv
    <3>2. c \in (Nat \ {0}) \X (Nat \ {0}) /\ c[1] \in IdsOf(Main)
      <4>1. IsRun(run[Main])
        BY <1>0 DEF TurnTypeOK
      <4>2. run[Main].msg \in Nat \ {0} /\ run[Main].calls \in Nat /\ c \in Calls(run[Main].msg, run[Main].calls)
        BY <4>1 DEF IsRun
      <4>3. c \in (Nat \ {0}) \X (Nat \ {0}) /\ c[1] = run[Main].msg
        BY <4>2 DEF Calls
      <4> QED
        BY <4>3 DEF IdsOf
    <3>3. k + 1 > 1 /\ k + 1 \in Nat /\ (k + 1) - 1 = k
      BY <1>2, <2>1
    <3>4. Headed(c, (k + 1) - 1)'
      BY <3>1, <3>2, <3>3, HeadedTaken
    <3> QED
      BY <3>3, <3>4
  <2>2. ASSUME NEW j \in Of(queue', Main), queue'[j].kind = "result", NEW c, c = queue'[j].call
        PROVE  Headed(c, j)'
    <3>1. /\ j + 1 \in Of(queue, Main) /\ queue'[j] = queue[j + 1] /\ (j + 1) - 1 = j
          /\ j + 1 > 1 /\ j + 1 \in Nat
      BY <1>2, <1>3, <2>2 DEF Of
    <3>2. Headed(c, j + 1)
      BY <1>0, <2>2, <3>1 DEF HeadersInv
    <3>3. c \in (Nat \ {0}) \X (Nat \ {0}) /\ c[1] \in IdsOf(Main)
      <4>1. /\ queue[j + 1] \in Drawable /\ EventId(queue[j + 1]) \in IdsOf(Main)
            /\ queue[j + 1].kind = "result" /\ queue[j + 1].call = c
        BY <1>0, <1>6, <2>2, <3>1
      <4> QED
        BY <4>1, EventShape DEF EventId
    <3>4. Headed(c, (j + 1) - 1)'
      BY <3>1, <3>2, <3>3, HeadedTaken
    <3> QED
      BY <3>1, <3>4
  <2>3. Len(queue') + 1 = Len(queue)
    BY <1>2
  <2> QED
    BY <1>0, <1>1, <2>1, <2>2, <2>3 DEF HeadersInv
<1> QED
  BY <1>1, <1>5, <1>7, <1>8, <1>9, <1>10, <1>11, <1>12, <1>15, <1>16, <1>17 DEF IInv

\* An interrupt forgets what streams, and draws nothing.
LEMMA InterruptedFields ==
  ASSUME NEW d, IsDisplay(d)
  PROVE  /\ IsDisplay(Interrupted(d)) /\ Interrupted(d).stream = [n \in Spaces |-> Quiet]
         /\ Interrupted(d).rendered = d.rendered /\ Interrupted(d).shown = d.shown
         /\ Interrupted(d).headers = d.headers
<1> DEFINE f == Interrupted(d)
<1>1. /\ f = [x \in DispFields |-> f[x]] /\ f.stream = [n \in Spaces |-> Quiet]
      /\ f.rendered = d.rendered /\ f.shown = d.shown /\ f.headers = d.headers
  BY DEF Interrupted, IsDisplay, DispFields, Blank
<1> HIDE DEF f
<1>2. f.stream \in [Spaces -> Streams]
  BY <1>1 DEF Quiet, Streams
<1>3. IsDisplay(f)
  BY <1>1, <1>2 DEF IsDisplay
<1> QED
  BY <1>1, <1>3 DEF f

LEMMA TakeInterruptKeeps ==
  ASSUME IInv, TakeInterrupt
  PROVE  IInv'
<1>0. /\ TurnTypeOK /\ LineInv /\ ApartInv /\ BoundInv /\ RenderedInv /\ SubsInv /\ AsksInv /\ AddedInv
      /\ HeadersInv /\ Once(disp.shown) /\ Running /\ Running' /\ next \in Nat /\ Main \in Spaces
      /\ phase = "stream" /\ phase' = "ask" /\ disp' = Interrupted(disp) /\ queue' = Tail(queue)
      /\ run' = run /\ added' = added /\ next' = next /\ queue \in Seq(Events) /\ queue # <<>>
      /\ Head(queue).kind = "interrupt"
  BY DEF IInv, TurnTypeOK, TakeInterrupt, Running, Spaces
<1>1. /\ IsDisplay(disp') /\ disp'.stream = [n \in Spaces |-> Quiet]
      /\ disp'.rendered = disp.rendered /\ disp'.shown = disp.shown /\ disp'.headers = disp.headers
      /\ Heads(disp') = Heads(disp) /\ \A n \in Spaces : disp'.stream[n].msg = 0
  <2>1. IsDisplay(disp)
    BY <1>0 DEF TurnTypeOK
  <2>2. /\ IsDisplay(disp') /\ disp'.stream = [n \in Spaces |-> Quiet]
        /\ disp'.rendered = disp.rendered /\ disp'.shown = disp.shown /\ disp'.headers = disp.headers
    BY <1>0, <2>1, InterruptedFields
  <2>3. Heads(disp') = Heads(disp)
    BY <2>2 DEF Heads
  <2>4. \A n \in Spaces : disp'.stream[n].msg = 0
    BY <2>2 DEF Quiet
  <2> QED
    BY <2>2, <2>3, <2>4
<1>2. /\ queue' \in Seq(Events) /\ Len(queue) \in Nat \ {0} /\ Len(queue') = Len(queue) - 1
      /\ DOMAIN queue = 1..Len(queue) /\ DOMAIN queue' = 1..(Len(queue) - 1)
      /\ queue[1].kind = "interrupt" /\ 1 \in DOMAIN queue
      /\ \A i \in DOMAIN queue' : i + 1 \in DOMAIN queue /\ queue'[i] = queue[i + 1]
      /\ \A n : \A i \in Of(queue', n) : i + 1 \in Of(queue, n) /\ queue'[i] = queue[i + 1]
  <2>1. /\ Tail(queue) \in Seq(Events) /\ Len(queue) \in Nat \ {0} /\ Len(Tail(queue)) = Len(queue) - 1
        /\ DOMAIN queue = 1..Len(queue) /\ DOMAIN Tail(queue) = 1..(Len(queue) - 1)
        /\ Head(queue) = queue[1]
        /\ \A i \in DOMAIN Tail(queue) : i + 1 \in DOMAIN queue /\ Tail(queue)[i] = queue[i + 1]
        /\ \A n : \A i \in Of(Tail(queue), n) : i + 1 \in Of(queue, n) /\ Tail(queue)[i] = queue[i + 1]
    BY <1>0, Taken
  <2>2. 1 \in DOMAIN queue
    BY <2>1
  <2>3. queue[1].kind = "interrupt"
    BY <1>0, <2>1
  <2> QED
    BY <1>0, <2>1, <2>2, <2>3
<1>3. Asking /\ \A i \in DOMAIN queue : i # 1 => ResultOnly(queue[i])
  BY <1>0, <1>2 DEF AsksInv
<1>4. TurnTypeOK'
  <2>1. \A n \in Spaces : IsRun(run[n])'
    BY <1>0 DEF TurnTypeOK, IsRun
  <2> QED
    BY <1>0, <1>1, <1>2, <2>1 DEF TurnTypeOK
<1>5. LineInv'
  <2>1. ASSUME NEW n \in Spaces, NEW e, NEW j \in Nat, Fits(disp, queue, n, e, j)
        PROVE  Fits(disp', queue', n, e, j - 1)
    <3>1. \A i \in Of(queue', n) : i < j - 1 => i + 1 < j
      BY <1>2 DEF Of
    <3>2. \A i \in Of(queue', n) : i < j - 1 => Before(queue'[i], e)
      BY <1>2, <2>1, <3>1 DEF Fits
    <3> QED
      BY <1>1, <2>1, <3>2 DEF Fits, Untouched
  <2>2. ASSUME NEW n \in Spaces, NEW j \in Of(queue', n)
        PROVE  Fits(disp', queue', n, queue'[j], j)
    <3> DEFINE k == j + 1
    <3>1. k \in Nat /\ k - 1 = j /\ k \in Of(queue, n) /\ queue'[j] = queue[k]
      BY <1>2, <2>2 DEF Of
    <3> HIDE DEF k
    <3>2. Fits(disp, queue, n, queue[k], k)
      BY <1>0, <3>1 DEF LineInv
    <3>3. Fits(disp', queue', n, queue[k], k - 1)
      BY <2>1, <3>1, <3>2
    <3> QED
      BY <3>1, <3>3
  <2>3. ASSUME NEW n \in Spaces, NEW e \in Coming(n)'
        PROVE  Fits(disp', queue', n, e, Len(queue') + 1)
    <3> DEFINE k == Len(queue) + 1
    <3>1. e \in Coming(n)
      BY <1>0, <2>3 DEF Coming, ModelEvent, ResultEvent
    <3>2. k \in Nat /\ k - 1 = Len(queue') + 1 /\ Fits(disp, queue, n, e, k)
      BY <1>0, <1>2, <3>1 DEF LineInv
    <3> HIDE DEF k
    <3>3. Fits(disp', queue', n, e, k - 1)
      BY <2>1, <3>2
    <3> QED
      BY <3>2, <3>3
  <2> QED
    BY <1>1, <2>2, <2>3 DEF LineInv
<1>6. ChainInv' /\ DoneInv' /\ LatestInv' /\ QuietInv'
  BY <1>0, <1>1 DEF ChainInv, DoneInv, LatestInv, QuietInv
<1>7. ApartInv' /\ BoundInv'
  <2>1. ASSUME NEW n \in Spaces, NEW id \in IdsOf(n)'
        PROVE  id \in IdsOf(n) \cup {0}
    <3>1. id = 0 \/ id = run[n].msg \/ \E i \in Of(queue', n) : id = EventId(queue'[i])
      BY <1>0, <1>1, <2>1 DEF IdsOf
    <3> QED
      BY <1>2, <3>1 DEF IdsOf
  <2>2. \A x \in DOMAIN disp'.shown \cup added' : x \in DOMAIN disp.shown \cup added
    BY <1>0, <1>1
  <2> QED
    BY <1>0, <2>1, <2>2, ApartStays
<1>8. RenderedInv' /\ SubsInv' /\ Once(disp.shown)'
  BY <1>0, <1>1 DEF RenderedInv, SubsInv
<1>9. AsksInv'
  <2>1. Asking'
    BY <1>0, <1>3 DEF Asking
  <2>2. \A j \in DOMAIN queue' : j + 1 # 1 /\ j + 1 \in DOMAIN queue
    BY <1>2
  <2>3. \A j \in DOMAIN queue' : ResultOnly(queue'[j])
    BY <1>2, <1>3, <2>2
  <2> QED
    BY <1>0, <2>1, <2>3 DEF AsksInv, ResultOnly
<1>10. AddedInv'
  <2>1. ASSUME NEW x \in added, ToCome(x)
        PROVE  FALSE
    <3>1. PICK i \in DOMAIN queue :
            Draws(queue[i], x) /\ \A j \in DOMAIN queue : j < i => queue[j].kind # "interrupt"
      BY <2>1 DEF ToCome
    <3>2. i = 1 \/ 1 < i
      BY <1>2
    <3>3. i # 1
      BY <1>2, <3>1 DEF Draws
    <3> QED
      BY <1>2, <3>1, <3>2, <3>3
  <2> QED
    BY <1>0, <1>1, <2>1 DEF AddedInv
<1>11. HeadersInv'
  <2>1. ASSUME NEW c \in DOMAIN run[Main].tools
        PROVE  IF c \in Heads(disp) THEN <<c, 1>> \in DOMAIN disp.shown ELSE c \in disp.headers
    <3>1. Headed(c, Len(queue) + 1)
      BY <1>0 DEF HeadersInv
    <3>2. \A i \in DOMAIN queue : ~(queue[i].kind = "model" /\ queue[i].ns = Main)
      BY <1>2, <1>3 DEF ResultOnly
    <3> QED
      BY <3>1, <3>2 DEF Headed, HeaderComes
  <2>2. \A c \in DOMAIN run[Main].tools : \A j : Headed(c, j)'
    <3> SUFFICES ASSUME NEW c \in DOMAIN run[Main].tools, NEW j PROVE Headed(c, j)'
      OBVIOUS
    <3>1. IF c \in Heads(disp') THEN <<c, 1>> \in DOMAIN disp'.shown ELSE c \in disp'.headers
      BY <1>1, <2>1
    <3>2. CASE c \in Heads(disp')
      BY <3>1, <3>2 DEF Headed
    <3>3. CASE c \notin Heads(disp')
      BY <3>1, <3>3 DEF Headed, HeaderComes
    <3> QED
      BY <3>2, <3>3
  <2> QED
    BY <1>0, <2>2 DEF HeadersInv
<1> QED
  BY <1>4, <1>5, <1>6, <1>7, <1>8, <1>9, <1>10, <1>11 DEF IInv

-----------------------------------------------------------------------------
(* The replay *)

\* A nonempty set of numbers below a bound has a greatest element.
LEMMA Greatest ==
  ASSUME NEW T \in SUBSET Nat, T # {}, NEW b \in Nat, \A k \in T : k <= b
  PROVE  \E m \in T : \A k \in T : k <= m
<1> DEFINE U == {m \in Nat : \A k \in T : k <= m}
<1>1. PICK m \in U : \A k \in U : ~(<<k, m>> \in OpToRel(<, Nat))
  <2>1. b \in U /\ U \in SUBSET Nat
    OBVIOUS
  <2> QED
    BY <2>1, NatLessThanWellFounded, WFMin, Zenon
<1>2. \A k \in U : ~(k < m)
  BY <1>1 DEF OpToRel
<1>3. m \in T
  <2> SUFFICES ASSUME m \notin T PROVE FALSE
    OBVIOUS
  <2>1. PICK k \in T : TRUE
    OBVIOUS
  <2>2. m - 1 \in U /\ m - 1 < m
    BY <2>1
  <2> QED
    BY <1>2, <2>2
<1> QED
  BY <1>3

LEMMA ReplayedShape ==
  ASSUME NEW e \in Replayed
  PROVE  \E n \in Spaces : \E c \in DOMAIN run[n].tools :
           run[n].tools[c] = "done" /\ e = ResultEvent(n, c)
BY DEF Replayed, ResultEvent

LEMMA Replays ==
  ASSUME NEW n \in Spaces, NEW c \in DOMAIN run[n].tools, run[n].tools[c] = "done"
  PROVE  ResultEvent(n, c) \in Replayed
BY DEF Replayed, ResultEvent

LEMMA ReplayedFinite ==
  ASSUME TurnTypeOK
  PROVE  IsFiniteSet(Replayed)
<1> DEFINE D(n) == {x \in DOMAIN run[n].tools : run[n].tools[x] = "done"}
           E(n) == {[kind |-> "result", ns |-> n, call |-> c] : c \in D(n)}
           f == [n \in Spaces |-> E(n)]
<1>1. IsFiniteSet(Spaces)
  BY TurnAssumption, FS_AddElement DEF Spaces
<1>2. ASSUME NEW n \in Spaces PROVE IsFiniteSet(E(n))
  <2>1. PICK id \in Nat, k \in Nat : DOMAIN run[n].tools \subseteq Calls(id, k)
    BY DEF TurnTypeOK, IsRun
  <2> DEFINE g == [i \in 1..k |-> <<id, i>>]
             h == [c \in D(n) |-> [kind |-> "result", ns |-> n, call |-> c]]
  <2>2. g \in Surjection(1..k, Calls(id, k))
    BY DEF Surjection, Calls
  <2>3. IsFiniteSet(Calls(id, k))
    BY <2>2, FS_Surjection, FS_Interval
  <2>4. D(n) \in SUBSET Calls(id, k)
    BY <2>1
  <2>5. IsFiniteSet(D(n))
    BY <2>3, <2>4, FS_Subset
  <2>6. h \in Surjection(D(n), E(n))
    BY DEF Surjection
  <2> QED
    BY <2>5, <2>6, FS_Surjection
<1>3. f \in Surjection(Spaces, {E(n) : n \in Spaces})
  BY DEF Surjection
<1>4. IsFiniteSet({E(n) : n \in Spaces})
  BY <1>1, <1>3, FS_Surjection
<1>5. IsFiniteSet(UNION {E(n) : n \in Spaces})
  BY <1>2, <1>4, FS_UNION
<1> QED
  BY <1>5 DEF Replayed

\* A sequence of a finite set has its elements, and no others.
LEMMA SeqOfSet ==
  ASSUME NEW S, IsFiniteSet(S), NEW q \in SetToSeqs(S)
  PROVE  /\ q \in Seq(S) /\ DOMAIN q = 1..Len(q)
         /\ \A e \in S : \E i \in DOMAIN q : q[i] = e
<1> DEFINE k == Cardinality(S)
<1>1. k \in Nat
  BY FS_CardinalityType
<1>2. q \in [1..k -> S] /\ \A i, j \in 1..k : i # j => q[i] # q[j]
  BY DEF SetToSeqs
<1> HIDE DEF k
<1>3. q \in Seq(S) /\ DOMAIN q = 1..Len(q)
  BY <1>1, <1>2
<1>4. q \in Injection(1..k, S)
  BY <1>2 DEF Injection, IsInjective
<1>5. IsFiniteSet(1..k) /\ Cardinality(1..k) = k
  BY <1>1, FS_Interval
<1>6. q \in Surjection(1..k, S)
  BY <1>4, <1>5, FS_Injection DEF k
<1> QED
  BY <1>2, <1>3, <1>6 DEF Surjection

\* An answer restarts what was cut, and puts the results that are kept in the queue.
LEMMA ResumedFields ==
  ASSUME NEW r, IsRun(r)
  PROVE  /\ IsRun(Resumed(r)) /\ Resumed(r).msg = r.msg /\ Resumed(r).parent = r.parent
         /\ Resumed(r).at = IF r.at \in {"model", "sleep"} THEN "gate" ELSE r.at
         /\ DOMAIN Resumed(r).tools = DOMAIN r.tools
         /\ \A c \in DOMAIN r.tools :
              Resumed(r).tools[c] = IF r.tools[c] = "asks" THEN "run" ELSE r.tools[c]
<1> DEFINE s == Resumed(r)
<1>1. /\ s = [f \in RunFields |-> s[f]] /\ s.msg = r.msg /\ s.parent = r.parent
      /\ s.parts = r.parts /\ s.calls = r.calls
      /\ s.at = IF r.at \in {"model", "sleep"} THEN "gate" ELSE r.at
      /\ s.tools = [c \in DOMAIN r.tools |-> IF r.tools[c] = "asks" THEN "run" ELSE r.tools[c]]
  BY DEF Resumed, IsRun, RunFields
<1>2. DOMAIN s.tools = DOMAIN r.tools
  BY <1>1
<1>3. s.at = "tools" <=> r.at = "tools"
  BY <1>1
<1> HIDE DEF s
<1>4. s.at \in States
  BY <1>1 DEF IsRun, States
<1>5. DOMAIN s.tools = IF s.at = "tools" THEN Calls(s.msg, s.calls) ELSE {}
  BY <1>1, <1>2, <1>3 DEF IsRun
<1>6. IsRun(s)
  BY <1>1, <1>4, <1>5 DEF IsRun
<1> QED
  BY <1>1, <1>2, <1>6 DEF s

LEMMA AnswerKeeps ==
  ASSUME IInv, Answer
  PROVE  IInv'
<1>0. /\ TurnTypeOK /\ LineInv /\ ApartInv /\ BoundInv /\ RenderedInv /\ SubsInv /\ AsksInv /\ AddedInv
      /\ HeadersInv /\ QuietInv /\ Once(disp.shown) /\ Running /\ Running' /\ next \in Nat
      /\ phase = "ask" /\ phase' = "stream" /\ queue' \in SetToSeqs(Replayed)
      /\ run' = [n \in Spaces |-> Resumed(run[n])] /\ Main \in Spaces
      /\ disp' = disp /\ added' = added /\ next' = next /\ queue \in Seq(Events)
  BY DEF IInv, TurnTypeOK, Answer, Running, Spaces
<1>1. /\ queue' \in Seq(Replayed) /\ DOMAIN queue' = 1..Len(queue') /\ Len(queue') \in Nat
      /\ \A e \in Replayed : \E i \in DOMAIN queue' : queue'[i] = e
      /\ \A i \in DOMAIN queue' : queue'[i] \in Replayed
  <2>1. /\ queue' \in Seq(Replayed) /\ DOMAIN queue' = 1..Len(queue')
        /\ \A e \in Replayed : \E i \in DOMAIN queue' : queue'[i] = e
    BY <1>0, ReplayedFinite, SeqOfSet
  <2>2. Len(queue') \in Nat
    BY <2>1, LenProperties
  <2>3. \A i \in DOMAIN queue' : queue'[i] \in Replayed
    BY <2>1, ElementOfSeq
  <2> QED
    BY <2>1, <2>2, <2>3
<1>2. ASSUME NEW n \in Spaces
      PROVE  /\ IsRun(run[n]) /\ IsRun(run'[n])
             /\ run'[n].msg = run[n].msg /\ run'[n].parent = run[n].parent
             /\ run'[n].at = IF run[n].at \in {"model", "sleep"} THEN "gate" ELSE run[n].at
             /\ DOMAIN run'[n].tools = DOMAIN run[n].tools
             /\ \A c \in DOMAIN run[n].tools :
                  run'[n].tools[c] = IF run[n].tools[c] = "asks" THEN "run" ELSE run[n].tools[c]
  <2>1. IsRun(run[n]) /\ run'[n] = Resumed(run[n])
    BY <1>0 DEF TurnTypeOK
  <2> QED
    BY <2>1, ResumedFields
<1>3. ASSUME NEW n \in Spaces, NEW c \in DOMAIN run[n].tools
      PROVE  /\ run[n].at = "tools" /\ c[1] = run[n].msg /\ c[1] \in Nat
             /\ c \in (Nat \ {0}) \X (Nat \ {0})
             /\ ResultEvent(n, c) \in Coming(n) /\ ResultEvent(n, c) \in Events
  <2>1. run[n].at = "tools" /\ c \in Calls(run[n].msg, run[n].calls)
        /\ run[n].msg \in Nat \ {0} /\ run[n].calls \in Nat
    BY <1>2 DEF IsRun
  <2>2. c[1] = run[n].msg /\ c \in (Nat \ {0}) \X (Nat \ {0})
    BY <2>1 DEF Calls
  <2>3. ResultEvent(n, c) \in Coming(n)
    BY <2>1 DEF Coming
  <2>4. ResultEvent(n, c) \in Events
    BY <1>0, <2>3, ComingShape
  <2> QED
    BY <2>1, <2>2, <2>3, <2>4
<1>4. ASSUME NEW i \in DOMAIN queue'
      PROVE  \E n \in Spaces : \E c \in DOMAIN run[n].tools :
               run[n].tools[c] = "done" /\ queue'[i] = ResultEvent(n, c)
  BY <1>1, ReplayedShape
<1>5. ASSUME NEW n \in Spaces, NEW i \in Of(queue', n)
      PROVE  /\ i \in DOMAIN queue' /\ queue'[i].kind = "result" /\ queue'[i] \in Coming(n)
             /\ queue'[i].call \in DOMAIN run[n].tools
             /\ EventId(queue'[i]) = run[n].msg /\ run[n].msg \in Nat
  <2>1. i \in DOMAIN queue' /\ queue'[i].ns = n
    BY DEF Of
  <2>2. PICK m \in Spaces : \E c \in DOMAIN run[m].tools :
          run[m].tools[c] = "done" /\ queue'[i] = ResultEvent(m, c)
    BY <1>4, <2>1
  <2>3. m = n
    BY <2>1, <2>2 DEF ResultEvent
  <2>4. PICK c \in DOMAIN run[n].tools : queue'[i] = ResultEvent(n, c)
    BY <2>2, <2>3
  <2>5. queue'[i].kind = "result" /\ queue'[i].call = c
    BY <2>4 DEF ResultEvent
  <2> QED
    BY <1>3, <2>1, <2>4, <2>5 DEF EventId
<1>6. \A n \in Spaces : disp.stream[n].msg = 0
  BY <1>0 DEF QuietInv
<1>7. TurnTypeOK'
  <2>1. \A i \in DOMAIN queue' : queue'[i] \in Events
    BY <1>3, <1>4
  <2>2. queue' \in Seq(Events)
    BY <1>1, <2>1
  <2> QED
    BY <1>0, <1>2, <2>2 DEF TurnTypeOK, IsDisplay
<1>8. LineInv'
  <2>1. ASSUME NEW n \in Spaces, NEW c \in DOMAIN run[n].tools, NEW j
        PROVE  Fits(disp, queue', n, ResultEvent(n, c), j)
    <3>1. Fits(disp, queue, n, ResultEvent(n, c), Len(queue) + 1)
      BY <1>0, <1>3 DEF LineInv
    <3>2. /\ ResultEvent(n, c).kind = "result" /\ EventId(ResultEvent(n, c)) = run[n].msg
          /\ ResultEvent(n, c).call \in Heads(disp) => ResultEvent(n, c).call \in disp.rendered
      BY <1>3, <3>1 DEF Fits, ResultEvent, EventId
    <3>3. \A i \in Of(queue', n) : Before(queue'[i], ResultEvent(n, c))
      BY <1>5, <3>2 DEF Before
    <3> QED
      BY <1>6, <3>2, <3>3 DEF Fits
  <2>2. ASSUME NEW n \in Spaces, NEW j \in Of(queue', n)
        PROVE  Fits(disp, queue', n, queue'[j], j)
    <3>1. PICK m \in Spaces : \E c \in DOMAIN run[m].tools : queue'[j] = ResultEvent(m, c)
      BY <1>4, <1>5
    <3>2. m = n
      BY <2>2, <3>1 DEF Of, ResultEvent
    <3>3. PICK c \in DOMAIN run[n].tools : queue'[j] = ResultEvent(n, c)
      BY <3>1, <3>2
    <3>4. Fits(disp, queue', n, ResultEvent(n, c), j)
      BY <2>1
    <3> QED
      BY <3>3, <3>4
  <2>3. ASSUME NEW n \in Spaces, NEW e \in Coming(n)', NEW j
        PROVE  Fits(disp, queue', n, e, j)
    <3>1. run'[n].at # "model"
      BY <1>2
    <3>2. \E c \in DOMAIN run[n].tools : e = ResultEvent(n, c)
      BY <1>2, <3>1, <2>3 DEF Coming, ResultEvent
    <3> QED
      BY <2>1, <3>2
  <2> QED
    BY <1>0, <1>6, <2>2, <2>3 DEF LineInv
<1>9. ChainInv' /\ QuietInv' /\ LatestInv' /\ RenderedInv' /\ Once(disp.shown)'
  <2>1. \A n \in Spaces : \A j \in Of(queue', n) : queue'[j].kind = "result"
    BY <1>5
  <2>2. \A n \in Spaces : run'[n].at # "model"
    BY <1>2
  <2>3. ChainInv'
    BY <2>1, <2>2 DEF ChainInv
  <2> QED
    BY <1>0, <2>3 DEF QuietInv, LatestInv, RenderedInv
<1>10. ApartInv' /\ BoundInv'
  <2>1. ASSUME NEW n \in Spaces, NEW id \in IdsOf(n)'
        PROVE  id \in IdsOf(n) \cup {0}
    <3>1. id = disp.stream[n].msg \/ id = run'[n].msg \/ \E i \in Of(queue', n) : id = EventId(queue'[i])
      BY <1>0, <2>1 DEF IdsOf
    <3>2. id = disp.stream[n].msg \/ id = run[n].msg
      BY <1>2, <1>5, <3>1
    <3> QED
      BY <3>2 DEF IdsOf
  <2>2. \A x \in DOMAIN disp'.shown \cup added' : x \in DOMAIN disp.shown \cup added
    BY <1>0
  <2> QED
    BY <1>0, <2>1, <2>2, ApartStays
<1>11. SubsInv'
  <2>1. \A n \in Spaces : run'[n].at \in Active <=> run[n].at \in Active
    BY <1>2 DEF Active, States
  <2>2. Subs \subseteq Spaces
    BY DEF Spaces
  <2>3. /\ run[Main].at \in Active
        /\ \A s \in Subs : run[s].at \in Active =>
             /\ run[Main].at = "tools" /\ run[s].parent \in DOMAIN run[Main].tools
             /\ run[Main].tools[run[s].parent] = "sub"
        /\ \A s, t \in Subs :
             run[s].at \in Active /\ run[t].at \in Active /\ run[s].parent = run[t].parent => s = t
    BY <1>0 DEF SubsInv
  <2>4. ASSUME NEW s \in Subs, run'[s].at \in Active
        PROVE  /\ run'[Main].at = "tools" /\ run'[s].parent \in DOMAIN run'[Main].tools
               /\ run'[Main].tools[run'[s].parent] = "sub"
    <3>1. run[s].at \in Active /\ run'[s].parent = run[s].parent
      BY <1>2, <2>1, <2>2, <2>4
    <3> QED
      BY <1>0, <1>2, <2>3, <3>1
  <2>5. ASSUME NEW s \in Subs, NEW t \in Subs,
               run'[s].at \in Active, run'[t].at \in Active, run'[s].parent = run'[t].parent
        PROVE  s = t
    BY <1>2, <2>1, <2>2, <2>3, <2>5
  <2> QED
    BY <1>0, <2>1, <2>3, <2>4, <2>5 DEF SubsInv
<1>12. AsksInv' /\ AddedInv'
  <2>1. \A i \in DOMAIN queue' : queue'[i].kind # "interrupt"
    BY <1>4 DEF ResultEvent
  <2>2. added' \subseteq DOMAIN disp'.shown
    BY <1>0 DEF AddedInv
  <2> QED
    BY <1>0, <2>1, <2>2 DEF AsksInv, AddedInv
<1>13. DoneInv'
  <2>1. ASSUME NEW c \in DOMAIN run'[Main].tools, run'[Main].tools[c] = "done"
        PROVE  \E i \in DOMAIN queue' : queue'[i] = ResultEvent(Main, c)
    <3>1. c \in DOMAIN run[Main].tools /\ run[Main].tools[c] = "done"
      BY <1>0, <1>2, <2>1
    <3>2. ResultEvent(Main, c) \in Replayed
      BY <1>0, <3>1, Replays
    <3> QED
      BY <1>1, <3>2
  <2> QED
    BY <2>1 DEF DoneInv, ResultEvent
<1>14. HeadersInv'
  <2>1. ASSUME NEW c \in DOMAIN run[Main].tools
        PROVE  IF c \in Heads(disp) THEN <<c, 1>> \in DOMAIN disp.shown ELSE c \in disp.headers
    <3>1. Headed(c, Len(queue) + 1)
      BY <1>0 DEF HeadersInv
    <3>2. \A i \in DOMAIN queue : ~(queue[i].kind = "model" /\ queue[i].ns = Main)
      BY <1>0 DEF AsksInv, ResultOnly
    <3> QED
      BY <3>1, <3>2 DEF Headed, HeaderComes
  <2>2. \A c \in DOMAIN run[Main].tools : \A j : Headed(c, j)'
    <3> SUFFICES ASSUME NEW c \in DOMAIN run[Main].tools, NEW j PROVE Headed(c, j)'
      OBVIOUS
    <3>1. IF c \in Heads(disp') THEN <<c, 1>> \in DOMAIN disp'.shown ELSE c \in disp'.headers
      BY <1>0, <2>1
    <3>2. CASE c \in Heads(disp')
      BY <3>1, <3>2 DEF Headed
    <3>3. CASE c \notin Heads(disp')
      BY <3>1, <3>3 DEF Headed, HeaderComes
    <3> QED
      BY <3>2, <3>3
  <2>3. DOMAIN run'[Main].tools = DOMAIN run[Main].tools
    BY <1>0, <1>2
  <2>4. \A j \in Of(queue', Main) : queue'[j].call \in DOMAIN run[Main].tools
    BY <1>0, <1>5
  <2> QED
    BY <2>2, <2>3, <2>4 DEF HeadersInv
<1> QED
  BY <1>7, <1>8, <1>9, <1>10, <1>11, <1>12, <1>13, <1>14 DEF IInv

-----------------------------------------------------------------------------
(* The end of a turn *)

\* Ids stay below the last one given out when a step names no new one.
LEMMA BoundStays ==
  ASSUME BoundInv, next' = next,
         \A n \in Spaces : \A id \in IdsOf(n)' : id \in IdsOf(n) \cup {0},
         0 \in 0..next,
         \A x \in DOMAIN disp'.shown \cup added' :
            x \in DOMAIN disp.shown \cup added \/ \E n \in Spaces : x[1][1] \in IdsOf(n)
  PROVE  BoundInv'
<1>1. \A n \in Spaces : IdsOf(n) \subseteq 0..next
  BY DEF BoundInv
<1>2. \A n \in Spaces : IdsOf(n)' \subseteq 0..next'
  BY <1>1
<1>3. \A x \in DOMAIN disp'.shown \cup added' : x[1][1] \in 0..next'
  BY <1>1 DEF BoundInv
<1> QED
  BY <1>2, <1>3 DEF BoundInv

\* When nothing runs, most of the invariant says nothing.
LEMMA NothingRuns ==
  ASSUME TurnTypeOK', BoundInv', Once(disp.shown)', phase' \in {"idle", "ended"},
         phase' = "ended" => added' \subseteq DOMAIN disp'.shown
  PROVE  IInv'
<1>1. ~Running' /\ phase' \notin {"stream", "invoke", "ask"}
  BY DEF Running
<1>2. LineInv' /\ ApartInv' /\ RenderedInv' /\ SubsInv'
  BY <1>1 DEF LineInv, ApartInv, RenderedInv, SubsInv
<1>3. ChainInv' /\ QuietInv' /\ AsksInv' /\ AddedInv'
  BY <1>1 DEF ChainInv, QuietInv, AsksInv, AddedInv
<1>4. DoneInv' /\ HeadersInv' /\ LatestInv'
  BY <1>1 DEF DoneInv, HeadersInv, LatestInv
<1> QED
  BY <1>2, <1>3, <1>4 DEF IInv

\* Every run of a turn that is over is off.
LEMMA OffIsRun ==
  /\ IsRun(Off) /\ IsRun([Off EXCEPT !.at = "over"]) /\ IsRun([Off EXCEPT !.at = "gate"])
  /\ Off.msg = 0 /\ [Off EXCEPT !.at = "over"].msg = 0 /\ [Off EXCEPT !.at = "gate"].msg = 0
  /\ DOMAIN Off.tools = {} /\ DOMAIN [Off EXCEPT !.at = "over"].tools = {}
  /\ DOMAIN [Off EXCEPT !.at = "gate"].tools = {}
  /\ Off.at = "off" /\ [Off EXCEPT !.at = "over"].at = "over" /\ [Off EXCEPT !.at = "gate"].at = "gate"
<1>1. DOMAIN Off.tools = {} /\ Off.at = "off" /\ Off.msg = 0 /\ Off.parts = 0 /\ Off.calls = 0
      /\ Off = [f \in RunFields |-> Off[f]]
  BY NoneCalled DEF Off, RunFields
<1> DEFINE o == [Off EXCEPT !.at = "over"]
           g == [Off EXCEPT !.at = "gate"]
<1>2. o = [f \in RunFields |-> o[f]] /\ o.at = "over" /\ o.msg = 0 /\ o.parts = 0 /\ o.calls = 0
      /\ o.tools = Off.tools
  BY DEF Off, RunFields
<1>3. g = [f \in RunFields |-> g[f]] /\ g.at = "gate" /\ g.msg = 0 /\ g.parts = 0 /\ g.calls = 0
      /\ g.tools = Off.tools
  BY DEF Off, RunFields
<1> HIDE DEF o, g
<1>4. IsRun(Off) /\ IsRun(o) /\ IsRun(g)
  BY <1>1, <1>2, <1>3 DEF IsRun, States
<1> QED
  BY <1>1, <1>2, <1>3, <1>4 DEF o, g

LEMMA StoppedFields ==
  /\ Stopped = [n \in Spaces |-> Stopped[n]]
  /\ \A n \in Spaces : IsRun(Stopped[n]) /\ Stopped[n].msg = 0 /\ DOMAIN Stopped[n].tools = {}
                       /\ Stopped[n].at \in {"off", "over"}
<1>1. Stopped = [n \in Spaces |-> Stopped[n]]
  BY DEF Stopped
<1>2. ASSUME NEW n \in Spaces PROVE Stopped[n] \in {Off, [Off EXCEPT !.at = "over"]}
  BY DEF Stopped
<1> QED
  BY <1>1, <1>2, OffIsRun

\* What still streams is finalized once, above nothing of its own.
LEMMA AllFinalized ==
  ASSUME IInv, Running
  PROVE  /\ IsDisplay(FinalizeAll(disp)) /\ Once(FinalizeAll(disp).shown)
         /\ \A n \in Spaces : FinalizeAll(disp).stream[n].msg = 0
         /\ DOMAIN disp.shown \subseteq DOMAIN FinalizeAll(disp).shown
         /\ \A x \in DOMAIN FinalizeAll(disp).shown :
              x \in DOMAIN disp.shown \/ \E n \in Spaces : x[1][1] \in IdsOf(n)
<1>0. IsDisplay(disp) /\ Once(disp.shown) /\ LineInv /\ ApartInv /\ Spaces \subseteq Spaces
  BY DEF IInv, TurnTypeOK
<1> DEFINE f == Finalize(disp, Spaces)
<1>1. /\ IsDisplay(f)
      /\ f.stream = [n \in Spaces |-> IF n \in Open(disp, Spaces) THEN Quiet ELSE disp.stream[n]]
      /\ DOMAIN f.shown = DOMAIN disp.shown \cup {Gathered(disp, n) : n \in Open(disp, Spaces)}
  BY <1>0, FinalizeFields
<1>2. \A n \in Open(disp, Spaces) : AI(disp.stream[n].msg) \notin Heads(disp)
  <2> TAKE n \in Open(disp, Spaces)
  <2>1. n \in Spaces /\ disp.stream[n].msg # 0
    BY DEF Open
  <2>2. Untouched(disp, disp.stream[n].msg)
    BY <1>0, <2>1 DEF LineInv
  <2> QED
    BY <2>2 DEF Untouched, AI
<1>3. \A m, n \in Open(disp, Spaces) : disp.stream[m].msg = disp.stream[n].msg => m = n
  <2> SUFFICES ASSUME NEW m \in Open(disp, Spaces), NEW n \in Open(disp, Spaces), m # n
               PROVE  disp.stream[m].msg # disp.stream[n].msg
    OBVIOUS
  <2>1. m \in Spaces /\ n \in Spaces /\ disp.stream[m].msg # 0
    BY DEF Open
  <2>2. IdsOf(m) \cap IdsOf(n) \subseteq {0}
    BY <1>0, <2>1 DEF ApartInv
  <2>3. disp.stream[m].msg \in IdsOf(m) /\ disp.stream[n].msg \in IdsOf(n)
    BY DEF IdsOf
  <2> QED
    BY <2>1, <2>2, <2>3
<1>4. Once(f.shown)
  BY <1>0, <1>2, <1>3, FinalizeOnce
<1> HIDE DEF f
<1>5. \A n \in Spaces : f.stream[n].msg = 0
  BY <1>1 DEF Open, Quiet
<1>6. \A n \in Spaces : Gathered(disp, n)[1][1] \in IdsOf(n)
  BY DEF Gathered, AI, IdsOf
<1>7. \A x \in DOMAIN f.shown : x \in DOMAIN disp.shown \/ \E n \in Spaces : x[1][1] \in IdsOf(n)
  BY <1>1, <1>6 DEF Open
<1> QED
  BY <1>1, <1>4, <1>5, <1>7 DEF f, FinalizeAll

LEMMA EndKeeps ==
  ASSUME IInv, End
  PROVE  IInv'
<1>0. /\ TurnTypeOK /\ BoundInv /\ AddedInv /\ Running /\ phase = "stream" /\ phase' = "ended"
      /\ disp' = FinalizeAll(disp) /\ queue = <<>> /\ next \in Nat
      /\ run' = run /\ queue' = queue /\ added' = added /\ next' = next
  BY DEF IInv, TurnTypeOK, End, Running
<1>1. /\ IsDisplay(disp') /\ Once(disp'.shown) /\ \A n \in Spaces : disp'.stream[n].msg = 0
      /\ DOMAIN disp.shown \subseteq DOMAIN disp'.shown
      /\ \A x \in DOMAIN disp'.shown : x \in DOMAIN disp.shown \/ \E n \in Spaces : x[1][1] \in IdsOf(n)
  BY <1>0, AllFinalized
<1>2. TurnTypeOK'
  BY <1>0, <1>1 DEF TurnTypeOK, IsRun
<1>3. BoundInv'
  <2>1. \A n \in Spaces : \A id \in IdsOf(n)' : id \in IdsOf(n) \cup {0}
    BY <1>0, <1>1 DEF IdsOf, Of
  <2>2. 0 \in 0..next
    BY <1>0
  <2> QED
    BY <1>0, <1>1, <2>1, <2>2, BoundStays
<1>4. added' \subseteq DOMAIN disp'.shown
  <2>1. \A x : ~ToCome(x)
    BY <1>0, NoneCalled DEF ToCome
  <2> QED
    BY <1>0, <1>1, <2>1 DEF AddedInv
<1> QED
  BY <1>0, <1>1, <1>2, <1>3, <1>4, NothingRuns

\* Without runs and without a queue only the display has ids.
LEMMA StoppedBound ==
  ASSUME BoundInv, next \in Nat, next' = next, run' = Stopped, queue' = <<>>, added' = added,
         \A n \in Spaces : disp'.stream[n].msg \in {disp.stream[n].msg, 0},
         \A x \in DOMAIN disp'.shown : x \in DOMAIN disp.shown \cup added
                                       \/ \E n \in Spaces : x[1][1] \in IdsOf(n)
  PROVE  BoundInv'
<1>1. ASSUME NEW n \in Spaces, NEW id \in IdsOf(n)'
      PROVE  id \in IdsOf(n) \cup {0}
  <2>1. run'[n].msg = 0 /\ Of(queue', n) = {}
    BY StoppedFields, NoneCalled DEF Of
  <2>2. id = disp'.stream[n].msg \/ id = 0
    BY <1>1, <2>1 DEF IdsOf
  <2> QED
    BY <2>2 DEF IdsOf
<1>2. 0 \in 0..next
  OBVIOUS
<1> QED
  BY <1>1, <1>2, BoundStays

\* Runs that are stopped have the type of runs.
LEMMA StoppedType ==
  ASSUME TurnTypeOK, IsDisplay(disp'), phase' = "idle", run' = Stopped, queue' \in Seq(Events),
         added' = added, next' = next
  PROVE  TurnTypeOK'
<1>1. run' = [n \in Spaces |-> run'[n]] /\ \A n \in Spaces : IsRun(run[n])'
  BY StoppedFields DEF IsRun
<1> QED
  BY <1>1 DEF TurnTypeOK

LEMMA CancelKeeps ==
  ASSUME IInv, Cancel
  PROVE  IInv'
<1>0. /\ TurnTypeOK /\ BoundInv /\ Running /\ phase' = "idle" /\ disp' = FinalizeAll(disp)
      /\ queue' = <<>> /\ run' = Stopped /\ added' = added /\ next' = next /\ next \in Nat
  BY DEF IInv, TurnTypeOK, Cancel, Running
<1>1. /\ IsDisplay(disp') /\ Once(disp'.shown) /\ \A n \in Spaces : disp'.stream[n].msg = 0
      /\ \A x \in DOMAIN disp'.shown : x \in DOMAIN disp.shown \/ \E n \in Spaces : x[1][1] \in IdsOf(n)
  BY <1>0, AllFinalized
<1>2. TurnTypeOK'
  BY <1>0, <1>1, StoppedType, EmptySeq
<1>3. BoundInv'
  BY <1>0, <1>1, StoppedBound
<1> QED
  BY <1>0, <1>1, <1>2, <1>3, NothingRuns

LEMMA FailKeeps ==
  ASSUME IInv, Fail
  PROVE  IInv'
<1>0. /\ TurnTypeOK /\ BoundInv /\ phase' = "idle" /\ disp' = disp /\ queue' = <<>> /\ run' = Stopped
      /\ added' = added /\ next' = next /\ next \in Nat /\ Once(disp.shown) /\ IsDisplay(disp')
  BY DEF IInv, TurnTypeOK, Fail, IsDisplay
<1>1. TurnTypeOK'
  BY <1>0, StoppedType, EmptySeq
<1>2. BoundInv'
  BY <1>0, StoppedBound
<1>3. Once(disp.shown)'
  BY <1>0
<1> QED
  BY <1>0, <1>1, <1>2, <1>3, NothingRuns

LEMMA CompressKeeps ==
  ASSUME IInv, Compress
  PROVE  IInv'
<1>0. /\ TurnTypeOK /\ BoundInv /\ phase' = "idle" /\ disp' = [disp EXCEPT !.due = FALSE]
      /\ queue' = queue /\ queue \in Seq(Events) /\ run' = Stopped
      /\ added' = added /\ next' = next /\ next \in Nat /\ Once(disp.shown) /\ IsDisplay(disp)
  BY DEF IInv, TurnTypeOK, Compress
<1>1. IsDisplay(disp') /\ disp'.shown = disp.shown /\ disp'.stream = disp.stream
  BY <1>0 DEF IsDisplay, DispFields
<1>2. TurnTypeOK'
  BY <1>0, <1>1, StoppedType
<1>3. BoundInv'
  <2>1. ASSUME NEW n \in Spaces, NEW id \in IdsOf(n)'
        PROVE  id \in IdsOf(n) \cup {0}
    <3>1. run'[n].msg = 0
      BY <1>0, StoppedFields
    <3> QED
      BY <1>0, <1>1, <2>1, <3>1 DEF IdsOf, Of
  <2>2. 0 \in 0..next
    BY <1>0
  <2> QED
    BY <1>0, <1>1, <2>1, <2>2, BoundStays
<1>4. Once(disp.shown)'
  BY <1>0, <1>1
<1> QED
  BY <1>0, <1>2, <1>3, <1>4, NothingRuns

\* Of the messages a turn added without a stream, one is the latest.
LEMMA LatestAdded ==
  ASSUME TurnTypeOK, BoundInv, LatestInv, phase = "invoke", added # {}
  PROVE  Latest \in added
<1>0. /\ added \subseteq (Nat \X Nat) \X Nat /\ next \in Nat /\ MaxCalls[Main] \in Nat
      /\ \A x \in added : x[1][1] \in 0..next
      /\ \A x \in added : x[1][2] <= MaxCalls[Main]
      /\ \A x, y \in added : x[1] = y[1] => x = y
  BY TurnAssumption DEF TurnTypeOK, BoundInv, LatestInv, Ids, Spaces
<1> DEFINE I == {x[1][1] : x \in added}
<1>1. PICK a \in I : \A k \in I : k <= a
  <2>1. I \in SUBSET Nat /\ I # {} /\ \A k \in I : k <= next
    BY <1>0
  <2> HIDE DEF I
  <2> QED
    BY <1>0, <2>1, Greatest
<1> DEFINE J == {x[1][2] : x \in {y \in added : y[1][1] = a}}
<1>2. PICK b \in J : \A k \in J : k <= b
  <2>1. J \in SUBSET Nat /\ J # {} /\ \A k \in J : k <= MaxCalls[Main]
    BY <1>0, <1>1
  <2> HIDE DEF J
  <2> QED
    BY <1>0, <2>1, Greatest
<1>3. PICK m \in added : m[1][1] = a /\ m[1][2] = b
  BY <1>2
<1>4. ASSUME NEW x \in added \ {m} PROVE Later(m[1], x[1])
  <2>1. /\ x[1] # m[1] /\ x[1] \in Nat \X Nat /\ m[1] \in Nat \X Nat
        /\ x[1][1] <= a /\ (x[1][1] = a => x[1][2] <= b)
    BY <1>0, <1>1, <1>2, <1>4
  <2>2. x[1][1] # m[1][1] \/ x[1][2] # m[1][2]
    BY <2>1
  <2> QED
    BY <1>3, <2>1, <2>2 DEF Later
<1> QED
  BY <1>3, <1>4 DEF Latest

LEMMA InvokedKeeps ==
  ASSUME IInv, Invoked
  PROVE  IInv'
<1>0. /\ TurnTypeOK /\ BoundInv /\ LatestInv /\ SubsInv /\ QuietInv /\ Running /\ Once(disp.shown)
      /\ phase = "invoke" /\ (run[Main].at = "end" \/ Halted)
      /\ phase' = "idle" /\ run' = Stopped /\ disp' = [disp EXCEPT !.shown = @ (+) SetToBag({Latest})]
      /\ queue = <<>> /\ queue' = queue /\ added' = added /\ next' = next /\ next \in Nat
      /\ IsDisplay(disp) /\ Main \in Spaces
  BY DEF IInv, TurnTypeOK, Invoked, Running, QuietInv, Spaces
<1>1. run[Main].at \in {"tools", "end"}
  <2>1. run[Main].at \in Active
    BY <1>0 DEF SubsInv
  <2>2. run[Main].at \notin {"off", "over"}
    BY <2>1 DEF Active
  <2> QED
    BY <1>0, <2>2 DEF Halted
<1>2. Latest \in added
  <2>1. added # {}
    BY <1>0, <1>1 DEF LatestInv
  <2> QED
    BY <1>0, <2>1, LatestAdded
<1>3. \A y \in DOMAIN disp.shown : y[1] # Latest[1]
  BY <1>0, <1>2 DEF LatestInv, Heads
<1>4. /\ disp' = [f \in DispFields |-> disp'[f]]
      /\ disp'.shown = disp.shown (+) SetToBag({Latest}) /\ disp'.stream = disp.stream
      /\ disp'.rendered = disp.rendered /\ disp'.headers = disp.headers
  BY <1>0 DEF IsDisplay, DispFields
<1>5. Once(disp.shown)' /\ DOMAIN disp'.shown = DOMAIN disp.shown \cup {Latest}
  <2>1. /\ Once(disp.shown (+) SetToBag({Latest}))
        /\ DOMAIN (disp.shown (+) SetToBag({Latest})) = DOMAIN disp.shown \cup {Latest}
    BY <1>0, <1>3, AddOnce
  <2> QED
    BY <1>4, <2>1
<1>6. Latest \in Ids \X Nat
  BY <1>0, <1>2 DEF TurnTypeOK
<1>7. IsDisplay(disp')
  BY <1>0, <1>4, <1>5, <1>6 DEF IsDisplay
<1>8. TurnTypeOK'
  BY <1>0, <1>7, StoppedType, EmptySeq
<1>9. BoundInv'
  BY <1>0, <1>2, <1>4, <1>5, StoppedBound
<1> QED
  BY <1>0, <1>5, <1>8, <1>9, NothingRuns

\* A turn starts with nothing that streams, runs or waits to be drawn.
LEMMA FreshFields ==
  ASSUME IsDisplay(disp)
  PROVE  /\ IsDisplay(Fresh) /\ Fresh.shown = disp.shown /\ Fresh.rendered = {}
         /\ \A n \in Spaces : Fresh.stream[n].msg = 0
<1> DEFINE f == Fresh
<1>1. /\ f = [x \in DispFields |-> f[x]] /\ f.stream = [n \in Spaces |-> Quiet]
      /\ f.rendered = {} /\ f.shown = disp.shown /\ f.headers = disp.headers
  BY DEF Fresh, Blank, DispFields
<1> HIDE DEF f
<1>2. f.stream \in [Spaces -> Streams] /\ \A n \in Spaces : f.stream[n].msg = 0
  BY <1>1 DEF Quiet, Streams
<1>3. IsDisplay(f)
  BY <1>1, <1>2 DEF IsDisplay
<1> QED
  BY <1>1, <1>2, <1>3 DEF f

LEMMA DispatchKeeps ==
  ASSUME IInv, Dispatch
  PROVE  IInv'
<1>0. /\ TurnTypeOK /\ BoundInv /\ Once(disp.shown) /\ phase' \in {"stream", "invoke"} /\ Running'
      /\ run' = [Stopped EXCEPT ![Main] = [Off EXCEPT !.at = "gate"]] /\ queue' = <<>>
      /\ disp' = Fresh /\ added' = {} /\ next' = next /\ next \in Nat /\ IsDisplay(disp)
      /\ Main \in Spaces /\ Main \notin Subs /\ Subs \subseteq Spaces
  BY TurnAssumption DEF IInv, TurnTypeOK, Dispatch, Running, Spaces
<1>1. /\ IsDisplay(disp') /\ disp'.shown = disp.shown /\ disp'.rendered = {}
      /\ \A n \in Spaces : disp'.stream[n].msg = 0
  BY <1>0, FreshFields
<1>2. ASSUME NEW n \in Spaces
      PROVE  /\ IsRun(run'[n]) /\ run'[n].msg = 0 /\ DOMAIN run'[n].tools = {}
             /\ run'[n].at \in {"off", "over", "gate"}
             /\ run'[n].at = "gate" <=> n = Main
  <2>1. run'[n] = IF n = Main THEN [Off EXCEPT !.at = "gate"] ELSE Stopped[n]
    BY <1>0, StoppedFields
  <2> QED
    BY <2>1, OffIsRun, StoppedFields
<1>3. DOMAIN queue' = {} /\ Len(queue') = 0 /\ queue' \in Seq(Events)
  BY <1>0, NoneCalled, EmptySeq
<1>4. ASSUME NEW n \in Spaces
      PROVE  Of(queue', n) = {} /\ (\A e : e \notin Coming(n)') /\ IdsOf(n)' = {0}
  <2>1. Of(queue', n) = {}
    BY <1>3 DEF Of
  <2>2. \A e : e \notin Coming(n)'
    BY <1>2 DEF Coming
  <2>3. IdsOf(n)' = {0}
    BY <1>1, <1>2, <2>1 DEF IdsOf
  <2> QED
    BY <2>1, <2>2, <2>3
<1>5. TurnTypeOK'
  <2>1. run' = [n \in Spaces |-> run'[n]]
    BY <1>0, StoppedFields
  <2>2. \A n \in Spaces : IsRun(run[n])'
    BY <1>2 DEF IsRun
  <2> QED
    BY <1>0, <1>1, <1>3, <2>1, <2>2 DEF TurnTypeOK
<1>6. LineInv' /\ ApartInv' /\ RenderedInv'
  BY <1>1, <1>4 DEF LineInv, ApartInv, RenderedInv
<1>7. ChainInv'
  BY <1>2, <1>4 DEF ChainInv
<1>8. QuietInv'
  BY <1>0, <1>1 DEF QuietInv
<1>9. BoundInv'
  <2>1. \A n \in Spaces : IdsOf(n)' \subseteq 0..next'
    BY <1>0, <1>4
  <2>2. \A x \in DOMAIN disp'.shown \cup added' : x[1][1] \in 0..next'
    BY <1>0, <1>1 DEF BoundInv
  <2> QED
    BY <2>1, <2>2 DEF BoundInv
<1>10. SubsInv'
  <2>1. run'[Main].at \in Active /\ \A s \in Subs : run'[s].at \notin Active
    BY <1>0, <1>2 DEF Active, States
  <2> QED
    BY <2>1 DEF SubsInv
<1>11. AsksInv' /\ AddedInv'
  BY <1>0, <1>3 DEF AsksInv, AddedInv
<1>12. DoneInv' /\ HeadersInv'
  BY <1>0, <1>2, <1>4 DEF DoneInv, HeadersInv
<1>13. LatestInv'
  BY <1>0, <1>2 DEF LatestInv
<1>14. Once(disp.shown)'
  BY <1>0, <1>1
<1> QED
  BY <1>5, <1>6, <1>7, <1>8, <1>9, <1>10, <1>11, <1>12, <1>13, <1>14 DEF IInv

-----------------------------------------------------------------------------
(* The theorems *)

LEMMA InitInv == Init => IInv
<1> SUFFICES ASSUME Init PROVE IInv
  OBVIOUS
<1>0. /\ phase = "idle" /\ run = [n \in Spaces |-> Off] /\ queue = <<>> /\ disp = Blank
      /\ added = {} /\ next = 0
  BY DEF Init
<1>1. /\ disp = [x \in DispFields |-> disp[x]] /\ disp.stream = [n \in Spaces |-> Quiet]
      /\ disp.rendered = {} /\ disp.shown = EmptyBag /\ disp.headers = {}
  BY <1>0 DEF Blank, DispFields
<1>2. DOMAIN disp.shown = {}
  BY <1>1 DEF EmptyBag, SetToBag
<1>3. IsDisplay(disp) /\ \A n \in Spaces : disp.stream[n].msg = 0
  BY <1>1, <1>2 DEF IsDisplay, Quiet, Streams
<1>4. TurnTypeOK
  BY <1>0, <1>3, OffIsRun, EmptySeq DEF TurnTypeOK
<1>5. BoundInv
  <2>1. \A n \in Spaces : Of(queue, n) = {} /\ run[n].msg = 0
    BY <1>0, OffIsRun, NoneCalled DEF Of
  <2>2. \A n \in Spaces : IdsOf(n) = {0}
    BY <1>3, <2>1 DEF IdsOf
  <2> QED
    BY <1>0, <1>2, <2>2 DEF BoundInv
<1>6. Once(disp.shown)
  BY <1>2 DEF Once
<1>7. LineInv /\ ApartInv /\ RenderedInv /\ SubsInv
  BY <1>0 DEF LineInv, ApartInv, RenderedInv, SubsInv, Running
<1>8. ChainInv /\ QuietInv /\ AsksInv /\ AddedInv /\ DoneInv /\ HeadersInv /\ LatestInv
  BY <1>0 DEF ChainInv, QuietInv, AsksInv, AddedInv, DoneInv, HeadersInv, LatestInv
<1> QED
  BY <1>4, <1>5, <1>6, <1>7, <1>8 DEF IInv

LEMMA StutterKeeps ==
  ASSUME IInv, UNCHANGED vars
  PROVE  IInv'
<1>1. /\ phase' = phase /\ run' = run /\ queue' = queue /\ disp' = disp /\ added' = added
      /\ next' = next
  BY DEF vars
<1>2. TurnTypeOK'
  BY <1>1 DEF IInv, TurnTypeOK, IsRun
<1>3. LineInv' /\ ChainInv'
  BY <1>1 DEF IInv, LineInv, ChainInv, Running, Coming, ModelEvent, ResultEvent
<1>4. QuietInv' /\ ApartInv' /\ BoundInv' /\ RenderedInv' /\ SubsInv'
  <2>1. \A n \in Spaces : IdsOf(n)' = IdsOf(n)
    BY <1>1 DEF IdsOf
  <2>2. ApartInv' /\ BoundInv'
    BY <1>1, <2>1 DEF IInv, ApartInv, BoundInv, Running
  <2>3. QuietInv' /\ RenderedInv'
    BY <1>1 DEF IInv, QuietInv, RenderedInv, Running
  <2>4. SubsInv'
    BY <1>1 DEF IInv, SubsInv, Running
  <2> QED
    BY <2>2, <2>3, <2>4
<1>5. AsksInv' /\ AddedInv' /\ DoneInv' /\ LatestInv'
  BY <1>1 DEF IInv, AsksInv, AddedInv, DoneInv, LatestInv, Asking, ToCome, ResultEvent
<1>6. HeadersInv'
  BY <1>1 DEF IInv, HeadersInv, Headed, HeaderComes
<1>7. Once(disp.shown)'
  BY <1>1 DEF IInv
<1> QED
  BY <1>2, <1>3, <1>4, <1>5, <1>6, <1>7 DEF IInv

LEMMA NextKeeps == IInv /\ [Next]_vars => IInv'
<1> SUFFICES ASSUME IInv, [Next]_vars PROVE IInv'
  OBVIOUS
<1>1. CASE Dispatch
  BY <1>1, DispatchKeeps
<1>2. CASE Loop
  <2>1. CASE Take
    BY <2>1, TakeKeeps
  <2>2. CASE TakeInterrupt
    BY <2>2, TakeInterruptKeeps
  <2>3. CASE Answer
    BY <2>3, AnswerKeeps
  <2>4. CASE End
    BY <2>4, EndKeeps
  <2>5. CASE Fail
    BY <2>5, FailKeeps
  <2>6. CASE Invoked
    BY <2>6, InvokedKeeps
  <2>7. CASE Compress
    BY <2>7, CompressKeeps
  <2> QED
    BY <1>2, <2>1, <2>2, <2>3, <2>4, <2>5, <2>6, <2>7 DEF Loop
<1>3. CASE Cancel
  BY <1>3, CancelKeeps
<1>4. ASSUME NEW n \in Spaces, GraphStep(n) PROVE IInv'
  BY <1>4, GraphKeeps
<1>5. CASE UNCHANGED vars
  BY <1>5, StutterKeeps
<1> QED
  BY <1>1, <1>2, <1>3, <1>4, <1>5 DEF Next

LEMMA Invariant == Spec => []IInv
  BY InitInv, NextKeeps, PTL DEF Spec

\* No message is on the screen twice, though it comes in chunks, as a node's update
\* and again when a stream resumes (_process_update_chunk of cli/dispatchers/messages.py),
\* for any number of subagents, turns, interrupts and retries.
THEOREM MessagesShownOnce == Spec => []ShownOnce
<1>1. IInv => ShownOnce
  BY DEF IInv, Once, ShownOnce, BagToSet
<1> QED
  BY <1>1, Invariant, PTL

\* A turn that ends has shown all it added to the thread, whatever an interrupt
\* dropped (_stream_response and _finalize_streaming of the same file).
THEOREM AddedMessagesShown == Spec => []AllShown
<1>1. IInv => AllShown
  BY DEF IInv, AddedInv, AllShown, BagToSet
<1> QED
  BY <1>1, Invariant, PTL

-----------------------------------------------------------------------------
(* The rate limiter *)

\* What was taken in the measured period and what the next poll would find are
\* within the bound together: time that passes adds to both sides.
Account == \A b \in Buckets : given[b] + Refilled(b) <= Capacity(b) + period * Rate[b]

BucketInv == TypeOK /\ Account

-----------------------------------------------------------------------------
\* A bucket holds some tokens, and no more than its capacity after a refill.
LEMMA Levels ==
  ASSUME TypeOK
  PROVE  \A b \in Buckets :
           /\ Capacity(b) \in Nat /\ Rate[b] \in Nat
           /\ bucket[b] \in Nat /\ elapsed * Rate[b] \in Nat
           /\ Refilled(b) \in 0..Capacity(b)
<1> TAKE b \in Buckets
<1>1. \A x, y \in Nat : x * y \in Nat
  OBVIOUS
<1>2. Capacity(b) \in Nat /\ Rate[b] \in Nat
  BY <1>1, BucketAssumption DEF Capacity
<1>3. bucket[b] \in Nat /\ bucket[b] <= Capacity(b) /\ elapsed \in Nat
  BY BucketAssumption DEF TypeOK
<1>4. elapsed * Rate[b] \in Nat
  BY <1>1, <1>2, <1>3
<1> QED
  BY <1>2, <1>3, <1>4 DEF Refilled

\* One more tick makes a product with the rate greater by the rate.
LEMMA OneMore == \A n, r \in Nat : (n + 1) * r = n * r + r
OBVIOUS

\* The invariant holds in the initial state: every bucket is full.
LEMMA BucketInitInv == BucketInit => BucketInv
<1> SUFFICES ASSUME BucketInit PROVE BucketInv
  OBVIOUS
<1>1. \A x, y \in Nat : x * y \in Nat
  OBVIOUS
<1>2. \A b \in Buckets : Capacity(b) \in Nat
  BY <1>1, BucketAssumption DEF Capacity
<1>3. TypeOK
  BY <1>2, BucketAssumption DEF BucketInit, TypeOK
<1>4. \A n \in Nat : 0 * n = 0
  OBVIOUS
<1>5. \A b \in Buckets : given[b] = 0 /\ period * Rate[b] = 0
  BY <1>4, <1>3, Levels DEF BucketInit
<1>6. Account
  BY <1>5, <1>3, Levels DEF Account
<1> QED
  BY <1>3, <1>6 DEF BucketInv

\* A poll that succeeds moves tokens from the bucket to the account.
LEMMA ConsumeKeeps ==
  ASSUME BucketInv, NEW c \in Callers, Consume(c)
  PROVE  BucketInv'
<1> USE DEF BucketInv
<1>1. \A b \in Buckets : Need(c, b) \in Nat /\ Need(c, b) <= Refilled(b)
  BY BucketAssumption DEF TypeOK, Consume, Enough, Need
<1>2. \A b \in Buckets :
        /\ bucket'[b] = Refilled(b) - Need(c, b)
        /\ given'[b] = given[b] + Need(c, b)
        /\ given[b] \in Nat
  BY DEF Consume, TypeOK
<1>3. \A b \in Buckets : bucket'[b] \in Nat /\ bucket'[b] <= Capacity(b) /\ given'[b] \in Nat
  BY <1>1, <1>2, Levels
<1>4. TypeOK'
  <2>1. bucket' \in [Buckets -> Nat] /\ given' \in [Buckets -> Nat]
    BY <1>3 DEF Consume
  <2>2. /\ elapsed' \in 0..Horizon /\ calls' \in 0..MaxRequests /\ period' \in 0..MaxPeriod
        /\ waiting' \in [Callers -> Inputs \cup {-1}]
    BY BucketAssumption DEF Consume, TypeOK
  <2> QED
    BY <2>1, <2>2, <1>3 DEF TypeOK, Capacity
<1>5. Account'
  <2>1. \A n \in Nat : 0 * n = 0
    OBVIOUS
  <2>2. \A b \in Buckets : elapsed' * Rate[b] = 0
    BY <2>1, Levels DEF Consume
  <2>3. \A b \in Buckets : Refilled(b)' = bucket'[b]
    BY <2>2, <1>3, Levels DEF Refilled, Capacity
  <2>4. \A b \in Buckets : period' * Rate[b] = period * Rate[b] /\ Capacity(b)' = Capacity(b)
    BY DEF Consume, Capacity
  <2>5. \A b \in Buckets : given'[b] + Refilled(b)' = given[b] + Refilled(b)
    BY <2>3, <1>1, <1>2, Levels
  <2> QED
    BY <2>4, <2>5 DEF Account
<1> QED
  BY <1>4, <1>5

\* A tick adds no more to a bucket than the rate allows, in the period it
\* belongs to or in the one it begins.
LEMMA TickKeeps ==
  ASSUME BucketInv, Tick
  PROVE  BucketInv'
<1> USE DEF BucketInv
<1>1. elapsed \in Nat /\ elapsed' = elapsed + 1 /\ period \in Nat /\ bucket' = bucket
  BY BucketAssumption DEF Tick, TypeOK
<1>2. TypeOK'
  BY BucketAssumption DEF Tick, TypeOK, Capacity
<1>3. \A b \in Buckets : Refilled(b)' \in 0..Capacity(b) /\ Refilled(b)' <= Refilled(b) + Rate[b]
  <2> TAKE b \in Buckets
  <2>1. /\ Capacity(b) \in Nat /\ Rate[b] \in Nat
        /\ bucket[b] \in Nat /\ elapsed * Rate[b] \in Nat /\ bucket[b] <= Capacity(b)
    BY Levels DEF TypeOK
  <2>2. elapsed' * Rate[b] = elapsed * Rate[b] + Rate[b]
    BY <1>1, <2>1, OneMore
  <2>3. Capacity(b)' = Capacity(b) /\ bucket'[b] = bucket[b]
    BY <1>1 DEF Capacity
  <2> QED
    BY <2>1, <2>2, <2>3 DEF Refilled
<1>4. Account'
  <2>1. CASE period' = period + 1 /\ given' = given
    <3> SUFFICES ASSUME NEW b \in Buckets
                 PROVE  given'[b] + Refilled(b)' <= Capacity(b) + period' * Rate[b]
      BY DEF Account, Capacity
    <3>1. period' * Rate[b] = period * Rate[b] + Rate[b] /\ period * Rate[b] \in Int
      <4>1. \A x, y \in Nat : x * y \in Int
        OBVIOUS
      <4> QED
        BY <2>1, <1>1, <4>1, Levels, OneMore
    <3>2. Capacity(b)' = Capacity(b) /\ given'[b] = given[b] /\ given[b] \in Nat
      BY <2>1 DEF Capacity, TypeOK
    <3>3. given[b] + Refilled(b) <= Capacity(b) + period * Rate[b]
      BY DEF Account
    <3> QED
      BY <1>3, <3>1, <3>2, <3>3, Levels
  <2>2. CASE period' = 0 /\ given' = [b \in Buckets |-> 0]
    <3> SUFFICES ASSUME NEW b \in Buckets
                 PROVE  given'[b] + Refilled(b)' <= Capacity(b) + period' * Rate[b]
      BY DEF Account, Capacity
    <3>1. \A n \in Nat : 0 * n = 0
      OBVIOUS
    <3>2. period' * Rate[b] = 0 /\ given'[b] = 0 /\ Capacity(b)' = Capacity(b)
      BY <2>2, <3>1, Levels DEF Capacity
    <3> QED
      BY <1>3, <3>2, Levels
  <2> QED
    BY <2>1, <2>2 DEF Tick
<1> QED
  BY <1>2, <1>4

\* Every step keeps the invariant.
LEMMA BucketNextInv == BucketInv /\ [BucketNext]_bucketVars => BucketInv'
<1> SUFFICES ASSUME BucketInv, [BucketNext]_bucketVars PROVE BucketInv'
  OBVIOUS
<1>1. CASE Tick
  BY <1>1, TickKeeps
<1>2. ASSUME NEW c \in Callers, Arrive(c) PROVE BucketInv'
  <2>1. TypeOK'
    BY <1>2, BucketAssumption DEF BucketInv, TypeOK, Arrive, Capacity
  <2>2. Account'
    BY <1>2 DEF BucketInv, Account, Arrive, Refilled, Capacity
  <2> QED
    BY <2>1, <2>2 DEF BucketInv
<1>3. ASSUME NEW c \in Callers, Consume(c) PROVE BucketInv'
  BY <1>3, ConsumeKeeps
<1>4. ASSUME NEW c \in Callers, Leave(c) PROVE BucketInv'
  <2>1. TypeOK'
    BY <1>4 DEF BucketInv, TypeOK, Leave, Capacity
  <2>2. Account'
    BY <1>4 DEF BucketInv, Account, Leave, Refilled, Capacity
  <2> QED
    BY <2>1, <2>2 DEF BucketInv
<1>5. CASE UNCHANGED bucketVars
  BY <1>5 DEF bucketVars, BucketInv, TypeOK, Account, Refilled, Capacity
<1> QED
  BY <1>1, <1>2, <1>3, <1>4, <1>5 DEF BucketNext

\* The bound follows: what a poll would find is not negative.
LEMMA BucketInvImplies == BucketInv => WithinRate
<1> SUFFICES ASSUME BucketInv, NEW b \in Buckets
             PROVE  given[b] <= Capacity(b) + period * Rate[b]
  BY DEF WithinRate
<1>1. given[b] \in Nat /\ given[b] + Refilled(b) <= Capacity(b) + period * Rate[b]
  BY DEF BucketInv, TypeOK, Account
<1>2. Refilled(b) \in Nat /\ Capacity(b) \in Nat /\ period * Rate[b] \in Int
  <2>1. \A x, y \in Nat : x * y \in Int
    OBVIOUS
  <2>2. period \in Nat
    BY BucketAssumption DEF BucketInv, TypeOK
  <2> QED
    BY <2>1, <2>2, Levels DEF BucketInv
<1> QED
  BY <1>1, <1>2

-----------------------------------------------------------------------------
\* The limiter never overdraws a bucket nor lets it hold more than its capacity
\* (_consume under its lock), whatever the rates and the estimates.
THEOREM BucketsStayWithinCapacity == BucketSpec => []TypeOK
<1>1. BucketInv => TypeOK
  BY DEF BucketInv
<1> QED
  BY <1>1, BucketInitInv, BucketNextInv, PTL DEF BucketSpec

\* In any period, whenever it begins and however the callers interleave, no more is
\* taken from a bucket than one burst and what the rate allows.
THEOREM RateIsKept == BucketSpec => []WithinRate
BY BucketInitInv, BucketNextInv, BucketInvImplies, PTL DEF BucketSpec
=============================================================================
