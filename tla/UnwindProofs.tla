----------------------------- MODULE UnwindProofs -----------------------------
(***************************************************************************)
(* Proofs about Unwind for every set of coroutines, every depth of frames, *)
(* every limit of the stack and every nesting of the C++ stack, of the     *)
(* programs that use nothing beyond the core: no native calls back from    *)
(* inside a try of its own frame (the guarded run shows what happens then) *)
(* and no coroutine yields from inside a native's callback.                *)
(***************************************************************************)
EXTENDS Unwind, NaturalOrder, TLAPS

LEMMA Limits ==
  /\ MaxFrames \in Nat \ {0} /\ StackLimit \in Nat \ {0}
  /\ Headroom \in Nat \ {0} /\ MaxOperands \in Nat \ {0}
  /\ Headroom < StackLimit
  /\ Highest \in Nat /\ Highest = StackLimit + MaxOperands + 1 - Headroom
  /\ StackLimit - Headroom < Highest /\ 0 < Highest
BY LimitAssumption, RoomAssumption DEF Highest

LEMMA EntryOf ==
  ASSUME NEW D, NEW s \in Seq(D), NEW i \in 1 .. Len(s)
  PROVE  s[i] \in D
OBVIOUS

LEMMA SequenceFacts ==
  ASSUME NEW D, NEW s \in Seq(D)
  PROVE  /\ Len(s) \in Nat /\ DOMAIN s = 1 .. Len(s)
         /\ \A i \in DOMAIN s : s[i] \in D
         /\ s = << >> <=> Len(s) = 0
OBVIOUS

LEMMA AppendFacts ==
  ASSUME NEW D, NEW s \in Seq(D), NEW e \in D
  PROVE  /\ Append(s, e) \in Seq(D)
         /\ Len(Append(s, e)) = Len(s) + 1 /\ Len(s) \in Nat
         /\ DOMAIN Append(s, e) = 1 .. Len(s) + 1
         /\ \A i \in 1 .. Len(s) : Append(s, e)[i] = s[i]
         /\ Append(s, e)[Len(s) + 1] = e
OBVIOUS

(* The first k entries of a sequence.                                      *)
LEMMA FirstEntries ==
  ASSUME NEW D, NEW s \in Seq(D), NEW k \in 0 .. Len(s)
  PROVE  /\ SubSeq(s, 1, k) \in Seq(D)
         /\ Len(SubSeq(s, 1, k)) = k
         /\ \A i \in 1 .. k : SubSeq(s, 1, k)[i] = s[i]
OBVIOUS

LEMMA KeepFacts ==
  ASSUME NEW D, NEW s \in Seq(D), NEW k \in 0 .. Len(s)
  PROVE  /\ Keep(s, k) \in Seq(D)
         /\ Len(Keep(s, k)) = k
         /\ DOMAIN Keep(s, k) = 1 .. k
         /\ \A i \in 1 .. k : Keep(s, k)[i] = s[i]
<1>1. (IF k < Len(s) THEN k ELSE Len(s)) = k
  OBVIOUS
<1>2. /\ SubSeq(s, 1, k) \in Seq(D) /\ Len(SubSeq(s, 1, k)) = k
      /\ \A i \in 1 .. k : SubSeq(s, 1, k)[i] = s[i]
  BY FirstEntries
<1>3. DOMAIN SubSeq(s, 1, k) = 1 .. k
  BY <1>2
<1>4. QED
  BY <1>1, <1>2, <1>3 DEF Keep

LEMMA HandlerFields ==
  ASSUME NEW H \in Seq(Handler), NEW i \in DOMAIN H
  PROVE  H[i].depth \in Nat /\ H[i].top \in Nat
<1>1. H[i] \in Handler
  BY EntryOf, SequenceFacts
<1>2. QED
  BY <1>1 DEF Handler

LEMMA NextInInterval ==
  ASSUME NEW a \in Nat, NEW b \in Nat, a <= b
  PROVE  a <= b /\ a + 1 \in 1 .. b + 1
OBVIOUS

LEMMA OneAbove ==
  ASSUME NEW x \in Nat, NEW b \in Nat, NEW m \in Nat, x <= b + m + 1
  PROVE  x <= b + (m + 1) /\ x + 1 <= b + (m + 2)
OBVIOUS

LEMMA NextIn ==
  ASSUME NEW n \in Nat, NEW d \in 1 .. n, d # n
  PROVE  d + 1 \in 1 .. n /\ d < n
OBVIOUS

-----------------------------------------------------------------------------
(* One context's frames, values and handlers.                              *)

(* Values are pushed onto the last frame, ...                              *)
LEMMA StackedPush ==
  ASSUME NEW F \in Seq(Nat), NEW H \in Seq(Handler), NEW s \in Nat, NEW t \in Nat,
         Stacked(F, s, H), s <= t, t <= Highest
  PROVE  Stacked(F, t, H)
<1>1. \A i \in DOMAIN F : F[i] \in Nat
  BY SequenceFacts
<1>2. \A i \in DOMAIN H : H[i].depth \in Nat /\ H[i].top \in Nat
  BY HandlerFields
<1>3. ASSUME NEW i \in DOMAIN H
      PROVE  H[i].top <= IF H[i].depth = Len(F) THEN t ELSE F[H[i].depth + 1]
  <2>1. CASE H[i].depth = Len(F)
    BY <1>2, <2>1 DEF Stacked
  <2>2. CASE H[i].depth # Len(F)
    BY <2>2 DEF Stacked
  <2>3. QED
    BY <2>1, <2>2
<1>4. QED
  BY <1>1, <1>3 DEF Stacked

(* ... and what is cut off is cut off from the ends of all three: the      *)
(* first k frames, the first m handlers and the values below t stay.       *)
LEMMA StackedCut ==
  ASSUME NEW F \in Seq(Nat), NEW H \in Seq(Handler), NEW s \in Nat, NEW t \in Nat,
         Stacked(F, s, H), t <= Highest,
         NEW k \in 0 .. Len(F), NEW m \in 0 .. Len(H),
         \A i \in 1 .. k : F[i] < t,
         \A i \in 1 .. m : H[i].depth <= k /\ (H[i].depth = k => H[i].top <= t)
  PROVE  Stacked(Keep(F, k), t, Keep(H, m))
<1> DEFINE G == Keep(F, k)
           J == Keep(H, m)
<1>1. G \in Seq(Nat) /\ Len(G) = k /\ DOMAIN G = 1 .. k /\ \A i \in 1 .. k : G[i] = F[i]
  BY KeepFacts
<1>2. J \in Seq(Handler) /\ DOMAIN J = 1 .. m /\ \A i \in 1 .. m : J[i] = H[i]
  BY KeepFacts
<1>3. DOMAIN F = 1 .. Len(F) /\ DOMAIN H = 1 .. Len(H) /\ Len(F) \in Nat /\ Len(H) \in Nat
  BY SequenceFacts
<1>4. \A i \in DOMAIN H : H[i].depth \in Nat /\ H[i].top \in Nat
  BY HandlerFields
<1> HIDE DEF G, J
<1>5. \A i \in 1 .. k : i \in DOMAIN F /\ (i > 1 => i - 1 \in 1 .. k)
  BY <1>3
<1>6. \A i \in 1 .. m : i \in DOMAIN H
  BY <1>3
<1>7. \A i \in DOMAIN G : G[i] < t /\ G[i] + 1 + Headroom <= StackLimit
  BY <1>1, <1>5 DEF Stacked
<1>8. \A i, j \in DOMAIN G : i < j => G[i] < G[j]
  BY <1>1, <1>5 DEF Stacked
<1>9. \A i \in DOMAIN G : i > 1 => G[i] <= G[i - 1] + MaxOperands + 1
  BY <1>1, <1>5 DEF Stacked
<1>10. ASSUME NEW i \in DOMAIN J
       PROVE  /\ J[i].depth \in DOMAIN G
              /\ G[J[i].depth] < J[i].top
              /\ J[i].top <= G[J[i].depth] + MaxOperands
              /\ J[i].top <= IF J[i].depth = Len(G) THEN t ELSE G[J[i].depth + 1]
  <2>1. i \in 1 .. m /\ i \in DOMAIN H /\ J[i] = H[i]
    BY <1>2, <1>6
  <2>2. H[i].depth \in 1 .. k
    BY <1>3, <1>4, <2>1 DEF Stacked
  <2>3. F[H[i].depth] < H[i].top /\ H[i].top <= F[H[i].depth] + MaxOperands
    BY <2>1 DEF Stacked
  <2>4. CASE H[i].depth = k
    BY <1>1, <2>1, <2>2, <2>3, <2>4
  <2>5. CASE H[i].depth # k
    <3>1. H[i].depth + 1 \in 1 .. k /\ H[i].depth # Len(F)
      <4>1. PICK d \in 1 .. k : d = H[i].depth
        BY <2>2
      <4>2. d # k /\ k \in Nat /\ k <= Len(F)
        BY <1>3, <2>5, <4>1
      <4>3. d + 1 \in 1 .. k /\ d < k
        BY <4>2, NextIn
      <4>4. QED
        BY <1>3, <4>1, <4>2, <4>3
    <3>2. H[i].top <= F[H[i].depth + 1]
      BY <2>1, <3>1 DEF Stacked
    <3>3. QED
      BY <1>1, <2>1, <2>2, <2>3, <2>5, <3>1, <3>2
  <2>6. QED
    BY <2>4, <2>5
<1>11. \A i, j \in DOMAIN J : i < j => J[i].depth <= J[j].depth /\ J[i].top <= J[j].top
  BY <1>2, <1>6 DEF Stacked
<1>12. QED
  BY <1>7, <1>8, <1>9, <1>10, <1>11 DEF Stacked, G, J

(* A call: the frame's base is the stack as it was.                        *)
LEMMA StackedEnter ==
  ASSUME NEW F \in Seq(Nat), NEW H \in Seq(Handler), NEW s \in Nat,
         Stacked(F, s, H), s + 1 + Headroom <= StackLimit,
         Slack(F, s, MaxOperands + 1)
  PROVE  Stacked(Append(F, s), s + 1, H)
<1> DEFINE G == Append(F, s)
<1>1. /\ G \in Seq(Nat) /\ Len(G) = Len(F) + 1 /\ DOMAIN G = 1 .. Len(F) + 1
      /\ \A i \in 1 .. Len(F) : G[i] = F[i]
      /\ G[Len(F) + 1] = s
  BY AppendFacts
<1>2. DOMAIN F = 1 .. Len(F) /\ Len(F) \in Nat /\ (\A i \in DOMAIN F : F[i] \in Nat)
  BY SequenceFacts
<1>3. \A i \in DOMAIN H : H[i].depth \in Nat /\ H[i].top \in Nat
  BY HandlerFields
<1> HIDE DEF G
<1>4. s + 1 <= Highest
  BY Limits
<1>5. \A i \in DOMAIN G : G[i] < s + 1 /\ G[i] + 1 + Headroom <= StackLimit
  <2>1. ASSUME NEW i \in DOMAIN G PROVE G[i] < s + 1 /\ G[i] + 1 + Headroom <= StackLimit
    <3>1. CASE i = Len(F) + 1
      BY <1>1, <3>1
    <3>2. CASE i # Len(F) + 1
      <4>1. i \in DOMAIN F /\ G[i] = F[i]
        BY <1>1, <1>2, <3>2
      <4>2. F[i] < s /\ F[i] + 1 + Headroom <= StackLimit /\ F[i] \in Nat
        BY <1>2, <4>1 DEF Stacked
      <4>3. QED
        BY <4>1, <4>2
    <3>3. QED
      BY <3>1, <3>2
  <2>2. QED
    BY <2>1
<1>6. ASSUME NEW i \in DOMAIN G, NEW j \in DOMAIN G, i < j PROVE G[i] < G[j]
  <2>1. i \in DOMAIN F /\ G[i] = F[i]
    BY <1>1, <1>2, <1>6
  <2>2. CASE j = Len(F) + 1
    BY <1>1, <2>1, <2>2 DEF Stacked
  <2>3. CASE j # Len(F) + 1
    <3>1. j \in DOMAIN F /\ G[j] = F[j]
      BY <1>1, <1>2, <2>3
    <3>2. QED
      BY <1>6, <2>1, <3>1 DEF Stacked
  <2>4. QED
    BY <2>2, <2>3
<1>7. ASSUME NEW i \in DOMAIN G, i > 1 PROVE G[i] <= G[i - 1] + MaxOperands + 1
  <2>1. i - 1 \in DOMAIN F /\ G[i - 1] = F[i - 1]
    BY <1>1, <1>2, <1>7
  <2>2. CASE i = Len(F) + 1
    <3>1. F # << >> /\ i - 1 = Len(F)
      BY <1>2, <1>7, <2>2, SequenceFacts
    <3>2. s <= F[Len(F)] + (MaxOperands + 1)
      BY <3>1 DEF Slack
    <3>3. F[Len(F)] \in Nat /\ G[i] = s /\ G[i - 1] = F[Len(F)]
      BY <1>1, <1>2, <2>1, <2>2, <3>1
    <3>4. QED
      BY <3>2, <3>3, Limits
  <2>3. CASE i # Len(F) + 1
    <3>1. i \in DOMAIN F /\ G[i] = F[i]
      BY <1>1, <1>2, <2>3
    <3>2. QED
      BY <1>7, <2>1, <3>1 DEF Stacked
  <2>4. QED
    BY <2>2, <2>3
<1>8. ASSUME NEW i \in DOMAIN H
      PROVE  /\ H[i].depth \in DOMAIN G
             /\ G[H[i].depth] < H[i].top
             /\ H[i].top <= G[H[i].depth] + MaxOperands
             /\ H[i].top <= IF H[i].depth = Len(G) THEN s + 1 ELSE G[H[i].depth + 1]
  <2>1. PICK d \in 1 .. Len(F) : d = H[i].depth
    BY <1>2 DEF Stacked
  <2>2. d \in DOMAIN G /\ d # Len(G) /\ G[d] = F[d]
    BY <1>1, <1>2
  <2>3. F[d] < H[i].top /\ H[i].top <= F[d] + MaxOperands
    BY <2>1 DEF Stacked
  <2>4. H[i].top <= G[d + 1]
    <3>1. CASE d = Len(F)
      BY <1>1, <2>1, <3>1 DEF Stacked
    <3>2. CASE d # Len(F)
      <4>1. d + 1 \in 1 .. Len(F)
        BY <1>2, <3>2, NextIn
      <4>2. G[d + 1] = F[d + 1]
        BY <1>1, <4>1
      <4>3. QED
        BY <2>1, <3>2, <4>2 DEF Stacked
    <3>3. QED
      BY <3>1, <3>2
  <2>5. QED
    BY <2>1, <2>2, <2>3, <2>4
<1>9. \A i, j \in DOMAIN H : i < j => H[i].depth <= H[j].depth /\ H[i].top <= H[j].top
  BY DEF Stacked
<1>10. QED
  BY <1>4, <1>5, <1>6, <1>7, <1>8, <1>9 DEF Stacked, G

(* A try begins in the last frame.                                         *)
LEMMA StackedTry ==
  ASSUME NEW F \in Seq(Nat), NEW H \in Seq(Handler), NEW s \in Nat,
         Stacked(F, s, H), F # << >>, s <= F[Len(F)] + MaxOperands
  PROVE  Stacked(F, s, Append(H, [depth |-> Len(F), top |-> s]))
<1> DEFINE h == [depth |-> Len(F), top |-> s]
           J == Append(H, h)
<1>1. /\ DOMAIN F = 1 .. Len(F) /\ Len(F) \in Nat /\ Len(F) # 0
      /\ \A i \in DOMAIN F : F[i] \in Nat
  BY SequenceFacts
<1>2. h \in Handler /\ h.depth = Len(F) /\ h.top = s
  BY <1>1 DEF Handler
<1> HIDE DEF h
<1>3. DOMAIN H = 1 .. Len(H) /\ Len(H) \in Nat
  BY SequenceFacts
<1>4. /\ DOMAIN J = 1 .. Len(H) + 1
      /\ \A i \in 1 .. Len(H) : J[i] = H[i]
      /\ J[Len(H) + 1] = h
  BY <1>2, AppendFacts
<1>5. \A i \in DOMAIN H : H[i].depth \in Nat /\ H[i].top \in Nat
  BY HandlerFields
<1> HIDE DEF J
<1>6. ASSUME NEW i \in DOMAIN H
      PROVE  H[i].depth <= Len(F) /\ H[i].top <= s
  <2>1. PICK d \in 1 .. Len(F) : d = H[i].depth
    BY <1>1 DEF Stacked
  <2>2. CASE d = Len(F)
    <3>1. H[i].top <= s
      BY <2>1, <2>2 DEF Stacked
    <3>2. QED
      BY <1>1, <2>1, <2>2, <3>1
  <2>3. CASE d # Len(F)
    <3>1. d + 1 \in DOMAIN F
      BY <1>1, <2>3, NextIn
    <3>2. H[i].top <= F[d + 1] /\ F[d + 1] < s /\ F[d + 1] \in Nat
      BY <1>1, <2>1, <2>3, <3>1 DEF Stacked
    <3>3. QED
      BY <1>1, <1>5, <2>1, <3>2
  <2>4. QED
    BY <2>2, <2>3
<1>7. ASSUME NEW i \in DOMAIN J
      PROVE  /\ J[i].depth \in DOMAIN F
             /\ F[J[i].depth] < J[i].top
             /\ J[i].top <= F[J[i].depth] + MaxOperands
             /\ J[i].top <= IF J[i].depth = Len(F) THEN s ELSE F[J[i].depth + 1]
  <2>1. CASE i = Len(H) + 1
    <3>1. J[i] = h /\ Len(F) \in DOMAIN F
      BY <1>1, <1>4, <2>1
    <3>2. F[Len(F)] < s
      BY <3>1 DEF Stacked
    <3>3. QED
      BY <1>2, <3>1, <3>2
  <2>2. CASE i # Len(H) + 1
    <3>1. i \in DOMAIN H /\ J[i] = H[i]
      BY <1>3, <1>4, <2>2
    <3>2. QED
      BY <3>1 DEF Stacked
  <2>3. QED
    BY <2>1, <2>2
<1>8. ASSUME NEW i \in DOMAIN J, NEW j \in DOMAIN J, i < j
      PROVE  J[i].depth <= J[j].depth /\ J[i].top <= J[j].top
  <2>1. i \in DOMAIN H /\ J[i] = H[i]
    BY <1>3, <1>4, <1>8
  <2>2. CASE j = Len(H) + 1
    BY <1>2, <1>4, <1>6, <2>1, <2>2
  <2>3. CASE j # Len(H) + 1
    <3>1. j \in DOMAIN H /\ J[j] = H[j]
      BY <1>3, <1>4, <2>3
    <3>2. QED
      BY <1>8, <2>1, <3>1 DEF Stacked
  <2>4. QED
    BY <2>2, <2>3
<1>9. QED
  BY <1>7, <1>8 DEF Stacked, J, h

-----------------------------------------------------------------------------
(* The C++ stack.                                                          *)

LEMMA CallFields ==
  ASSUME NEW a \in CallRecord
  PROVE  /\ a.kind \in RunKinds \cup {"native", "resume", "host"}
         /\ a.exit \in Nat /\ a.depth \in Nat /\ a.size \in Nat
         /\ a.co \in Contexts /\ a.ctx \in Contexts /\ a.prev \in BOOLEAN
BY DEF CallRecord

LEMMA CallsFacts ==
  ASSUME TypeOK, CallsInv
  PROVE  /\ Len(calls) \in Nat /\ Len(calls) >= 1 /\ DOMAIN calls = 1 .. Len(calls)
         /\ \A i \in DOMAIN calls : calls[i] \in CallRecord
         /\ Len(calls) \in DOMAIN calls /\ TopCall = calls[Len(calls)]
         /\ \A i \in DOMAIN calls : calls[i].kind = "host" => i = 1
         /\ active \in Contexts
<1>1. calls \in Seq(CallRecord) /\ active \in Contexts
  BY DEF TypeOK
<1>2. Len(calls) \in Nat /\ Len(calls) # 0 /\ DOMAIN calls = 1 .. Len(calls)
  BY <1>1, SequenceFacts DEF CallsInv
<1>3. \A i \in DOMAIN calls : calls[i] \in CallRecord
  BY <1>1, SequenceFacts
<1>4. \A i \in DOMAIN calls : calls[i].kind = "host" => i = 1
  BY <1>2 DEF CallsInv, Fits
<1>5. QED
  BY <1>1, <1>2, <1>3, <1>4 DEF TopCall

(* Every activation but the host has the one that called it below.         *)
LEMMA Called ==
  ASSUME TypeOK, CallsInv, TopCall.kind # "host"
  PROVE  /\ Len(calls) > 1 /\ Len(calls) - 1 \in DOMAIN calls
         /\ Fits(calls[Len(calls) - 1], TopCall)
         /\ calls[Len(calls) - 1] \in CallRecord
<1>1. Len(calls) # 1
  BY DEF CallsInv, TopCall, Host
<1>2. Len(calls) > 1 /\ Len(calls) - 1 \in DOMAIN calls /\ Len(calls) \in DOMAIN calls
  BY <1>1, CallsFacts
<1>3. QED
  BY <1>2, CallsFacts DEF CallsInv

LEMMA BelowFacts ==
  ASSUME TypeOK, CallsInv, TopCall.kind # "host"
  PROVE  /\ Below \in Seq(CallRecord)
         /\ Len(Below) = Len(calls) - 1
         /\ DOMAIN Below = 1 .. Len(calls) - 1
         /\ \A i \in 1 .. Len(calls) - 1 : Below[i] = calls[i]
<1>1. calls \in Seq(CallRecord) /\ Len(calls) - 1 \in 0 .. Len(calls)
  BY Called, CallsFacts DEF TypeOK
<1>2. /\ SubSeq(calls, 1, Len(calls) - 1) \in Seq(CallRecord)
      /\ Len(SubSeq(calls, 1, Len(calls) - 1)) = Len(calls) - 1
      /\ \A i \in 1 .. Len(calls) - 1 : SubSeq(calls, 1, Len(calls) - 1)[i] = calls[i]
  BY <1>1, FirstEntries
<1>3. QED
  BY <1>2, SequenceFacts DEF Below

(* The C++ stack after its top activation has returned.                    *)
LEMMA Returned ==
  ASSUME TypeOK, CallsInv, TopCall.kind # "host", calls' = Below
  PROVE  /\ calls' \in Seq(CallRecord)
         /\ Len(calls') = Len(calls) - 1 /\ Len(calls) - 1 \in DOMAIN calls
         /\ DOMAIN calls' = DOMAIN calls \ {Len(calls)}
         /\ \A i \in DOMAIN calls' : calls'[i] = calls[i]
         /\ TopCall' = calls[Len(calls) - 1]
         /\ calls' # << >> /\ calls'[1] = Host
         /\ \A i \in DOMAIN calls' : i > 1 => Fits(calls'[i - 1], calls'[i])
<1>1. /\ calls' \in Seq(CallRecord) /\ Len(calls') = Len(calls) - 1
      /\ DOMAIN calls' = 1 .. Len(calls) - 1
      /\ \A i \in 1 .. Len(calls) - 1 : calls'[i] = calls[i]
  BY BelowFacts
<1>2. Len(calls) - 1 \in DOMAIN calls /\ Len(calls) > 1
  BY Called
<1>3. DOMAIN calls = 1 .. Len(calls) /\ Len(calls) \in Nat
  BY CallsFacts
<1>4. DOMAIN calls' = DOMAIN calls \ {Len(calls)}
  BY <1>1, <1>2, <1>3
<1>5. \A i \in DOMAIN calls' : i > 1 => Fits(calls'[i - 1], calls'[i])
  BY <1>1, <1>3 DEF CallsInv
<1>6. calls' # << >> /\ calls'[1] = Host
  <2>1. Len(calls') # 0 /\ 1 \in 1 .. Len(calls) - 1
    BY <1>1, <1>2, <1>3
  <2>2. QED
    BY <1>1, <2>1, SequenceFacts DEF CallsInv
<1>7. TopCall' = calls[Len(calls) - 1]
  BY <1>1, <1>2, <1>3 DEF TopCall
<1>8. QED
  BY <1>1, <1>2, <1>4, <1>5, <1>6, <1>7

(* ... and after it has called another.                                    *)
LEMMA Pushed ==
  ASSUME TypeOK, CallsInv, NEW a \in CallRecord, calls' = Append(calls, a), Fits(TopCall, a)
  PROVE  /\ calls' \in Seq(CallRecord)
         /\ Len(calls') = Len(calls) + 1
         /\ DOMAIN calls' = DOMAIN calls \cup {Len(calls) + 1} /\ Len(calls) + 1 \notin DOMAIN calls
         /\ \A i \in DOMAIN calls : calls'[i] = calls[i]
         /\ calls'[Len(calls) + 1] = a /\ TopCall' = a
         /\ calls' # << >> /\ calls'[1] = Host
         /\ \A i \in DOMAIN calls' : i > 1 => Fits(calls'[i - 1], calls'[i])
<1>1. calls \in Seq(CallRecord)
  BY DEF TypeOK
<1>2. /\ DOMAIN calls = 1 .. Len(calls) /\ Len(calls) \in Nat /\ Len(calls) >= 1
      /\ TopCall = calls[Len(calls)]
  BY CallsFacts
<1>3. /\ calls' \in Seq(CallRecord) /\ Len(calls') = Len(calls) + 1
      /\ DOMAIN calls' = 1 .. Len(calls) + 1
      /\ \A i \in 1 .. Len(calls) : calls'[i] = calls[i]
      /\ calls'[Len(calls) + 1] = a
  BY <1>1, AppendFacts
<1>4. DOMAIN calls' = DOMAIN calls \cup {Len(calls) + 1} /\ Len(calls) + 1 \notin DOMAIN calls
  BY <1>2, <1>3
<1>5. ASSUME NEW i \in DOMAIN calls', i > 1 PROVE Fits(calls'[i - 1], calls'[i])
  <2>1. CASE i = Len(calls) + 1
    <3>1. i - 1 = Len(calls) /\ Len(calls) \in 1 .. Len(calls)
      BY <1>2, <2>1
    <3>2. QED
      BY <1>2, <1>3, <2>1, <3>1
  <2>2. CASE i # Len(calls) + 1
    <3>1. i \in 1 .. Len(calls) /\ i - 1 \in 1 .. Len(calls)
      BY <1>2, <1>3, <1>5, <2>2
    <3>2. QED
      BY <1>2, <1>3, <1>5, <3>1 DEF CallsInv
  <2>3. QED
    BY <2>1, <2>2
<1>6. calls' # << >> /\ calls'[1] = Host
  <2>1. Len(calls') # 0 /\ 1 \in 1 .. Len(calls)
    BY <1>2, <1>3
  <2>2. QED
    BY <1>3, <2>1, SequenceFacts DEF CallsInv
<1>7. TopCall' = a
  BY <1>2, <1>3 DEF TopCall
<1>8. QED
  BY <1>2, <1>3, <1>4, <1>5, <1>6, <1>7

(* The running coroutine is RUNNING, and the resume that runs it is on the *)
(* C++ stack.                                                              *)
LEMMA ActiveResumed ==
  ASSUME TypeOK, CallsInv, ResumeInv, active \in Coros
  PROVE  status[active] = "RUNNING" /\ \E j \in Resumes : calls[j].co = active
<1>1. \E j \in Resumes : calls[j].co = active
  <2>1. CASE TopCall.kind = "resume"
    BY <2>1, CallsFacts DEF CallsInv, RunsIn, Resumes
  <2>2. CASE TopCall.kind # "resume"
    BY <2>2, CallsFacts DEF CallsInv, RunsIn, ResumeInv
  <2>3. QED
    BY <2>1, <2>2
<1>2. QED
  BY <1>1 DEF ResumeInv, RunningIffResumed, Resumes

(* Of the runs in the running context, the top one has the highest exit.   *)
LEMMA TopExit ==
  ASSUME TypeOK, CallsInv, RunInv, TopCall.kind \in RunKinds
  PROVE  /\ Len(calls) \in Runs /\ TopCall.ctx = active
         /\ TopCall.exit \in Nat /\ TopCall.exit < Depth /\ Depth \in Nat
         /\ \A i \in Runs : i # Len(calls) /\ calls[i].ctx = active =>
              calls[i].exit < TopCall.exit /\ calls[i].exit \in Nat
<1>1. Len(calls) \in Runs /\ TopCall = calls[Len(calls)]
  BY CallsFacts DEF Runs
<1>2. TopCall.ctx = active
  BY DEF CallsInv, RunsIn, RunKinds
<1>3. TopCall.exit \in Nat /\ \A i \in Runs : calls[i].exit \in Nat
  BY <1>1, CallsFacts, CallFields DEF Runs
<1>4. Depth \in Nat
  BY CallsFacts, SequenceFacts DEF Depth, TypeOK
<1>5. \A i \in Runs : i # Len(calls) => i < Len(calls)
  BY CallsFacts DEF Runs
<1>6. QED
  BY <1>1, <1>2, <1>3, <1>4, <1>5 DEF RunInv, Depth

-----------------------------------------------------------------------------
(* Steps of the running context.                                           *)

(* What becomes of the stacks when only the running context's change.      *)
LEMMA OneContext ==
  ASSUME TypeOK, StackInv, active \in Coros => status[active] = "RUNNING",
         UNCHANGED <<status, active>>,
         NEW F \in Seq(Nat), NEW s \in Nat, NEW H \in Seq(Handler),
         SetFrames(F), SetSp(s), SetHandlers(H),
         Len(F) <= MaxFrames, Stacked(F, s, H),
         outcome' # "error" => Slack(F, s, MaxOperands + 2)
  PROVE  /\ frames' \in [Contexts -> Seq(Nat)]
         /\ \A c \in Contexts : Len(frames'[c]) <= MaxFrames
         /\ sp' \in [Contexts -> Nat]
         /\ handlers' \in [Contexts -> Seq(Handler)]
         /\ frames'[active] = F /\ sp'[active] = s /\ handlers'[active] = H
         /\ \A c \in Contexts \ {active} :
              frames'[c] = frames[c] /\ sp'[c] = sp[c] /\ handlers'[c] = handlers[c]
         /\ StackInv'
<1>1. active \in Contexts
  BY DEF TypeOK
<1>2. /\ frames' \in [Contexts -> Seq(Nat)] /\ sp' \in [Contexts -> Nat]
      /\ handlers' \in [Contexts -> Seq(Handler)]
      /\ frames'[active] = F /\ sp'[active] = s /\ handlers'[active] = H
      /\ \A c \in Contexts \ {active} :
           frames'[c] = frames[c] /\ sp'[c] = sp[c] /\ handlers'[c] = handlers[c]
  BY <1>1 DEF TypeOK, SetFrames, SetSp, SetHandlers
<1>3. \A c \in Contexts : Len(frames'[c]) <= MaxFrames
  BY <1>2 DEF TypeOK
<1>4. \A c \in Contexts : Stacked(frames'[c], sp'[c], handlers'[c])
  BY <1>2 DEF StackInv
<1>5. \A c \in Contexts : (c = active' => outcome' # "error") =>
        Slack(frames'[c], sp'[c], MaxOperands + 2)
  BY <1>2 DEF StackInv
<1>6. \A c \in Coros : status'[c] = "SUSPENDED" =>
        frames'[c] # << >> /\ Slack(frames'[c], sp'[c], MaxOperands + 1)
  BY <1>2 DEF StackInv, Contexts
<1>7. QED
  BY <1>2, <1>3, <1>4, <1>5, <1>6 DEF StackInv

(* The running run goes on, on its own frames and with handlers of its own *)
(* or of those below.                                                      *)
LEMMA RunStep ==
  ASSUME IInv, TopCall.kind \in RunKinds, outcome' \in {"none", "error"},
         UNCHANGED <<calls, coroVars>>,
         NEW F \in Seq(Nat), NEW s \in Nat, NEW H \in Seq(Handler),
         SetFrames(F), SetSp(s), SetHandlers(H),
         Len(F) <= MaxFrames, Stacked(F, s, H),
         outcome' # "error" => Slack(F, s, MaxOperands + 2),
         TopCall.exit < Len(F),
         \A k \in 1 .. TopCall.exit + 1 : F[k] = frames[active][k],
         \A h \in DOMAIN H : \/ TopCall.exit < H[h].depth
                             \/ \E j \in DOMAIN Tries : Tries[j].depth = H[h].depth
  PROVE  IInv'
<1> USE DEF IInv
<1>1. UNCHANGED <<calls, yielded, status, active>>
  BY DEF coroVars
<1>2. active \in Coros => status[active] = "RUNNING"
  BY ActiveResumed
<1>3. /\ frames' \in [Contexts -> Seq(Nat)]
      /\ \A c \in Contexts : Len(frames'[c]) <= MaxFrames
      /\ sp' \in [Contexts -> Nat]
      /\ handlers' \in [Contexts -> Seq(Handler)]
      /\ frames'[active] = F /\ sp'[active] = s /\ handlers'[active] = H
      /\ \A c \in Contexts \ {active} :
           frames'[c] = frames[c] /\ sp'[c] = sp[c] /\ handlers'[c] = handlers[c]
      /\ StackInv'
  BY <1>1, <1>2, OneContext
<1>4. TypeOK'
  BY <1>1, <1>3 DEF TypeOK
<1>5. CallsInv'
  BY <1>1 DEF CallsInv, TopCall
<1>6. TopCall' = TopCall /\ TopCall.kind \notin {"resume", "native", "host"}
  BY <1>1 DEF TopCall, RunKinds
<1>7. OutcomeInv'
  <2>1. ~yielded
    BY <1>6 DEF OutcomeInv
  <2>2. QED
    BY <1>1, <1>6, <2>1 DEF OutcomeInv
<1>8. ResumeInv'
  BY <1>1 DEF ResumeInv, RunningIffResumed, Resumes
<1>9. RunInv'
  <2>1. Runs' = Runs
    BY <1>1 DEF Runs
  <2>2. \A i \in Runs : /\ calls[i] \in CallRecord /\ calls[i].ctx \in Contexts
                        /\ calls[i].exit \in Nat
    BY CallsFacts, CallFields DEF Runs
  <2>3. ASSUME NEW i \in Runs, calls[i].ctx = active
        PROVE  calls[i].exit <= TopCall.exit /\ calls[i].exit + 1 \in 1 .. TopCall.exit + 1
    <3>1. calls[i].exit <= TopCall.exit
      BY <2>3, TopExit, CallsFacts
    <3>2. QED
      <4>1. calls[i].exit \in Nat /\ TopCall.exit \in Nat
        BY <2>2, TopExit, Zenon
      <4>2. QED
        BY <3>1, <4>1, NextInInterval
  <2>4. \A i \in Runs : calls[i].exit < Len(frames'[calls[i].ctx])
    <3>1. ASSUME NEW i \in Runs PROVE calls[i].exit < Len(frames'[calls[i].ctx])
      <4>1. CASE calls[i].ctx = active
        <5>1. calls[i].exit <= TopCall.exit /\ TopCall.exit \in Nat /\ Len(F) \in Nat
          BY <2>3, <4>1, TopExit, SequenceFacts
        <5>2. calls[i].exit < Len(F)
          BY <2>2, <5>1
        <5>3. QED
          BY <1>3, <4>1, <5>2
      <4>2. CASE calls[i].ctx # active
        BY <1>3, <2>2, <4>2 DEF RunInv
      <4>3. QED
        BY <4>1, <4>2
    <3>2. QED
      BY <3>1
  <2>5. ASSUME NEW i \in Runs, calls[i].kind = "callback"
        PROVE  /\ frames'[calls[i].ctx][calls[i].exit + 1] = calls[i].size
               /\ \A h \in DOMAIN handlers'[calls[i].ctx] :
                    handlers'[calls[i].ctx][h].depth # calls[i].exit
    <3>1. /\ frames[calls[i].ctx][calls[i].exit + 1] = calls[i].size
          /\ \A h \in DOMAIN handlers[calls[i].ctx] :
               handlers[calls[i].ctx][h].depth # calls[i].exit
      BY <2>5 DEF RunInv
    <3>2. CASE calls[i].ctx = active
      <4>1. F[calls[i].exit + 1] = calls[i].size
        BY <2>3, <3>1, <3>2
      <4>2. ASSUME NEW h \in DOMAIN H PROVE H[h].depth # calls[i].exit
        <5>1. CASE TopCall.exit < H[h].depth
          BY <2>2, <2>3, <3>2, <5>1, TopExit, HandlerFields
        <5>2. CASE \E j \in DOMAIN Tries : Tries[j].depth = H[h].depth
          BY <3>1, <3>2, <5>2 DEF Tries
        <5>3. QED
          BY <4>2, <5>1, <5>2
      <4>3. QED
        BY <1>3, <3>2, <4>1, <4>2
    <3>3. CASE calls[i].ctx # active
      BY <1>3, <2>2, <3>1, <3>3, Zenon
    <3>4. QED
      BY <3>2, <3>3
  <2>6. ~InNative'
    BY <1>6 DEF InNative
  <2>7. QED
    BY <1>1, <2>1, <2>4, <2>5, <2>6 DEF RunInv
<1>10. QED
  BY <1>3, <1>4, <1>5, <1>7, <1>8, <1>9

LEMMA SlackMore ==
  ASSUME NEW F \in Seq(Nat), NEW s \in Nat, Slack(F, s, MaxOperands + 1)
  PROVE  Slack(F, s, MaxOperands + 2)
<1>1. CASE F = << >>
  BY <1>1 DEF Slack
<1>2. CASE F # << >>
  <2>1. Len(F) \in DOMAIN F
    BY <1>2, SequenceFacts
  <2>2. F[Len(F)] \in Nat
    BY <2>1, SequenceFacts
  <2>3. s <= F[Len(F)] + (MaxOperands + 1)
    BY <1>2 DEF Slack
  <2>4. s <= F[Len(F)] + (MaxOperands + 2)
    BY <2>2, <2>3, Limits
  <2>5. QED
    BY <2>4 DEF Slack
<1>3. QED
  BY <1>1, <1>2

(* A run that a native or the host started ends: it leaves the frames it   *)
(* found.                                                                  *)
LEMMA CalledRunEnds ==
  ASSUME IInv, TopCall.kind \in {"interpret", "callback"}, outcome' \in {"value", "error"},
         calls' = Below, UNCHANGED coroVars,
         NEW F \in Seq(Nat), NEW s \in Nat, NEW H \in Seq(Handler),
         SetFrames(F), SetSp(s), SetHandlers(H),
         Len(F) = TopCall.exit, Stacked(F, s, H),
         outcome' # "error" => s = calls[Len(calls) - 1].size /\ Slack(F, s, MaxOperands + 1),
         \A k \in 1 .. TopCall.exit : F[k] = frames[active][k],
         \A h \in DOMAIN H : \E j \in DOMAIN Tries : Tries[j].depth = H[h].depth
  PROVE  IInv'
<1> USE DEF IInv
<1>0. TopCall.kind \in RunKinds /\ TopCall.kind # "host"
  BY DEF RunKinds
<1>1. UNCHANGED <<yielded, status, active>>
  BY DEF coroVars
<1>2. active \in Coros => status[active] = "RUNNING"
  BY ActiveResumed
<1>3. /\ frames' \in [Contexts -> Seq(Nat)]
      /\ \A c \in Contexts : Len(frames'[c]) <= MaxFrames
      /\ sp' \in [Contexts -> Nat]
      /\ handlers' \in [Contexts -> Seq(Handler)]
      /\ frames'[active] = F /\ sp'[active] = s /\ handlers'[active] = H
      /\ \A c \in Contexts \ {active} :
           frames'[c] = frames[c] /\ sp'[c] = sp[c] /\ handlers'[c] = handlers[c]
      /\ StackInv'
  <2>1. Len(F) <= MaxFrames
    <3>1. active \in Contexts /\ TopCall.exit < Depth /\ Depth <= MaxFrames
      BY <1>0, TopExit DEF TypeOK, Depth
    <3>2. QED
      BY <1>0, <3>1, TopExit, Limits
  <2>2. outcome' # "error" => Slack(F, s, MaxOperands + 2)
    BY SlackMore
  <2>3. QED
    BY <1>1, <1>2, <2>1, <2>2, OneContext
<1>4. /\ calls' \in Seq(CallRecord)
      /\ DOMAIN calls' = DOMAIN calls \ {Len(calls)}
      /\ \A i \in DOMAIN calls' : calls'[i] = calls[i]
      /\ TopCall' = calls[Len(calls) - 1]
      /\ calls' # << >> /\ calls'[1] = Host
      /\ \A i \in DOMAIN calls' : i > 1 => Fits(calls'[i - 1], calls'[i])
  BY <1>0, Returned
<1>5. /\ Fits(calls[Len(calls) - 1], TopCall) /\ Len(calls) - 1 \in DOMAIN calls
      /\ Len(calls) > 1
  BY <1>0, Called
<1>6. TopCall'.kind \in {"native", "host"}
  BY <1>4, <1>5 DEF Fits
<1>7. TypeOK'
  BY <1>1, <1>3, <1>4 DEF TypeOK
<1>8. CallsInv'
  <2>1. RunsIn(TopCall') = active
    BY <1>0, <1>4, <1>5, TopExit DEF Fits
  <2>2. QED
    BY <1>1, <1>4, <2>1 DEF CallsInv
<1>9. OutcomeInv'
  <2>1. ~yielded
    BY <1>0 DEF OutcomeInv, RunKinds
  <2>2. QED
    BY <1>1, <1>6, <2>1 DEF OutcomeInv, RunKinds
<1>10. Resumes' = Resumes /\ Runs' = Runs \ {Len(calls)}
  <2>1. Len(calls) \notin Resumes
    BY CallsFacts DEF Resumes
  <2>2. QED
    BY <1>4, <2>1 DEF Resumes, Runs
<1>11. ResumeInv'
  <2>1. \A i \in Resumes : calls'[i] = calls[i]
    BY <1>4, <1>10 DEF Resumes
  <2>2. RunningIffResumed'
    BY <1>1, <1>10, <2>1 DEF ResumeInv, RunningIffResumed, Resumes
  <2>3. \A i, j \in Resumes' : calls'[i].co = calls'[j].co => i = j
    BY <1>10, <2>1 DEF ResumeInv
  <2>4. \A i \in DOMAIN calls' : calls'[i].ctx \in Coros =>
          \E j \in Resumes' : j < i /\ calls'[j].co = calls'[i].ctx
    BY <1>4, <1>10, <2>1 DEF ResumeInv
  <2>5. QED
    BY <2>2, <2>3, <2>4 DEF ResumeInv
<1>12. RunInv'
  <2>1. \A i \in Runs' : /\ i \in Runs /\ i # Len(calls) /\ calls'[i] = calls[i]
                         /\ calls[i].ctx \in Contexts /\ calls[i].exit \in Nat
    <3>1. \A i \in Runs' : i \in Runs /\ i # Len(calls) /\ calls'[i] = calls[i]
      BY <1>4, <1>10 DEF Runs
    <3>2. QED
      BY <3>1, CallsFacts, CallFields DEF Runs
  <2>2. ASSUME NEW i \in Runs', calls[i].ctx = active
        PROVE  calls[i].exit < Len(F) /\ calls[i].exit + 1 \in 1 .. TopCall.exit
    <3>1. calls[i].exit < TopCall.exit
      BY <1>0, <2>1, <2>2, TopExit
    <3>2. QED
      BY <1>0, <2>1, <3>1, TopExit
  <2>3. ASSUME NEW i \in Runs' PROVE calls'[i].exit < Len(frames'[calls'[i].ctx])
    <3>1. CASE calls[i].ctx = active
      BY <1>3, <2>1, <2>2, <3>1
    <3>2. CASE calls[i].ctx # active
      <4>1. frames'[calls[i].ctx] = frames[calls[i].ctx]
        BY <1>3, <2>1, <3>2
      <4>2. calls[i].exit < Len(frames[calls[i].ctx])
        BY <2>1 DEF RunInv
      <4>3. QED
        BY <2>1, <4>1, <4>2
    <3>3. QED
      BY <3>1, <3>2
  <2>4. \A i, j \in Runs' : i < j /\ calls'[i].ctx = calls'[j].ctx => calls'[i].exit < calls'[j].exit
    BY <2>1 DEF RunInv
  <2>5. ASSUME NEW i \in Runs', calls'[i].kind = "callback"
        PROVE  /\ frames'[calls'[i].ctx][calls'[i].exit + 1] = calls'[i].size
               /\ \A h \in DOMAIN handlers'[calls'[i].ctx] :
                    handlers'[calls'[i].ctx][h].depth # calls'[i].exit
    <3>1. /\ frames[calls[i].ctx][calls[i].exit + 1] = calls[i].size
          /\ \A h \in DOMAIN handlers[calls[i].ctx] :
               handlers[calls[i].ctx][h].depth # calls[i].exit
      BY <2>1, <2>5 DEF RunInv
    <3>2. CASE calls[i].ctx = active
      <4>1. F[calls[i].exit + 1] = calls[i].size
        BY <2>2, <3>1, <3>2
      <4>2. \A h \in DOMAIN H : H[h].depth # calls[i].exit
        BY <3>1, <3>2 DEF Tries
      <4>3. QED
        BY <1>3, <2>1, <3>2, <4>1, <4>2
    <3>3. CASE calls[i].ctx # active
      <4>1. /\ frames'[calls[i].ctx] = frames[calls[i].ctx]
            /\ handlers'[calls[i].ctx] = handlers[calls[i].ctx]
        BY <1>3, <2>1, <3>3
      <4>2. QED
        BY <2>1, <3>1, <4>1
    <3>4. QED
      BY <3>2, <3>3
  <2>6. Depth' = TopCall'.depth
    <3>1. Depth' = TopCall.exit
      BY <1>1, <1>3 DEF Depth
    <3>2. CASE TopCall.kind = "callback"
      BY <1>4, <1>5, <3>1, <3>2 DEF Fits
    <3>3. CASE TopCall.kind = "interpret"
      <4>1. calls[Len(calls) - 1].kind = "host" /\ TopCall.exit = 0
        BY <1>5, <3>3 DEF Fits
      <4>2. calls[Len(calls) - 1] = Host
        BY <1>5, <4>1, CallsFacts DEF CallsInv
      <4>3. QED
        BY <1>4, <3>1, <4>1, <4>2 DEF Host
    <3>4. QED
      BY <3>2, <3>3
  <2>7. outcome' # "error" => sp'[active'] = TopCall'.size
                                /\ Slack(frames'[active'], sp'[active'], MaxOperands + 1)
    BY <1>1, <1>3, <1>4
  <2>8. QED
    BY <2>3, <2>4, <2>5, <2>6, <2>7 DEF RunInv
<1>13. QED
  BY <1>3, <1>7, <1>8, <1>9, <1>11, <1>12

(* Runs whose contexts a step leaves alone keep their frames.              *)
LEMMA RunsKept ==
  ASSUME RunInv,
         \A i \in Runs' : /\ i \in Runs /\ calls'[i] = calls[i]
                          /\ frames'[calls[i].ctx] = frames[calls[i].ctx]
                          /\ handlers'[calls[i].ctx] = handlers[calls[i].ctx]
  PROVE  /\ \A i \in Runs' : calls'[i].exit < Len(frames'[calls'[i].ctx])
         /\ \A i, j \in Runs' : i < j /\ calls'[i].ctx = calls'[j].ctx =>
              calls'[i].exit < calls'[j].exit
         /\ \A i \in Runs' : calls'[i].kind = "callback" =>
              /\ frames'[calls'[i].ctx][calls'[i].exit + 1] = calls'[i].size
              /\ \A h \in DOMAIN handlers'[calls'[i].ctx] :
                   handlers'[calls'[i].ctx][h].depth # calls'[i].exit
<1>1. ASSUME NEW i \in Runs'
      PROVE  calls'[i].exit < Len(frames'[calls'[i].ctx])
  BY DEF RunInv
<1>2. ASSUME NEW i \in Runs', NEW j \in Runs', i < j, calls'[i].ctx = calls'[j].ctx
      PROVE  calls'[i].exit < calls'[j].exit
  BY <1>2 DEF RunInv
<1>3. ASSUME NEW i \in Runs', calls'[i].kind = "callback"
      PROVE  /\ frames'[calls'[i].ctx][calls'[i].exit + 1] = calls'[i].size
             /\ \A h \in DOMAIN handlers'[calls'[i].ctx] :
                  handlers'[calls'[i].ctx][h].depth # calls'[i].exit
  BY <1>3 DEF RunInv
<1>4. QED
  BY <1>1, <1>2, <1>3

(* Nothing else runs in a coroutine while its resume is the top of the C++ *)
(* stack or next to it.                                                    *)
LEMMA NothingElse ==
  ASSUME TypeOK, CallsInv, ResumeInv, NEW n \in Resumes, NEW i \in DOMAIN calls, i <= n
  PROVE  calls[i].ctx # calls[n].co
<1>1. calls[n].kind = "resume" /\ calls[n].co \in Coros
  <2>1. n \in DOMAIN calls /\ calls[n].kind = "resume"
    BY DEF Resumes
  <2>2. n # 1
    BY <2>1 DEF CallsInv, Host
  <2>3. n > 1
    BY <2>1, <2>2, CallsFacts
  <2>4. QED
    BY <2>1, <2>3 DEF CallsInv, Fits, RunKinds
<1>2. SUFFICES ASSUME calls[i].ctx = calls[n].co PROVE FALSE
  OBVIOUS
<1>3. PICK j \in Resumes : j < i /\ calls[j].co = calls[n].co
  BY <1>1, <1>2 DEF ResumeInv
<1>4. j = n
  BY <1>3 DEF ResumeInv
<1>5. QED
  BY <1>3, <1>4, CallsFacts DEF Resumes

(* The run of a coroutine ends, by its return, a yield or an error: its    *)
(* resume takes over.                                                      *)
LEMMA ResumedRunEnds ==
  ASSUME IInv, TopCall.kind = "resumed", outcome' \in {"value", "error"},
         calls' = Below, UNCHANGED <<status, active>>, yielded' \in BOOLEAN,
         NEW F \in Seq(Nat), NEW s \in Nat, NEW H \in Seq(Handler),
         SetFrames(F), SetSp(s), SetHandlers(H),
         Len(F) <= MaxFrames, Stacked(F, s, H),
         outcome' # "error" => Slack(F, s, MaxOperands + 2),
         yielded' => outcome' = "value" /\ F # << >> /\ Slack(F, s, MaxOperands + 1)
  PROVE  IInv'
<1> USE DEF IInv
<1>0. TopCall.kind \in RunKinds /\ TopCall.kind # "host"
  BY DEF RunKinds
<1>1. active \in Coros => status[active] = "RUNNING"
  BY ActiveResumed
<1>2. /\ frames' \in [Contexts -> Seq(Nat)]
      /\ \A c \in Contexts : Len(frames'[c]) <= MaxFrames
      /\ sp' \in [Contexts -> Nat]
      /\ handlers' \in [Contexts -> Seq(Handler)]
      /\ frames'[active] = F /\ sp'[active] = s /\ handlers'[active] = H
      /\ \A c \in Contexts \ {active} :
           frames'[c] = frames[c] /\ sp'[c] = sp[c] /\ handlers'[c] = handlers[c]
      /\ StackInv'
  BY <1>1, OneContext
<1>3. /\ calls' \in Seq(CallRecord)
      /\ DOMAIN calls' = DOMAIN calls \ {Len(calls)}
      /\ \A i \in DOMAIN calls' : calls'[i] = calls[i]
      /\ TopCall' = calls[Len(calls) - 1]
      /\ calls' # << >> /\ calls'[1] = Host
      /\ \A i \in DOMAIN calls' : i > 1 => Fits(calls'[i - 1], calls'[i])
  BY <1>0, Returned
<1>4. Fits(calls[Len(calls) - 1], TopCall) /\ Len(calls) - 1 \in DOMAIN calls
  BY <1>0, Called
<1>5. TopCall'.kind = "resume" /\ TopCall'.co = active
  BY <1>0, <1>3, <1>4, TopExit DEF Fits, RunsIn
<1>6. TypeOK'
  BY <1>2, <1>3 DEF TypeOK
<1>7. CallsInv'
  BY <1>3, <1>5 DEF CallsInv, RunsIn
<1>8. OutcomeInv'
  BY <1>2, <1>5 DEF OutcomeInv, RunKinds
<1>9. Resumes' = Resumes /\ Runs' = Runs \ {Len(calls)}
  <2>1. Len(calls) \notin Resumes
    BY CallsFacts DEF Resumes
  <2>2. QED
    BY <1>3, <2>1 DEF Resumes, Runs
<1>10. ResumeInv'
  <2>1. \A i \in Resumes : calls'[i] = calls[i]
    BY <1>3, <1>9 DEF Resumes
  <2>2. RunningIffResumed'
    BY <1>9, <2>1 DEF ResumeInv, RunningIffResumed, Resumes
  <2>3. \A i, j \in Resumes' : calls'[i].co = calls'[j].co => i = j
    BY <1>9, <2>1 DEF ResumeInv
  <2>4. \A i \in DOMAIN calls' : calls'[i].ctx \in Coros =>
          \E j \in Resumes' : j < i /\ calls'[j].co = calls'[i].ctx
    BY <1>3, <1>9, <2>1 DEF ResumeInv
  <2>5. QED
    BY <2>2, <2>3, <2>4 DEF ResumeInv
<1>11. RunInv'
  <2>1. ASSUME NEW i \in Runs'
        PROVE  /\ i \in Runs /\ calls'[i] = calls[i]
               /\ frames'[calls[i].ctx] = frames[calls[i].ctx]
               /\ handlers'[calls[i].ctx] = handlers[calls[i].ctx]
    <3>1. i \in Runs /\ i \in DOMAIN calls /\ i # Len(calls) /\ calls'[i] = calls[i]
      BY <1>3, <1>9 DEF Runs
    <3>2. i <= Len(calls) - 1 /\ Len(calls) - 1 \in Resumes
      BY <1>3, <1>4, <1>5, <3>1, CallsFacts DEF Resumes
    <3>3. calls[i].ctx # active /\ calls[i].ctx \in Contexts
      BY <1>3, <1>5, <3>1, <3>2, NothingElse, CallsFacts, CallFields
    <3>4. QED
      BY <1>2, <3>1, <3>3
  <2>2. ~InNative'
    BY <1>5 DEF InNative
  <2>3. QED
    BY <2>1, <2>2, RunsKept DEF RunInv
<1>12. QED
  BY <1>2, <1>6, <1>7, <1>8, <1>10, <1>11

-----------------------------------------------------------------------------
(* Bytecode within a frame.                                                *)

LEMMA KeepAll ==
  ASSUME NEW D, NEW s \in Seq(D)
  PROVE  Keep(s, Len(s)) = s
<1>1. Len(s) \in 0 .. Len(s)
  BY SequenceFacts
<1>2. Keep(s, Len(s)) \in Seq(D) /\ DOMAIN Keep(s, Len(s)) = 1 .. Len(s)
      /\ Len(Keep(s, Len(s))) = Len(s)
      /\ \A i \in 1 .. Len(s) : Keep(s, Len(s))[i] = s[i]
  BY <1>1, KeepFacts
<1> DEFINE t == Keep(s, Len(s))
<1> HIDE DEF t
<1>3. t \in Seq(D) /\ Len(t) = Len(s) /\ \A i \in 1 .. Len(s) : t[i] = s[i]
  BY <1>2 DEF t
<1>4. t = s
  BY <1>3
<1>5. QED
  BY <1>4 DEF t

(* The innermost try of a context is the deepest.                          *)
LEMMA InnermostTry ==
  ASSUME NEW F \in Seq(Nat), NEW H \in Seq(Handler), NEW s \in Nat,
         Stacked(F, s, H), H # << >>
  PROVE  /\ Len(H) \in DOMAIN H /\ Len(H) - 1 \in 0 .. Len(H)
         /\ H[Len(H)].depth \in 1 .. Len(F) /\ H[Len(H)].top \in Nat
         /\ \A i \in DOMAIN H : /\ H[i].depth \in 1 .. H[Len(H)].depth
                                /\ H[i].top <= H[Len(H)].top /\ H[i].top \in Nat
<1>1. Len(H) \in DOMAIN H /\ DOMAIN H = 1 .. Len(H) /\ Len(H) \in Nat
  BY SequenceFacts
<1>2. DOMAIN F = 1 .. Len(F) /\ Len(F) \in Nat
  BY SequenceFacts
<1>3. \A i \in DOMAIN H : H[i].depth \in Nat /\ H[i].top \in Nat /\ H[i].depth \in 1 .. Len(F)
  BY <1>2, HandlerFields DEF Stacked
<1>4. ASSUME NEW i \in DOMAIN H
      PROVE  H[i].depth <= H[Len(H)].depth /\ H[i].top <= H[Len(H)].top
  <2>1. CASE i = Len(H)
    BY <1>3, <2>1
  <2>2. CASE i # Len(H)
    <3>1. i < Len(H)
      BY <1>1, <2>2
    <3>2. QED
      BY <1>1, <3>1 DEF Stacked
  <2>3. QED
    BY <2>1, <2>2
<1>5. \A i \in DOMAIN H : H[i].depth \in 1 .. H[Len(H)].depth
  BY <1>1, <1>3, <1>4
<1>6. QED
  BY <1>1, <1>3, <1>4, <1>5

LEMMA NoTryHere ==
  ASSUME NEW F \in Seq(Nat), NEW H \in Seq(Handler), NEW s \in Nat, Stacked(F, s, H),
         NEW k \in Nat, H = << >> \/ H[Len(H)].depth < k
  PROVE  \A i \in DOMAIN H : H[i].depth < k
<1>1. CASE H = << >>
  <2>1. DOMAIN H = {}
    BY <1>1
  <2>2. QED
    BY <2>1
<1>2. CASE H # << >>
  <2>1. H[Len(H)].depth < k /\ H[Len(H)].depth \in Nat
    BY <1>2, InnermostTry, HandlerFields
  <2>2. QED
    BY <1>2, <2>1, InnermostTry, HandlerFields
<1>3. QED
  BY <1>1, <1>2

(* A value above the floor of the last frame is popped.                    *)
LEMMA StackedPop ==
  ASSUME NEW F \in Seq(Nat), NEW H \in Seq(Handler), NEW s \in Nat,
         Stacked(F, s, H), F # << >>, s > F[Len(F)] + 1,
         H # << >> /\ H[Len(H)].depth = Len(F) => s > H[Len(H)].top
  PROVE  s - 1 \in Nat /\ Stacked(F, s - 1, H)
<1>1. Len(F) \in DOMAIN F /\ DOMAIN F = 1 .. Len(F) /\ Len(F) \in Nat /\ F[Len(F)] \in Nat
  BY SequenceFacts
<1>2. s - 1 \in Nat /\ s - 1 <= Highest
  BY <1>1, Limits DEF Stacked
<1>3. ASSUME NEW i \in 1 .. Len(F) PROVE F[i] < s - 1
  <2>1. F[i] \in Nat
    BY <1>1, SequenceFacts
  <2>2. CASE i = Len(F)
    BY <1>1, <2>2
  <2>3. CASE i # Len(F)
    <3>1. i < Len(F)
      BY <1>1, <2>3, NextIn
    <3>2. F[i] < F[Len(F)]
      BY <1>1, <3>1 DEF Stacked
    <3>3. QED
      BY <1>1, <2>1, <3>2
  <2>4. QED
    BY <2>2, <2>3
<1>4. ASSUME NEW i \in 1 .. Len(H)
      PROVE  H[i].depth <= Len(F) /\ (H[i].depth = Len(F) => H[i].top <= s - 1)
  <2>1. i \in DOMAIN H /\ H # << >> /\ H[i].top \in Nat
    BY SequenceFacts, HandlerFields
  <2>2. /\ H[i].depth \in 1 .. H[Len(H)].depth /\ H[i].top <= H[Len(H)].top
        /\ H[Len(H)].depth \in 1 .. Len(F) /\ H[Len(H)].top \in Nat
    BY <2>1, InnermostTry
  <2>3. CASE H[i].depth = Len(F)
    <3>1. H[Len(H)].depth = Len(F)
      BY <1>1, <2>2, <2>3
    <3>2. QED
      BY <1>1, <2>1, <2>2, <2>3, <3>1
  <2>4. CASE H[i].depth # Len(F)
    BY <1>1, <2>2, <2>4
  <2>5. QED
    BY <2>3, <2>4
<1>5. Stacked(Keep(F, Len(F)), s - 1, Keep(H, Len(H)))
  <2>1. Len(F) \in 0 .. Len(F) /\ Len(H) \in 0 .. Len(H)
    BY SequenceFacts
  <2>2. QED
    BY <1>2, <1>3, <1>4, <2>1, StackedCut
<1>6. QED
  BY <1>2, <1>5, KeepAll

(* The running run's frame, stack and tries.                               *)
LEMMA RunningFacts ==
  ASSUME IInv, TopCall.kind \in RunKinds
  PROVE  /\ active \in Contexts
         /\ frames[active] \in Seq(Nat) /\ frames[active] # << >>
         /\ Depth = Len(frames[active]) /\ Depth \in 1 .. MaxFrames
         /\ Depth \in DOMAIN frames[active] /\ DOMAIN frames[active] = 1 .. Depth
         /\ Base = frames[active][Len(frames[active])] /\ Base \in Nat
         /\ sp[active] \in Nat /\ Base < sp[active] /\ Base + 1 + Headroom <= StackLimit
         /\ Tries = handlers[active] /\ Tries \in Seq(Handler)
         /\ Stacked(frames[active], sp[active], Tries)
         /\ outcome # "error" => sp[active] <= Base + (MaxOperands + 2)
         /\ TopCall.exit \in Nat /\ TopCall.exit < Depth
<1> USE DEF IInv
<1>1. active \in Contexts /\ TopCall.exit \in Nat /\ TopCall.exit < Depth /\ Depth \in Nat
  BY TopExit, CallsFacts
<1>2. /\ frames[active] \in Seq(Nat) /\ sp[active] \in Nat /\ Tries = handlers[active]
      /\ Tries \in Seq(Handler) /\ Depth = Len(frames[active]) /\ Depth <= MaxFrames
  BY <1>1 DEF TypeOK, Depth, Tries
<1>3. Depth \in 1 .. MaxFrames
  BY <1>1, <1>2, Limits
<1>4. /\ frames[active] # << >> /\ DOMAIN frames[active] = 1 .. Depth /\ Depth \in 1 .. Depth
      /\ Base \in Nat
  BY <1>1, <1>2, SequenceFacts DEF Base
<1>5. Stacked(frames[active], sp[active], Tries)
  BY <1>1, <1>2 DEF StackInv
<1>6. Base < sp[active] /\ Base + 1 + Headroom <= StackLimit
  BY <1>4, <1>5 DEF Stacked, Base
<1>7. outcome # "error" => sp[active] <= Base + (MaxOperands + 2)
  BY <1>1, <1>2, <1>4 DEF StackInv, Slack, Base
<1>8. QED
  BY <1>1, <1>2, <1>3, <1>4, <1>5, <1>6, <1>7 DEF Base

LEMMA StackAlone ==
  ASSUME TypeOK, active \in Contexts
  PROVE  /\ UNCHANGED frames => SetFrames(frames[active])
         /\ UNCHANGED sp => SetSp(sp[active])
         /\ UNCHANGED handlers => SetHandlers(handlers[active])
<1>1. /\ frames = [frames EXCEPT ![active] = frames[active]]
      /\ sp = [sp EXCEPT ![active] = sp[active]]
      /\ handlers = [handlers EXCEPT ![active] = handlers[active]]
  BY DEF TypeOK
<1>2. QED
  BY <1>1 DEF SetFrames, SetSp, SetHandlers

(* A step that leaves the frames and the tries: it pushes or pops values,  *)
(* or raises an error.                                                     *)
LEMMA ValueStep ==
  ASSUME IInv, TopCall.kind \in RunKinds, outcome' \in {"none", "error"},
         UNCHANGED <<frames, handlers, calls, coroVars>>,
         NEW s \in Nat, SetSp(s), Stacked(frames[active], s, Tries),
         outcome' # "error" => s <= Base + (MaxOperands + 2)
  PROVE  IInv'
<1>1. SetFrames(frames[active]) /\ SetHandlers(Tries)
  BY RunningFacts, StackAlone DEF IInv
<1>2. outcome' # "error" => Slack(frames[active], s, MaxOperands + 2)
  BY RunningFacts DEF Slack
<1>3. \A h \in DOMAIN Tries : \E j \in DOMAIN Tries : Tries[j].depth = Tries[h].depth
  OBVIOUS
<1>4. frames[active] \in Seq(Nat) /\ Tries \in Seq(Handler) /\ Len(frames[active]) <= MaxFrames
      /\ TopCall.exit < Len(frames[active])
  BY RunningFacts
<1>5. QED
  BY <1>1, <1>2, <1>3, <1>4, RunStep

(* A frame within its operands can take one more value.                    *)
LEMMA RoomToPush ==
  ASSUME IInv, TopCall.kind \in RunKinds, MayPush
  PROVE  /\ sp[active] \in Nat /\ sp[active] + 1 \in Nat /\ sp[active] <= sp[active] + 1
         /\ sp[active] <= Base + MaxOperands /\ sp[active] <= Base + (MaxOperands + 1)
         /\ sp[active] + 1 <= Base + (MaxOperands + 1)
         /\ sp[active] + 1 <= Base + (MaxOperands + 2)
         /\ sp[active] + 1 <= Highest
<1>1. sp[active] \in Nat /\ Base \in Nat /\ Base + 1 + Headroom <= StackLimit
  BY RunningFacts
<1>2. sp[active] - Base <= MaxOperands
  BY DEF MayPush
<1>3. QED
  BY <1>1, <1>2, Limits

LEMMA PushKeeps == ASSUME IInv, Push PROVE IInv'
<1>1. /\ TopCall.kind \in RunKinds /\ outcome = "none" /\ outcome' = "none"
      /\ MayPush /\ SetSp(sp[active] + 1)
      /\ UNCHANGED <<frames, handlers, calls, coroVars>>
  BY DEF Push, Executing
<1>2. sp[active] + 1 \in Nat /\ sp[active] + 1 <= Base + (MaxOperands + 2)
      /\ sp[active] <= sp[active] + 1 /\ sp[active] + 1 <= Highest
  BY <1>1, RoomToPush
<1>3. Stacked(frames[active], sp[active] + 1, Tries)
  BY <1>1, <1>2, RunningFacts, StackedPush
<1>4. QED
  BY <1>1, <1>2, <1>3, ValueStep

LEMMA FloorAbove ==
  ASSUME IInv, TopCall.kind \in RunKinds, sp[active] > Floor
  PROVE  sp[active] - 1 \in Nat /\ Stacked(frames[active], sp[active] - 1, Tries)
<1>1. /\ frames[active] \in Seq(Nat) /\ Tries \in Seq(Handler) /\ sp[active] \in Nat
      /\ Stacked(frames[active], sp[active], Tries) /\ frames[active] # << >>
      /\ Base = frames[active][Len(frames[active])] /\ Base \in Nat
      /\ Depth = Len(frames[active])
  BY RunningFacts
<1>2. CASE InTry
  <2>1. Tries # << >> /\ Tries[Len(Tries)].depth = Len(frames[active])
        /\ sp[active] > Tries[Len(Tries)].top
    BY <1>1, <1>2 DEF InTry, Floor, TopTry
  <2>2. frames[active][Len(frames[active])] < Tries[Len(Tries)].top
    BY <1>1, <2>1, InnermostTry DEF Stacked
  <2>3. sp[active] > frames[active][Len(frames[active])] + 1
    <3>1. Tries[Len(Tries)].top \in Nat
      BY <1>1, <2>1, InnermostTry
    <3>2. QED
      BY <1>1, <2>1, <2>2, <3>1
  <2>4. QED
    BY <1>1, <2>1, <2>3, StackedPop
<1>3. CASE ~InTry
  <2>1. sp[active] > frames[active][Len(frames[active])] + 1
    BY <1>1, <1>3 DEF Floor
  <2>2. ~(Tries # << >> /\ Tries[Len(Tries)].depth = Len(frames[active]))
    BY <1>1, <1>3 DEF InTry, TopTry
  <2>3. QED
    BY <1>1, <2>1, <2>2, StackedPop
<1>4. QED
  BY <1>2, <1>3

LEMMA PopKeeps == ASSUME IInv, Pop PROVE IInv'
<1>1. /\ TopCall.kind \in RunKinds /\ outcome = "none" /\ outcome' = "none"
      /\ sp[active] > Floor /\ SetSp(sp[active] - 1)
      /\ UNCHANGED <<frames, handlers, calls, coroVars>>
  BY DEF Pop, Executing
<1>2. sp[active] - 1 \in Nat /\ Stacked(frames[active], sp[active] - 1, Tries)
  BY <1>1, FloorAbove
<1>3. sp[active] - 1 <= Base + (MaxOperands + 2)
  BY <1>1, RunningFacts, Limits
<1>4. QED
  BY <1>1, <1>2, <1>3, ValueStep

LEMMA ThrowKeeps == ASSUME IInv, Throw PROVE IInv'
<1>1. /\ TopCall.kind \in RunKinds /\ outcome' = "error"
      /\ UNCHANGED <<frames, sp, handlers, calls, coroVars>>
  BY DEF Throw, Executing, vmVars
<1>2. sp[active] \in Nat /\ Stacked(frames[active], sp[active], Tries) /\ SetSp(sp[active])
  BY <1>1, RunningFacts, StackAlone DEF IInv
<1>3. QED
  BY <1>1, <1>2, ValueStep

LEMMA TryPushKeeps == ASSUME IInv, TryPush PROVE IInv'
<1> DEFINE h == [depth |-> Depth, top |-> sp[active]]
           H == Append(Tries, h)
<1>1. /\ TopCall.kind \in RunKinds /\ outcome = "none" /\ outcome' = "none"
      /\ MayPush /\ SetHandlers(H)
      /\ UNCHANGED <<frames, sp, calls, coroVars>>
  BY DEF TryPush, Executing
<1>2. /\ SetFrames(frames[active]) /\ SetSp(sp[active])
      /\ frames[active] \in Seq(Nat) /\ sp[active] \in Nat /\ Tries \in Seq(Handler)
      /\ Depth = Len(frames[active]) /\ Depth <= MaxFrames
      /\ TopCall.exit < Depth /\ frames[active] # << >>
      /\ Stacked(frames[active], sp[active], Tries)
  BY <1>1, RunningFacts, StackAlone DEF IInv
<1>3. sp[active] <= frames[active][Len(frames[active])] + MaxOperands
  BY <1>1, RoomToPush, RunningFacts
<1>4. Stacked(frames[active], sp[active], H)
  BY <1>2, <1>3, StackedTry
<1>5. Slack(frames[active], sp[active], MaxOperands + 2)
  BY <1>1, RunningFacts DEF Slack
<1>6. h \in Handler /\ h.depth = Depth
  BY <1>1, RunningFacts DEF Handler
<1> HIDE DEF h
<1>7. H \in Seq(Handler) /\ DOMAIN H = 1 .. Len(Tries) + 1 /\ H[Len(Tries) + 1] = h
      /\ \A i \in 1 .. Len(Tries) : H[i] = Tries[i]
  BY <1>2, <1>6, AppendFacts
<1>8. ASSUME NEW i \in DOMAIN H
      PROVE  \/ TopCall.exit < H[i].depth
             \/ \E j \in DOMAIN Tries : Tries[j].depth = H[i].depth
  <2>1. CASE i = Len(Tries) + 1
    BY <1>2, <1>6, <1>7, <2>1
  <2>2. CASE i # Len(Tries) + 1
    <3>1. i \in DOMAIN Tries
      BY <1>2, <1>7, <2>2, SequenceFacts
    <3>2. QED
      BY <1>2, <1>7, <3>1, SequenceFacts
  <2>3. QED
    BY <2>1, <2>2
<1> HIDE DEF H
<1>9. QED
  BY <1>1, <1>2, <1>4, <1>5, <1>7, <1>8, RunStep

LEMMA TryPopKeeps == ASSUME IInv, TryPop PROVE IInv'
<1> DEFINE m == Len(Tries) - 1
           H == Keep(Tries, m)
<1>1. /\ TopCall.kind \in RunKinds /\ outcome = "none" /\ outcome' = "none"
      /\ InTry /\ sp[active] = TopTry.top /\ SetHandlers(H)
      /\ UNCHANGED <<frames, sp, calls, coroVars>>
  BY DEF TryPop, Executing
<1>2. /\ SetFrames(frames[active]) /\ SetSp(sp[active])
      /\ frames[active] \in Seq(Nat) /\ sp[active] \in Nat /\ Tries \in Seq(Handler)
      /\ Depth = Len(frames[active]) /\ Depth <= MaxFrames
      /\ TopCall.exit < Depth /\ frames[active] # << >>
      /\ Stacked(frames[active], sp[active], Tries)
  BY <1>1, RunningFacts, StackAlone DEF IInv
<1>3. Tries # << >> /\ sp[active] = Tries[Len(Tries)].top
  BY <1>1 DEF InTry, TopTry
<1>4. /\ m \in 0 .. Len(Tries) /\ DOMAIN Tries = 1 .. Len(Tries) /\ Len(Tries) \in Nat
      /\ \A i \in DOMAIN Tries : Tries[i].depth <= Len(frames[active]) /\ Tries[i].top <= sp[active]
  <2>1. \A i \in DOMAIN Tries : /\ Tries[i].depth \in 1 .. Tries[Len(Tries)].depth
                                /\ Tries[i].top <= Tries[Len(Tries)].top
    BY <1>2, <1>3, InnermostTry
  <2>2. Tries[Len(Tries)].depth \in 1 .. Len(frames[active])
    BY <1>2, <1>3, InnermostTry
  <2>3. Len(frames[active]) \in Nat
    BY <1>2, SequenceFacts
  <2>4. \A i \in DOMAIN Tries : Tries[i].depth <= Len(frames[active])
    BY <2>1, <2>2, <2>3
  <2>5. QED
    BY <1>2, <1>3, <2>1, <2>4, InnermostTry, SequenceFacts
<1>5. H \in Seq(Handler) /\ DOMAIN H = 1 .. m /\ \A i \in 1 .. m : H[i] = Tries[i] /\ i \in DOMAIN Tries
  <2>1. H \in Seq(Handler) /\ DOMAIN H = 1 .. m /\ \A i \in 1 .. m : H[i] = Tries[i]
    BY <1>2, <1>4, KeepFacts
  <2>2. \A i \in 1 .. m : i \in DOMAIN Tries
    BY <1>4
  <2>3. QED
    BY <2>1, <2>2
<1>6. Stacked(frames[active], sp[active], H)
  <2>1. Len(frames[active]) \in 0 .. Len(frames[active])
    BY <1>2, SequenceFacts
  <2>2. \A i \in 1 .. Len(frames[active]) : frames[active][i] < sp[active]
    BY <1>2, SequenceFacts DEF Stacked
  <2>3. sp[active] <= Highest
    BY <1>2 DEF Stacked
  <2>4. \A i \in 1 .. m : /\ Tries[i].depth <= Len(frames[active])
                          /\ Tries[i].depth = Len(frames[active]) => Tries[i].top <= sp[active]
    BY <1>4, <1>5
  <2>5. Stacked(Keep(frames[active], Len(frames[active])), sp[active], H)
    BY <1>2, <1>4, <2>1, <2>2, <2>3, <2>4, StackedCut
  <2>6. QED
    BY <1>2, <2>5, KeepAll
<1>7. Slack(frames[active], sp[active], MaxOperands + 2)
  BY <1>1, RunningFacts DEF Slack
<1>8. \A i \in DOMAIN H : \E j \in DOMAIN Tries : Tries[j].depth = H[i].depth
  BY <1>5
<1> HIDE DEF H
<1>9. QED
  BY <1>1, <1>2, <1>5, <1>6, <1>7, <1>8, RunStep

-----------------------------------------------------------------------------
(* Calls, returns and errors in the program.                               *)

LEMMA CallFunctionKeeps == ASSUME IInv, CallFunction PROVE IInv'
<1>1. /\ TopCall.kind \in RunKinds /\ outcome = "none" /\ MayPush /\ EnterFrame
      /\ UNCHANGED <<handlers, calls, coroVars>>
  BY DEF CallFunction, Executing
<1>2. /\ sp[active] \in Nat /\ sp[active] + 1 \in Nat /\ SetSp(sp[active] + 1)
      /\ sp[active] <= Base + (MaxOperands + 1) /\ sp[active] + 1 <= Highest
      /\ sp[active] <= sp[active] + 1
  BY <1>1, RoomToPush DEF EnterFrame
<1>3. /\ frames[active] \in Seq(Nat) /\ Tries \in Seq(Handler)
      /\ Depth = Len(frames[active]) /\ Depth \in Nat
      /\ TopCall.exit < Depth /\ TopCall.exit \in Nat /\ frames[active] # << >>
      /\ Stacked(frames[active], sp[active], Tries)
  BY <1>1, RunningFacts
<1>4. CASE RoomForFrame
  <2> DEFINE F == Append(frames[active], sp[active])
  <2>1. SetFrames(F) /\ outcome' = "none" /\ SetHandlers(Tries)
    BY <1>1, <1>4, RunningFacts, StackAlone DEF EnterFrame, IInv
  <2>2. Depth < MaxFrames /\ sp[active] + 1 + Headroom <= StackLimit
    BY <1>4 DEF RoomForFrame
  <2>3. Slack(frames[active], sp[active], MaxOperands + 1)
    BY <1>1, <1>2, RunningFacts DEF Slack
  <2>4. Stacked(F, sp[active] + 1, Tries)
    BY <1>2, <1>3, <2>2, <2>3, StackedEnter
  <2>5. /\ F \in Seq(Nat) /\ Len(F) = Depth + 1 /\ F[Depth + 1] = sp[active]
        /\ \A k \in 1 .. Depth : F[k] = frames[active][k]
    BY <1>2, <1>3, AppendFacts
  <2> HIDE DEF F
  <2>6. Slack(F, sp[active] + 1, MaxOperands + 2)
    BY <1>2, <2>5, Limits DEF Slack
  <2>7. TopCall.exit < Len(F) /\ Len(F) <= MaxFrames
    <3>1. \A e, d, m \in Nat : e < d /\ d < m => e < d + 1 /\ d + 1 <= m
      OBVIOUS
    <3>2. QED
      BY <1>3, <2>2, <2>5, <3>1, Limits, Zenon
  <2>8. \A k \in 1 .. TopCall.exit + 1 : F[k] = frames[active][k]
    <3>1. \A e, d \in Nat : e < d => \A k \in 1 .. e + 1 : k \in 1 .. d
      OBVIOUS
    <3>2. \A k \in 1 .. TopCall.exit + 1 : k \in 1 .. Depth
      BY <1>3, <3>1, Zenon
    <3>3. QED
      BY <2>5, <3>2, Zenon
  <2>9. \A h \in DOMAIN Tries : \E j \in DOMAIN Tries : Tries[j].depth = Tries[h].depth
    OBVIOUS
  <2>10. QED
    BY <1>1, <1>2, <1>3, <2>1, <2>4, <2>5, <2>6, <2>7, <2>8, <2>9, RunStep
<1>5. CASE ~RoomForFrame
  <2>1. outcome' = "error" /\ UNCHANGED frames
    BY <1>1, <1>5 DEF EnterFrame
  <2>2. Stacked(frames[active], sp[active] + 1, Tries)
    BY <1>2, <1>3, StackedPush
  <2>3. QED
    BY <1>1, <1>2, <2>1, <2>2, ValueStep
<1>6. QED
  BY <1>4, <1>5

(* No handler of the context is of the frame below a callback's.           *)
LEMMA WindowOfRun ==
  ASSUME IInv, TopCall.kind \in RunKinds
  PROVE  \A h \in DOMAIN Tries : Tries[h].depth # TopCall.exit
<1>1. TopCall.kind = "callback" \/ TopCall.exit = 0
  BY Called DEF Fits, RunKinds, IInv
<1>2. CASE TopCall.kind = "callback"
  <2>1. Len(calls) \in Runs /\ TopCall = calls[Len(calls)] /\ TopCall.ctx = active
    BY TopExit, CallsFacts DEF IInv
  <2>2. QED
    BY <1>2, <2>1 DEF IInv, RunInv, Tries
<1>3. CASE TopCall.exit = 0
  <2>1. \A h \in DOMAIN Tries : Tries[h].depth \in 1 .. Depth
    BY RunningFacts DEF Stacked
  <2>2. QED
    BY <1>3, <2>1, RunningFacts
<1>4. QED
  BY <1>1, <1>2, <1>3

(* The error takes the place of what the try had pushed.                   *)
LEMMA RoomForError ==
  ASSUME NEW b \in Nat, NEW x \in Nat, b < x, x <= b + MaxOperands,
         b + 1 + Headroom <= StackLimit
  PROVE  /\ x + 1 \in Nat /\ x + 1 <= Highest /\ x <= x + 1
         /\ x + 1 <= b + (MaxOperands + 2) /\ b < x + 1
BY Limits

LEMMA CatchKeeps == ASSUME IInv, Catch PROVE IInv'
<1> DEFINE k == TopTry.depth
           m == Len(Tries) - 1
           t == TopTry.top + 1
           F == Keep(frames[active], k)
           H == Keep(Tries, m)
<1>1. /\ TopCall.kind \in RunKinds /\ InWindow /\ outcome' = "none"
      /\ SetFrames(F) /\ SetSp(t) /\ SetHandlers(H) /\ UNCHANGED <<calls, coroVars>>
  BY DEF Catch, Raising
<1>2. /\ frames[active] \in Seq(Nat) /\ Tries \in Seq(Handler) /\ sp[active] \in Nat
      /\ Depth = Len(frames[active]) /\ Depth <= MaxFrames /\ Depth \in Nat
      /\ TopCall.exit \in Nat
      /\ Stacked(frames[active], sp[active], Tries)
  BY <1>1, RunningFacts
<1>3. Tries # << >> /\ TopTry = Tries[Len(Tries)] /\ ~(k < TopCall.exit)
  BY <1>1 DEF InWindow, TopTry
<1>4. /\ k \in 1 .. Depth /\ TopTry.top \in Nat /\ m \in 0 .. Len(Tries)
      /\ Len(Tries) \in DOMAIN Tries
      /\ \A i \in DOMAIN Tries : Tries[i].depth \in 1 .. k /\ Tries[i].top <= TopTry.top
  BY <1>2, <1>3, InnermostTry
<1>5. TopCall.exit < k
  BY <1>1, <1>2, <1>3, <1>4, WindowOfRun
<1>6. /\ frames[active][k] < TopTry.top
      /\ TopTry.top <= frames[active][k] + MaxOperands
      /\ frames[active][k] + 1 + Headroom <= StackLimit
      /\ frames[active][k] \in Nat
  BY <1>2, <1>3, <1>4, SequenceFacts DEF Stacked
<1>7. t \in Nat /\ t <= Highest /\ TopTry.top <= t /\ t <= frames[active][k] + (MaxOperands + 2)
      /\ frames[active][k] < t
  BY <1>4, <1>6, RoomForError
<1>8. \A i \in 1 .. k : frames[active][i] < t
  <2>1. ASSUME NEW i \in 1 .. k PROVE frames[active][i] < t
    <3>1. CASE i = k
      BY <1>7, <3>1
    <3>2. CASE i # k
      <4>1. i < k /\ i \in DOMAIN frames[active] /\ k \in DOMAIN frames[active]
        BY <1>2, <1>4, <3>2, SequenceFacts
      <4>2. frames[active][i] < frames[active][k] /\ frames[active][i] \in Nat
        BY <1>2, <4>1, SequenceFacts DEF Stacked
      <4>3. QED
        BY <1>6, <1>7, <4>2
    <3>3. QED
      BY <3>1, <3>2
  <2>2. QED
    BY <2>1
<1>9. DOMAIN Tries = 1 .. Len(Tries) /\ Len(Tries) \in Nat
  BY <1>2, SequenceFacts
<1>10. \A i \in 1 .. m : i \in DOMAIN Tries
  BY <1>9
<1>11. \A i \in 1 .. m : Tries[i].depth <= k /\ (Tries[i].depth = k => Tries[i].top <= t)
  <2>1. ASSUME NEW i \in 1 .. m PROVE Tries[i].depth <= k /\ Tries[i].top <= t
    <3>1. Tries[i].depth \in 1 .. k /\ Tries[i].top <= TopTry.top /\ Tries[i].top \in Nat
      BY <1>2, <1>4, <1>10, HandlerFields
    <3>2. QED
      BY <1>4, <1>7, <3>1
  <2>2. QED
    BY <2>1
<1>12. /\ F \in Seq(Nat) /\ Len(F) = k /\ (\A i \in 1 .. k : F[i] = frames[active][i])
       /\ H \in Seq(Handler) /\ DOMAIN H = 1 .. m /\ (\A i \in 1 .. m : H[i] = Tries[i])
  <2>1. k \in 0 .. Len(frames[active])
    BY <1>2, <1>4
  <2>2. QED
    <3>1. F \in Seq(Nat) /\ Len(F) = k /\ \A i \in 1 .. k : F[i] = frames[active][i]
      BY <1>2, <2>1, KeepFacts, Zenon
    <3>2. H \in Seq(Handler) /\ DOMAIN H = 1 .. m /\ \A i \in 1 .. m : H[i] = Tries[i]
      BY <1>2, <1>4, KeepFacts, Zenon
    <3>3. QED
      BY <3>1, <3>2
<1>13. Stacked(F, t, H)
  <2>1. k \in 0 .. Len(frames[active])
    BY <1>2, <1>4
  <2> HIDE DEF k, m, t
  <2>2. QED
    BY <1>2, <1>4, <1>7, <1>8, <1>11, <2>1, StackedCut
<1> HIDE DEF F, H, t, k, m
<1>14. Slack(F, t, MaxOperands + 2)
  BY <1>4, <1>7, <1>12 DEF Slack
<1>15. Len(F) <= MaxFrames /\ TopCall.exit < Len(F)
  BY <1>2, <1>4, <1>5, <1>12, Limits
<1>16. \A i \in 1 .. TopCall.exit + 1 : F[i] = frames[active][i]
  <2>1. k \in Nat /\ TopCall.exit \in Nat
    BY <1>2, <1>4
  <2>2. \A e, d \in Nat : e < d => \A i \in 1 .. e + 1 : i \in 1 .. d
    OBVIOUS
  <2>3. \A i \in 1 .. TopCall.exit + 1 : i \in 1 .. k
    BY <1>5, <2>1, <2>2, Zenon
  <2>4. QED
    BY <1>12, <2>3, Zenon
<1>17. \A i \in DOMAIN H : \E j \in DOMAIN Tries : Tries[j].depth = H[i].depth
  BY <1>10, <1>12
<1>18. QED
  BY <1>1, <1>7, <1>12, <1>13, <1>14, <1>15, <1>16, <1>17, RunStep

(* RETURN keeps the handlers of the frames that stay, and only those.      *)
LEMMA LastTryFacts ==
  ASSUME NEW F \in Seq(Nat), NEW s \in Nat, Tries \in Seq(Handler), Stacked(F, s, Tries),
         NEW n \in Nat
  PROVE  /\ LastTry(n) \in 0 .. Len(Tries)
         /\ \A i \in 1 .. LastTry(n) : Tries[i].depth <= n
<1> DEFINE S == {k \in 0 .. Len(Tries) : \A j \in (k + 1) .. Len(Tries) : Tries[j].depth > n}
<1>1. Len(Tries) \in Nat /\ DOMAIN Tries = 1 .. Len(Tries)
  BY SequenceFacts
<1>2. S \in SUBSET Nat /\ Len(Tries) \in S
  BY <1>1
<1>3. PICK k \in S : \A m \in S : k <= m
  <2> HIDE DEF S
  <2>1. QED
    BY <1>2, LeastNatural
<1>4. k \in 0 .. Len(Tries) /\ \A j \in (k + 1) .. Len(Tries) : Tries[j].depth > n
  BY <1>3
<1>5. k > 0 => Tries[k].depth <= n
  <2>1. SUFFICES ASSUME k > 0, ~(Tries[k].depth <= n) PROVE FALSE
    OBVIOUS
  <2>2. k \in DOMAIN Tries /\ Tries[k].depth > n
    BY <1>1, <1>4, <2>1, HandlerFields
  <2>3. k - 1 \in 0 .. Len(Tries) /\ ~(k <= k - 1)
    BY <1>1, <1>4, <2>1
  <2>4. \A j \in (k - 1 + 1) .. Len(Tries) : j = k \/ j \in (k + 1) .. Len(Tries)
    BY <1>1, <1>4, <2>1
  <2>5. k - 1 \in S
    BY <1>4, <2>2, <2>3, <2>4
  <2>6. QED
    BY <1>3, <2>3, <2>5
<1>6. \E i \in 0 .. Len(Tries) : /\ i > 0 => Tries[i].depth <= n
                                 /\ \A j \in (i + 1) .. Len(Tries) : Tries[j].depth > n
  BY <1>4, <1>5
<1>7. /\ LastTry(n) \in 0 .. Len(Tries)
      /\ LastTry(n) > 0 => Tries[LastTry(n)].depth <= n
  BY <1>6 DEF LastTry
<1>8. ASSUME NEW i \in 1 .. LastTry(n) PROVE Tries[i].depth <= n
  <2> DEFINE l == LastTry(n)
  <2>1. l \in DOMAIN Tries /\ i \in DOMAIN Tries /\ Tries[l].depth <= n /\ l \in Nat
    BY <1>1, <1>7
  <2> HIDE DEF l
  <2>2. Tries[i].depth \in Nat /\ Tries[l].depth \in Nat
    BY <2>1, HandlerFields
  <2>3. CASE i = l
    BY <2>1, <2>3
  <2>4. CASE i # l
    <3>1. i < l
      BY <2>1, <2>4 DEF l
    <3>2. Tries[i].depth <= Tries[l].depth
      BY <2>1, <3>1 DEF Stacked
    <3>3. QED
      BY <2>1, <2>2, <3>2
  <2>5. QED
    BY <2>3, <2>4
<1>9. QED
  BY <1>7, <1>8

(* The stacks when the last frame returns: its base is the new top, with   *)
(* or without the result on it.                                            *)
LEMMA StackedReturn ==
  ASSUME IInv, TopCall.kind \in RunKinds, NEW t \in {Base, Base + 1}
  PROVE  /\ t \in Nat /\ Depth - 1 \in Nat
         /\ Stacked(Keep(frames[active], Depth - 1), t, Keep(Tries, LastTry(Depth - 1)))
         /\ Keep(frames[active], Depth - 1) \in Seq(Nat)
         /\ Len(Keep(frames[active], Depth - 1)) = Depth - 1
         /\ \A i \in 1 .. Depth - 1 : Keep(frames[active], Depth - 1)[i] = frames[active][i]
         /\ Keep(Tries, LastTry(Depth - 1)) \in Seq(Handler)
         /\ \A h \in DOMAIN Keep(Tries, LastTry(Depth - 1)) : \E j \in DOMAIN Tries :
              Tries[j].depth = Keep(Tries, LastTry(Depth - 1))[h].depth
         /\ Depth > 1 => frames[active][Depth - 1] \in Nat
                           /\ Base <= frames[active][Depth - 1] + MaxOperands + 1
<1> DEFINE k == Depth - 1
           l == LastTry(k)
<1>1. /\ frames[active] \in Seq(Nat) /\ Tries \in Seq(Handler) /\ sp[active] \in Nat
      /\ Depth = Len(frames[active]) /\ DOMAIN frames[active] = 1 .. Depth
      /\ Depth \in Nat /\ Depth >= 1
      /\ Stacked(frames[active], sp[active], Tries)
      /\ Base \in Nat /\ Base < sp[active] /\ Base = frames[active][Depth]
      /\ Base + 1 + Headroom <= StackLimit
  BY RunningFacts
<1>2. k \in Nat /\ k \in 0 .. Len(frames[active])
  BY <1>1
<1>3. l \in 0 .. Len(Tries) /\ \A i \in 1 .. l : Tries[i].depth <= k
  BY <1>1, <1>2, LastTryFacts
<1>4. \A i \in 1 .. l : i \in DOMAIN Tries
  BY <1>1, <1>3, SequenceFacts
<1>5. t \in Nat /\ Base <= t /\ t <= Highest
  BY <1>1, Limits
<1>6. \A i \in 1 .. k : frames[active][i] < t
  <2>1. ASSUME NEW i \in 1 .. k PROVE frames[active][i] < t
    <3>1. i \in DOMAIN frames[active] /\ Depth \in DOMAIN frames[active] /\ i < Depth
      <4>1. k \in Nat /\ Depth = k + 1
        BY <1>1, <1>2
      <4>2. \A d \in Nat : \A j \in 1 .. d : j \in 1 .. d + 1 /\ d + 1 \in 1 .. d + 1 /\ j < d + 1
        OBVIOUS
      <4>3. i \in 1 .. Depth /\ Depth \in 1 .. Depth /\ i < Depth
        BY <4>1, <4>2, Zenon
      <4>4. QED
        BY <1>1, <4>3
    <3>2. frames[active][i] < Base /\ frames[active][i] \in Nat
      BY <1>1, <3>1, SequenceFacts DEF Stacked
    <3>3. \A x, y, z \in Nat : x < y /\ y <= z => x < z
      OBVIOUS
    <3>4. Base \in Nat
      BY <1>1
    <3>5. QED
      BY <1>5, <3>2, <3>3, <3>4, Zenon
  <2>2. QED
    BY <2>1
<1>7. \A i \in 1 .. l : Tries[i].depth <= k /\ (Tries[i].depth = k => Tries[i].top <= t)
  <2>1. ASSUME NEW i \in 1 .. l, Tries[i].depth = k PROVE Tries[i].top <= t
    <3>1. i \in DOMAIN Tries /\ k # Len(frames[active]) /\ k + 1 = Depth
      BY <1>1, <1>2, <1>4
    <3>2. Tries[i].top <= frames[active][k + 1] /\ Tries[i].top \in Nat
      BY <1>1, <2>1, <3>1, HandlerFields DEF Stacked
    <3>3. Tries[i].top <= Base
      BY <1>1, <3>1, <3>2
    <3>4. QED
      BY <1>1, <1>5, <3>2, <3>3
  <2>2. QED
    BY <1>3, <2>1
<1> HIDE DEF k, l
<1>8. Stacked(Keep(frames[active], k), t, Keep(Tries, l))
  BY <1>1, <1>2, <1>3, <1>5, <1>6, <1>7, StackedCut
<1>9. /\ Keep(frames[active], k) \in Seq(Nat) /\ Len(Keep(frames[active], k)) = k
      /\ \A i \in 1 .. k : Keep(frames[active], k)[i] = frames[active][i]
  BY <1>1, <1>2, KeepFacts
<1>10. /\ Keep(Tries, l) \in Seq(Handler) /\ DOMAIN Keep(Tries, l) = 1 .. l
       /\ \A i \in 1 .. l : Keep(Tries, l)[i] = Tries[i]
  BY <1>1, <1>3, KeepFacts
<1>11. \A h \in DOMAIN Keep(Tries, l) : \E j \in DOMAIN Tries : Tries[j].depth = Keep(Tries, l)[h].depth
  BY <1>4, <1>10
<1>12. Depth > 1 => frames[active][Depth - 1] \in Nat
                      /\ Base <= frames[active][Depth - 1] + MaxOperands + 1
  <2>1. SUFFICES ASSUME Depth > 1
                 PROVE  frames[active][Depth - 1] \in Nat
                          /\ Base <= frames[active][Depth - 1] + MaxOperands + 1
    OBVIOUS
  <2>2. Depth \in DOMAIN frames[active] /\ Depth - 1 \in DOMAIN frames[active]
    BY <1>1, <2>1
  <2>3. QED
    BY <1>1, <2>1, <2>2, SequenceFacts DEF Stacked
<1>13. QED
  BY <1>2, <1>5, <1>8, <1>9, <1>10, <1>11, <1>12 DEF k, l

(* The script's own run is the one that interpret started.                 *)
LEMMA ScriptRun ==
  ASSUME IInv, TopCall.kind \in RunKinds
  PROVE  InScript => TopCall.kind = "interpret"
<1> USE DEF IInv
<1>1. SUFFICES ASSUME InScript PROVE TopCall.kind = "interpret"
  OBVIOUS
<1>2. active = Main /\ Depth = 1 /\ calls[2].kind = "interpret"
  BY <1>1 DEF InScript
<1>3. Len(calls) > 1 /\ Len(calls) \in Nat /\ DOMAIN calls = 1 .. Len(calls)
  BY Called, CallsFacts DEF RunKinds
<1>4. 2 \in DOMAIN calls /\ 2 \in Runs /\ Fits(calls[1], calls[2])
  <2>1. 2 \in DOMAIN calls /\ 2 - 1 = 1
    BY <1>3
  <2>2. QED
    BY <1>2, <2>1 DEF CallsInv, Runs, RunKinds
<1>5. calls[2].ctx = Main
  BY <1>4 DEF Fits, CallsInv, Host, RunsIn
<1>6. CASE Len(calls) = 2
  BY <1>2, <1>6, CallsFacts
<1>7. CASE Len(calls) # 2
  <2>1. calls[2].exit < TopCall.exit /\ calls[2].exit \in Nat
    BY <1>2, <1>4, <1>5, <1>7, TopExit
  <2>2. TopCall.exit < 1 /\ TopCall.exit \in Nat
    BY <1>2, TopExit
  <2>3. QED
    BY <2>1, <2>2
<1>8. QED
  BY <1>6, <1>7

LEMMA InterpretRun ==
  ASSUME IInv, TopCall.kind = "interpret"
  PROVE  /\ TopCall.exit = 0 /\ active = Main /\ calls[2].kind = "interpret"
         /\ Len(calls) - 1 = 1 /\ calls[1] = Host
<1> USE DEF IInv
<1>1. /\ Fits(calls[Len(calls) - 1], TopCall) /\ Len(calls) - 1 \in DOMAIN calls
      /\ Len(calls) \in Nat /\ TopCall = calls[Len(calls)]
  BY Called, CallsFacts
<1>2. calls[Len(calls) - 1].kind = "host" /\ TopCall.exit = 0
  BY <1>1 DEF Fits
<1>3. Len(calls) - 1 = 1 /\ calls[1] = Host
  BY <1>1, <1>2, CallsFacts DEF CallsInv
<1>4. Len(calls) = 2
  BY <1>1, <1>3
<1>5. active = Main
  <2>1. TopCall.ctx = active
    BY TopExit DEF RunKinds
  <2>2. TopCall.ctx = Main
    <3>1. calls[Len(calls) - 1] = Host
      BY <1>3
    <3>2. RunsIn(Host) = Main
      BY DEF RunsIn, Host
    <3>3. QED
      BY <1>1, <3>1, <3>2 DEF Fits
  <2>3. QED
    BY <2>1, <2>2
<1>6. QED
  BY <1>1, <1>2, <1>3, <1>4, <1>5

LEMMA ReturnKeeps == ASSUME IInv, Return PROVE IInv'
<1> DEFINE F == Keep(frames[active], Depth - 1)
           H == Keep(Tries, LastTry(Depth - 1))
<1>1. /\ TopCall.kind \in RunKinds /\ outcome = "none" /\ ~InScript
      /\ SetFrames(F) /\ SetHandlers(H) /\ UNCHANGED coroVars
  BY DEF Return, Executing
<1>2. /\ Depth \in 1 .. MaxFrames /\ TopCall.exit \in Nat /\ TopCall.exit < Depth
      /\ Base \in Nat /\ Depth = Len(frames[active])
      /\ Base = frames[active][Depth]
  BY <1>1, RunningFacts
<1>3. /\ Base + 1 \in {Base, Base + 1} /\ Base \in {Base, Base + 1}
      /\ F \in Seq(Nat) /\ Len(F) = Depth - 1 /\ (\A i \in 1 .. Depth - 1 : F[i] = frames[active][i])
      /\ H \in Seq(Handler)
      /\ \A h \in DOMAIN H : \E j \in DOMAIN Tries : Tries[j].depth = H[h].depth
      /\ Stacked(F, Base, H) /\ Stacked(F, Base + 1, H)
      /\ Depth > 1 => /\ frames[active][Depth - 1] \in Nat
                      /\ Base <= frames[active][Depth - 1] + MaxOperands + 1
  BY <1>1, StackedReturn
<1> HIDE DEF F, H
<1>4. Slack(F, Base, MaxOperands + 1) /\ Slack(F, Base + 1, MaxOperands + 2)
  <2>1. CASE Depth = 1
    <3>1. F = << >>
      BY <1>3, <2>1, SequenceFacts
    <3>2. QED
      BY <3>1 DEF Slack
  <2>2. CASE Depth # 1
    <3>0. Depth \in Nat /\ Depth >= 1
      BY <1>2
    <3>1. Depth > 1 /\ Depth - 1 \in 1 .. Depth - 1
      BY <2>2, <3>0
    <3>2. F[Len(F)] = frames[active][Depth - 1]
      BY <1>3, <3>1
    <3>3. PICK b \in Nat : b = frames[active][Depth - 1] /\ Base <= b + MaxOperands + 1
      BY <1>3, <3>1
    <3>4. Base <= b + (MaxOperands + 1) /\ Base + 1 <= b + (MaxOperands + 2)
      <4>1. Base \in Nat /\ MaxOperands \in Nat
        BY <1>2, Limits
      <4>2. QED
        BY <3>3, <4>1, OneAbove
    <3>5. QED
      BY <3>2, <3>3, <3>4 DEF Slack
  <2>3. QED
    BY <2>1, <2>2
<1>5. Len(F) <= MaxFrames
  BY <1>2, <1>3, Limits
<1>6. CASE Depth - 1 # TopCall.exit
  <2>1. SetSp(Base + 1) /\ UNCHANGED <<calls, outcome>>
    BY <1>6 DEF Return
  <2>2. TopCall.exit < Depth - 1
    BY <1>2, <1>6
  <2>3. \A i \in 1 .. TopCall.exit + 1 : F[i] = frames[active][i]
    BY <1>2, <1>3, <2>2
  <2>4. Base + 1 \in Nat /\ TopCall.exit < Len(F)
    BY <1>2, <1>3, <2>2
  <2>5. QED
    BY <1>1, <1>3, <1>4, <1>5, <2>1, <2>3, <2>4, RunStep
<1>7. CASE Depth - 1 = TopCall.exit
  <2>1. EndRun(Base + 1)
    BY <1>7 DEF Return
  <2>2. calls' = Below /\ outcome' = "value"
    BY <2>1 DEF EndRun
  <2>3. CASE TopCall.kind = "interpret"
    <3>1. InScript
      <4>1. TopCall.exit = 0 /\ active = Main /\ calls[2].kind = "interpret"
        BY <2>3, InterpretRun
      <4>2. Depth = 1
        BY <1>2, <1>7, <4>1, Limits
      <4>3. QED
        BY <4>1, <4>2 DEF InScript
    <3>2. QED
      BY <1>1, <3>1
  <2>4. CASE TopCall.kind = "callback"
    <3>1. SetSp(Base)
      <4>1. (Base + 1) - 1 = Base
        BY <1>2
      <4>2. SetSp(IF TopCall.kind = "callback" THEN (Base + 1) - 1 ELSE Base + 1)
        BY <2>1 DEF EndRun
      <4>3. (IF TopCall.kind = "callback" THEN (Base + 1) - 1 ELSE Base + 1) = Base
        BY <2>4, <4>1
      <4>4. QED
        BY <4>2, <4>3, Zenon
    <3>2. Base = calls[Len(calls) - 1].size
      <4>1. Len(calls) \in Runs /\ TopCall = calls[Len(calls)] /\ TopCall.ctx = active
        BY <1>1, TopExit, CallsFacts DEF IInv
      <4>2. frames[active][TopCall.exit + 1] = TopCall.size
        BY <2>4, <4>1 DEF IInv, RunInv
      <4>3. TopCall.exit + 1 = Depth
        BY <1>2, <1>7
      <4>4. TopCall.size = calls[Len(calls) - 1].size
        BY <2>4, Called DEF IInv, Fits
      <4>5. QED
        BY <1>2, <4>2, <4>3, <4>4
    <3>3. Len(F) = TopCall.exit /\ \A i \in 1 .. TopCall.exit : F[i] = frames[active][i]
      BY <1>3, <1>7
    <3>4. QED
      BY <1>1, <1>2, <1>3, <1>4, <2>2, <2>4, <3>1, <3>2, <3>3, CalledRunEnds
  <2>5. CASE TopCall.kind = "resumed"
    <3>1. SetSp(Base + 1) /\ Base + 1 \in Nat
      BY <1>2, <2>1, <2>5 DEF EndRun
    <3>2. UNCHANGED <<status, active, yielded>> /\ ~yielded /\ yielded \in BOOLEAN
      BY <1>1, <2>5 DEF coroVars, IInv, OutcomeInv, TypeOK
    <3>3. QED
      BY <1>1, <1>3, <1>4, <1>5, <2>2, <2>5, <3>1, <3>2, ResumedRunEnds
  <2>6. QED
    BY <1>1, <2>3, <2>4, <2>5 DEF RunKinds
<1>8. QED
  BY <1>6, <1>7

LEMMA HaltKeeps == ASSUME IInv, Halt PROVE IInv'
<1> DEFINE F == Keep(frames[active], Depth - 1)
<1>1. /\ TopCall.kind \in RunKinds /\ outcome = "none" /\ InScript /\ ~InTry
      /\ SetFrames(F) /\ EndRun(0) /\ UNCHANGED <<handlers, coroVars>>
  BY DEF Halt, Executing
<1>2. TopCall.kind = "interpret" /\ Depth = 1
  BY <1>1, ScriptRun DEF InScript
<1>3. TopCall.exit = 0 /\ calls[Len(calls) - 1] = Host
  BY <1>2, InterpretRun
<1>4. calls' = Below /\ outcome' = "value" /\ SetSp(0)
  BY <1>1, <1>2 DEF EndRun
<1>5. /\ frames[active] \in Seq(Nat) /\ Tries \in Seq(Handler) /\ Tries = handlers[active]
      /\ Len(frames[active]) = 1 /\ Stacked(frames[active], sp[active], Tries)
      /\ sp[active] \in Nat /\ active \in Contexts
  BY <1>1, <1>2, RunningFacts
<1>6. SetHandlers(Tries)
  BY <1>1, <1>5, StackAlone DEF IInv
<1>7. F \in Seq(Nat) /\ Len(F) = 0
  BY <1>2, <1>5, KeepFacts
<1>8. Tries = << >>
  <2>1. SUFFICES ASSUME Tries # << >> PROVE FALSE
    OBVIOUS
  <2>2. Tries[Len(Tries)].depth \in 1 .. 1
    BY <1>5, <2>1, InnermostTry
  <2>3. QED
    BY <1>1, <1>2, <2>1, <2>2 DEF InTry, TopTry
<1> HIDE DEF F
<1>9. F = << >> /\ DOMAIN F = {} /\ DOMAIN Tries = {}
  BY <1>7, <1>8, SequenceFacts
<1>10. Stacked(F, 0, Tries) /\ Slack(F, 0, MaxOperands + 1)
  BY <1>9, Limits DEF Stacked, Slack
<1>11. 0 = calls[Len(calls) - 1].size
  BY <1>3 DEF Host
<1>12. 0 \in Nat /\ Len(F) = TopCall.exit /\ (\A k \in 1 .. TopCall.exit : F[k] = frames[active][k])
       /\ \A h \in DOMAIN Tries : \E j \in DOMAIN Tries : Tries[j].depth = Tries[h].depth
  BY <1>3, <1>7
<1>13. QED
  BY <1>1, <1>2, <1>4, <1>5, <1>6, <1>7, <1>10, <1>11, <1>12, CalledRunEnds

(* A run that fails drops its frames; none of the handlers was of them.    *)
LEMMA RunFailsKeeps == ASSUME IInv, RunFails PROVE IInv'
<1> DEFINE k == TopCall.exit
           F == Keep(frames[active], k)
<1>1. /\ TopCall.kind \in RunKinds /\ outcome = "error" /\ outcome' = "error" /\ ~InWindow
      /\ SetFrames(F) /\ calls' = Below /\ UNCHANGED <<sp, handlers, coroVars>>
  BY DEF RunFails, Raising
<1>2. /\ active \in Contexts /\ frames[active] \in Seq(Nat) /\ Tries \in Seq(Handler)
      /\ sp[active] \in Nat /\ Depth = Len(frames[active]) /\ Depth \in 1 .. MaxFrames
      /\ k \in Nat /\ k < Depth
      /\ Stacked(frames[active], sp[active], Tries)
  BY <1>1, RunningFacts
<1>3. SetSp(sp[active]) /\ SetHandlers(Tries)
  BY <1>1, <1>2, StackAlone DEF IInv, Tries
<1>4. Tries = << >> \/ Tries[Len(Tries)].depth < k
  BY <1>1 DEF InWindow, TopTry
<1>5. k \in 0 .. Len(frames[active]) /\ k <= MaxFrames
  BY <1>2, Limits
<1> HIDE DEF k
<1>6. \A i \in DOMAIN Tries : Tries[i].depth < k /\ Tries[i].depth \in Nat
  BY <1>2, <1>4, NoTryHere, HandlerFields
<1>7. F \in Seq(Nat) /\ Len(F) = k /\ \A i \in 1 .. k : F[i] = frames[active][i]
  BY <1>2, <1>5, KeepFacts
<1>8. Stacked(F, sp[active], Tries)
  <2>1. Len(Tries) \in 0 .. Len(Tries) /\ DOMAIN Tries = 1 .. Len(Tries)
    BY <1>2, SequenceFacts
  <2>2. \A i \in 1 .. k : frames[active][i] < sp[active]
    <3>1. \A i \in 1 .. k : i \in DOMAIN frames[active]
      BY <1>2, <1>5, SequenceFacts
    <3>2. QED
      BY <1>2, <3>1 DEF Stacked
  <2>3. \A i \in 1 .. Len(Tries) : /\ Tries[i].depth <= k
                                   /\ Tries[i].depth = k => Tries[i].top <= sp[active]
    BY <1>2, <1>6, <2>1
  <2>4. sp[active] <= Highest
    BY <1>2 DEF Stacked
  <2>5. Stacked(F, sp[active], Keep(Tries, Len(Tries)))
    BY <1>2, <1>5, <2>1, <2>2, <2>3, <2>4, StackedCut
  <2>6. QED
    BY <1>2, <2>5, KeepAll
<1>9. \A h \in DOMAIN Tries : \E j \in DOMAIN Tries : Tries[j].depth = Tries[h].depth
  OBVIOUS
<1> HIDE DEF F
<1>10. CASE TopCall.kind \in {"interpret", "callback"}
  BY <1>1, <1>2, <1>3, <1>7, <1>8, <1>9, <1>10, CalledRunEnds DEF k
<1>11. CASE TopCall.kind = "resumed"
  <2>1. UNCHANGED <<status, active, yielded>> /\ ~yielded /\ yielded \in BOOLEAN
    BY <1>1, <1>11 DEF coroVars, IInv, OutcomeInv, TypeOK
  <2>2. QED
    BY <1>1, <1>2, <1>3, <1>5, <1>7, <1>8, <1>11, <2>1, ResumedRunEnds
<1>12. QED
  BY <1>1, <1>10, <1>11 DEF RunKinds

(* A coroutine yields: its frames stay, with a stack that has room for the *)
(* value it is resumed with.                                               *)
LEMMA YieldKeeps == ASSUME IInv, Uses = {}, Yield PROVE IInv'
<1>1. /\ TopCall.kind = "resumed" /\ TopCall.kind \in RunKinds /\ outcome = "none"
      /\ sp[active] > Floor /\ yielded' = TRUE /\ EndRun(sp[active] - 1)
      /\ UNCHANGED <<frames, handlers, status, active>>
  BY DEF Yield, Executing, RunKinds
<1>2. calls' = Below /\ outcome' = "value" /\ SetSp(sp[active] - 1)
  BY <1>1 DEF EndRun
<1>3. sp[active] - 1 \in Nat /\ Stacked(frames[active], sp[active] - 1, Tries)
  BY <1>1, FloorAbove
<1>4. /\ frames[active] \in Seq(Nat) /\ Tries \in Seq(Handler) /\ frames[active] # << >>
      /\ Len(frames[active]) <= MaxFrames /\ active \in Contexts
      /\ SetFrames(frames[active]) /\ SetHandlers(Tries)
  <2>1. Depth = Len(frames[active]) /\ Depth \in 1 .. MaxFrames
    BY <1>1, RunningFacts
  <2>2. QED
    BY <1>1, <2>1, RunningFacts, StackAlone, Limits DEF IInv
<1>5. Slack(frames[active], sp[active] - 1, MaxOperands + 1)
  <2>1. Base \in Nat /\ sp[active] \in Nat /\ sp[active] <= Base + (MaxOperands + 2)
        /\ Base = frames[active][Len(frames[active])]
    BY <1>1, RunningFacts
  <2>2. sp[active] - 1 <= Base + (MaxOperands + 1)
    BY <2>1, Limits
  <2>3. QED
    BY <2>1, <2>2 DEF Slack
<1>6. Slack(frames[active], sp[active] - 1, MaxOperands + 2)
  BY <1>3, <1>4, <1>5, SlackMore
<1>7. QED
  BY <1>1, <1>2, <1>3, <1>4, <1>5, <1>6, ResumedRunEnds

-----------------------------------------------------------------------------
(* Natives and the host.                                                   *)

(* An activation other than a resume is put on the C++ stack.              *)
LEMMA CallPushed ==
  ASSUME TypeOK, CallsInv, ResumeInv, UNCHANGED <<status, active>>,
         NEW a \in CallRecord, a.kind \in {"native", "callback", "interpret"},
         a.ctx = active, Fits(TopCall, a), calls' = Append(calls, a)
  PROVE  /\ CallsInv' /\ ResumeInv' /\ TopCall' = a /\ calls' \in Seq(CallRecord)
         /\ Runs' = IF a.kind = "native" THEN Runs ELSE Runs \cup {Len(calls) + 1}
         /\ \A i \in DOMAIN calls : calls'[i] = calls[i] /\ i < Len(calls) + 1
         /\ calls'[Len(calls) + 1] = a
<1>1. /\ calls' \in Seq(CallRecord)
      /\ DOMAIN calls' = DOMAIN calls \cup {Len(calls) + 1} /\ Len(calls) + 1 \notin DOMAIN calls
      /\ \A i \in DOMAIN calls : calls'[i] = calls[i]
      /\ calls'[Len(calls) + 1] = a /\ TopCall' = a
      /\ calls' # << >> /\ calls'[1] = Host
      /\ \A i \in DOMAIN calls' : i > 1 => Fits(calls'[i - 1], calls'[i])
  BY Pushed
<1>2. \A i \in DOMAIN calls : i < Len(calls) + 1
  BY CallsFacts
<1>3. CallsInv'
  BY <1>1 DEF CallsInv, RunsIn
<1>4. Resumes' = Resumes
  BY <1>1 DEF Resumes
<1>5. Runs' = IF a.kind = "native" THEN Runs ELSE Runs \cup {Len(calls) + 1}
  <2>1. CASE a.kind = "native"
    BY <1>1, <2>1 DEF Runs, RunKinds
  <2>2. CASE a.kind # "native"
    BY <1>1, <2>2 DEF Runs, RunKinds
  <2>3. QED
    BY <2>1, <2>2
<1>6. ResumeInv'
  <2>1. \A i \in Resumes : calls'[i] = calls[i]
    BY <1>1 DEF Resumes
  <2>2. RunningIffResumed'
    BY <1>4, <2>1 DEF ResumeInv, RunningIffResumed, Resumes
  <2>3. ASSUME NEW i \in Resumes', NEW j \in Resumes', calls'[i].co = calls'[j].co
        PROVE  i = j
    <3>1. /\ i \in Resumes /\ j \in Resumes
          /\ calls'[i] = calls[i] /\ calls'[j] = calls[j]
      BY <1>4, <2>1
    <3>2. QED
      BY <2>3, <3>1 DEF ResumeInv
  <2>4. ASSUME NEW i \in DOMAIN calls', calls'[i].ctx \in Coros
        PROVE  \E j \in Resumes' : j < i /\ calls'[j].co = calls'[i].ctx
    <3>1. CASE i \in DOMAIN calls
      BY <1>1, <1>4, <2>1, <2>4, <3>1 DEF ResumeInv
    <3>2. CASE i = Len(calls) + 1
      <4>1. calls'[i].ctx = active
        BY <1>1, <3>2
      <4>2. PICK j \in Resumes : calls[j].co = active
        BY <2>4, <4>1, ActiveResumed
      <4>3. j < i
        BY <1>2, <3>2 DEF Resumes
      <4>4. QED
        BY <1>4, <2>1, <4>1, <4>2, <4>3
    <3>3. QED
      BY <1>1, <3>1, <3>2
  <2>5. QED
    BY <2>2, <2>3, <2>4 DEF ResumeInv
<1>7. QED
  BY <1>1, <1>2, <1>3, <1>5, <1>6

(* A native is called: it finds its arguments on top of the stack.         *)
LEMMA CallNativeKeeps == ASSUME IInv, CallNative PROVE IInv'
<1> USE DEF IInv
<1> DEFINE a == [kind |-> "native", exit |-> 0, co |-> active, prev |-> yielded,
                 ctx |-> active, depth |-> Len(frames[active]), size |-> sp[active] + 1]
<1>1. /\ TopCall.kind \in RunKinds /\ outcome = "none" /\ MayPush /\ SetSp(sp[active] + 1)
      /\ UNCHANGED <<frames, handlers, outcome, yielded, status, active>>
  BY DEF CallNative, Executing, coroVars
<1>2. calls' = Append(calls, a)
  BY DEF CallNative, Activation
<1>3. /\ sp[active] \in Nat /\ sp[active] + 1 \in Nat /\ sp[active] <= sp[active] + 1
      /\ sp[active] + 1 <= Base + (MaxOperands + 1) /\ sp[active] + 1 <= Highest
  BY <1>1, RoomToPush
<1>4. /\ active \in Contexts /\ frames[active] \in Seq(Nat) /\ Tries \in Seq(Handler)
      /\ Depth = Len(frames[active]) /\ Depth \in 1 .. MaxFrames
      /\ Base = frames[active][Len(frames[active])] /\ Tries = handlers[active]
      /\ Stacked(frames[active], sp[active], Tries)
  BY <1>1, RunningFacts
<1>5. ~yielded
  BY <1>1 DEF OutcomeInv
<1>6. /\ a.kind = "native" /\ a.ctx = active /\ ~a.prev
      /\ a.depth = Depth /\ a.size = sp[active] + 1
  BY <1>4, <1>5
<1>15. a \in CallRecord
  <2>1. Len(frames[active]) \in Nat /\ yielded \in BOOLEAN
    BY <1>4, SequenceFacts DEF TypeOK
  <2>2. QED
    BY <1>3, <1>4, <2>1 DEF CallRecord
<1> HIDE DEF a
<1>7. Fits(TopCall, a)
  BY <1>1, <1>6 DEF Fits, CallsInv
<1>8. /\ CallsInv' /\ ResumeInv' /\ TopCall' = a /\ calls' \in Seq(CallRecord) /\ Runs' = Runs
      /\ \A i \in DOMAIN calls : calls'[i] = calls[i]
  BY <1>1, <1>2, <1>6, <1>15, <1>7, CallPushed
<1>9. Slack(frames[active], sp[active] + 1, MaxOperands + 1)
  BY <1>3, <1>4 DEF Slack
<1>10. /\ sp' \in [Contexts -> Nat] /\ sp'[active] = sp[active] + 1 /\ StackInv'
  <2>1. Stacked(frames[active], sp[active] + 1, Tries)
    BY <1>3, <1>4, StackedPush
  <2>2. Slack(frames[active], sp[active] + 1, MaxOperands + 2)
    BY <1>3, <1>4, <1>9, SlackMore
  <2>3. SetFrames(frames[active]) /\ SetHandlers(Tries) /\ Len(frames[active]) <= MaxFrames
    BY <1>1, <1>4, StackAlone, Limits
  <2>4. active \in Coros => status[active] = "RUNNING"
    BY ActiveResumed
  <2>5. QED
    BY <1>1, <1>3, <1>4, <2>1, <2>2, <2>3, <2>4, OneContext
<1>11. TypeOK'
  BY <1>1, <1>8, <1>10 DEF TypeOK
<1>12. OutcomeInv'
  BY <1>1, <1>5, <1>6, <1>8 DEF OutcomeInv, RunKinds
<1>13. RunInv'
  <2>1. \A i \in Runs' : /\ i \in Runs /\ calls'[i] = calls[i]
                         /\ frames'[calls[i].ctx] = frames[calls[i].ctx]
                         /\ handlers'[calls[i].ctx] = handlers[calls[i].ctx]
    BY <1>1, <1>8 DEF Runs
  <2>2. Depth' = TopCall'.depth /\ sp'[active'] = TopCall'.size
        /\ Slack(frames'[active'], sp'[active'], MaxOperands + 1)
    BY <1>1, <1>6, <1>8, <1>9, <1>10 DEF Depth
  <2>3. QED
    BY <2>1, <2>2, RunsKept DEF RunInv
<1>14. QED
  BY <1>8, <1>10, <1>11, <1>12, <1>13

(* A native on top of the C++ stack gives way to the run below it.         *)
LEMMA NativeEnds ==
  ASSUME IInv, TopCall.kind = "native", calls' = Below, outcome' \in {"none", "error"},
         UNCHANGED <<vmVars, coroVars>>, outcome' # "error" => outcome # "error"
  PROVE  IInv'
<1> USE DEF IInv
<1>1. UNCHANGED <<frames, sp, handlers, yielded, status, active>>
  BY DEF vmVars, coroVars
<1>2. /\ calls' \in Seq(CallRecord)
      /\ DOMAIN calls' = DOMAIN calls \ {Len(calls)}
      /\ \A i \in DOMAIN calls' : calls'[i] = calls[i]
      /\ TopCall' = calls[Len(calls) - 1]
      /\ calls' # << >> /\ calls'[1] = Host
      /\ \A i \in DOMAIN calls' : i > 1 => Fits(calls'[i - 1], calls'[i])
  BY Returned
<1>3. Fits(calls[Len(calls) - 1], TopCall) /\ TopCall = calls[Len(calls)]
  BY Called, CallsFacts
<1>4. TopCall'.kind \in RunKinds /\ RunsIn(TopCall') = active
  BY <1>2, <1>3 DEF Fits, CallsInv, RunsIn, RunKinds
<1>5. Resumes' = Resumes /\ Runs' = Runs
  <2>1. Len(calls) \notin Resumes /\ Len(calls) \notin Runs
    BY <1>3 DEF Resumes, Runs, RunKinds
  <2>2. QED
    BY <1>2, <2>1 DEF Resumes, Runs
<1>6. TypeOK' /\ CallsInv'
  BY <1>1, <1>2, <1>4 DEF TypeOK, CallsInv
<1>7. StackInv'
  BY <1>1 DEF StackInv
<1>8. OutcomeInv'
  <2>1. ~yielded
    BY DEF OutcomeInv
  <2>2. QED
    BY <1>1, <1>4, <2>1 DEF OutcomeInv, RunKinds
<1>9. ResumeInv'
  <2>1. \A i \in Resumes : calls'[i] = calls[i]
    BY <1>2, <1>5 DEF Resumes
  <2>2. RunningIffResumed'
    BY <1>1, <1>5, <2>1 DEF ResumeInv, RunningIffResumed, Resumes
  <2>3. \A i, j \in Resumes' : calls'[i].co = calls'[j].co => i = j
    BY <1>5, <2>1 DEF ResumeInv
  <2>4. \A i \in DOMAIN calls' : calls'[i].ctx \in Coros =>
          \E j \in Resumes' : j < i /\ calls'[j].co = calls'[i].ctx
    BY <1>2, <1>5, <2>1 DEF ResumeInv
  <2>5. QED
    BY <2>2, <2>3, <2>4 DEF ResumeInv
<1>10. RunInv'
  <2>1. \A i \in Runs' : /\ i \in Runs /\ calls'[i] = calls[i]
                         /\ frames'[calls[i].ctx] = frames[calls[i].ctx]
                         /\ handlers'[calls[i].ctx] = handlers[calls[i].ctx]
    BY <1>1, <1>2, <1>5 DEF Runs
  <2>2. ~InNative'
    BY <1>4 DEF InNative, RunKinds
  <2>3. QED
    BY <2>1, <2>2, RunsKept DEF RunInv
<1>11. QED
  BY <1>6, <1>7, <1>8, <1>9, <1>10

LEMMA NativeEndKeeps == ASSUME IInv, NativeReturn \/ NativeFail PROVE IInv'
<1>1. CASE NativeReturn
  BY <1>1, NativeEnds DEF NativeReturn
<1>2. CASE NativeFail
  BY <1>2, NativeEnds DEF NativeFail
<1>3. QED
  BY <1>1, <1>2

(* A native on top of the C++ stack, or the host, and its context.         *)
LEMMA NativeFacts ==
  ASSUME IInv, InNative
  PROVE  /\ active \in Contexts /\ TopCall.ctx = active /\ ~yielded
         /\ frames[active] \in Seq(Nat) /\ sp[active] \in Nat
         /\ Tries = handlers[active] /\ Tries \in Seq(Handler)
         /\ Stacked(frames[active], sp[active], Tries)
         /\ Depth = Len(frames[active]) /\ Depth \in Nat /\ Depth <= MaxFrames
         /\ Depth = TopCall.depth
         /\ outcome # "error" => /\ sp[active] = TopCall.size
                                 /\ Slack(frames[active], sp[active], MaxOperands + 1)
<1> USE DEF IInv
<1>1. active \in Contexts /\ TopCall.ctx = active
  BY CallsFacts DEF CallsInv, RunsIn, InNative
<1>2. /\ frames[active] \in Seq(Nat) /\ sp[active] \in Nat /\ Tries = handlers[active]
      /\ Tries \in Seq(Handler) /\ Depth = Len(frames[active]) /\ Depth <= MaxFrames
  BY <1>1 DEF TypeOK, Depth, Tries
<1>3. Depth \in Nat
  BY <1>2, SequenceFacts
<1>4. Stacked(frames[active], sp[active], Tries)
  BY <1>1, <1>2 DEF StackInv
<1>5. ~yielded
  BY DEF OutcomeInv, InNative
<1>6. QED
  BY <1>1, <1>2, <1>3, <1>4, <1>5 DEF RunInv

(* Of the host nothing is on the stacks.                                   *)
LEMMA HostFacts ==
  ASSUME IInv, InHost
  PROVE  /\ TopCall = Host /\ active = Main /\ Len(calls) = 1
         /\ InNative /\ Depth = 0 /\ frames[active] = << >> /\ Tries = << >>
<1> USE DEF IInv
<1>1. InNative /\ Len(calls) = 1
  BY CallsFacts DEF InHost, InNative
<1>2. TopCall = Host
  BY <1>1 DEF TopCall, CallsInv
<1>3. active = Main /\ Depth = 0
  BY <1>1, <1>2, NativeFacts DEF Host
<1>4. frames[active] = << >>
  BY <1>1, <1>3, NativeFacts, SequenceFacts
<1>5. Tries = << >>
  <2>1. SUFFICES ASSUME Tries # << >> PROVE FALSE
    OBVIOUS
  <2>2. Tries[Len(Tries)].depth \in 1 .. Len(frames[active])
    BY <1>1, <2>1, NativeFacts, InnermostTry
  <2>3. QED
    BY <1>4, <2>2
<1>6. QED
  BY <1>1, <1>2, <1>3, <1>4, <1>5

(* The native or the host starts a run on a new frame: the run's exit is   *)
(* the depth they found, above that of every run in the context.           *)
LEMMA RunStarted ==
  ASSUME IInv, InNative, outcome # "error", outcome' = "none", ~InTry, RoomForFrame,
         UNCHANGED <<handlers, coroVars>>,
         SetFrames(Append(frames[active], sp[active])), SetSp(sp[active] + 1),
         NEW a \in CallRecord, a.kind \in {"callback", "interpret"}, a.ctx = active,
         a.exit = Depth, a.size = sp[active], Fits(TopCall, a), calls' = Append(calls, a)
  PROVE  IInv'
<1> USE DEF IInv
<1> DEFINE F == Append(frames[active], sp[active])
           n == Len(calls) + 1
<1>1. UNCHANGED <<handlers, yielded, status, active>>
  BY DEF coroVars
<1>2. /\ active \in Contexts /\ ~yielded
      /\ frames[active] \in Seq(Nat) /\ sp[active] \in Nat
      /\ Tries = handlers[active] /\ Tries \in Seq(Handler)
      /\ Stacked(frames[active], sp[active], Tries)
      /\ Depth = Len(frames[active]) /\ Depth \in Nat
      /\ Slack(frames[active], sp[active], MaxOperands + 1)
  BY NativeFacts
<1>3. Depth < MaxFrames /\ sp[active] + 1 + Headroom <= StackLimit
  BY DEF RoomForFrame
<1>4. Stacked(F, sp[active] + 1, Tries)
  BY <1>2, <1>3, StackedEnter
<1>5. /\ F \in Seq(Nat) /\ Len(F) = Depth + 1 /\ F[Depth + 1] = sp[active]
      /\ \A k \in 1 .. Depth : F[k] = frames[active][k]
  BY <1>2, AppendFacts
<1> HIDE DEF F
<1>6. SetFrames(F)
  BY DEF F
<1>7. /\ frames' \in [Contexts -> Seq(Nat)]
      /\ \A c \in Contexts : Len(frames'[c]) <= MaxFrames
      /\ sp' \in [Contexts -> Nat]
      /\ handlers' \in [Contexts -> Seq(Handler)]
      /\ frames'[active] = F
      /\ \A c \in Contexts \ {active} : frames'[c] = frames[c]
      /\ StackInv'
  <2>1. Slack(F, sp[active] + 1, MaxOperands + 2)
    BY <1>2, <1>5, Limits DEF Slack
  <2>2. Len(F) <= MaxFrames /\ sp[active] + 1 \in Nat
    <3>1. Depth \in Nat /\ sp[active] \in Nat
      BY <1>2
    <3>2. Len(F) = Depth + 1
      BY <1>5
    <3>3. \A d, m \in Nat : d < m => d + 1 <= m
      OBVIOUS
    <3>4. MaxFrames \in Nat
      BY Limits
    <3>5. Len(F) <= MaxFrames
      BY <1>3, <3>1, <3>2, <3>3, <3>4, Zenon
    <3>6. QED
      BY <3>1, <3>5
  <2>3. SetHandlers(Tries)
    BY <1>1, <1>2, StackAlone
  <2>4. active \in Coros => status[active] = "RUNNING"
    BY ActiveResumed
  <2>5. QED
    BY <1>1, <1>2, <1>4, <1>5, <1>6, <2>1, <2>2, <2>3, <2>4, OneContext
<1>8. /\ CallsInv' /\ ResumeInv' /\ TopCall' = a /\ calls' \in Seq(CallRecord)
      /\ Runs' = Runs \cup {n}
      /\ \A i \in DOMAIN calls : calls'[i] = calls[i] /\ i < n
      /\ calls'[n] = a
  BY <1>1, CallPushed
<1>9. TypeOK'
  BY <1>1, <1>7, <1>8 DEF TypeOK
<1>10. OutcomeInv'
  BY <1>1, <1>2, <1>8 DEF OutcomeInv, RunKinds
<1>11. RunInv'
  <2>1. \A i \in Runs : /\ calls'[i] = calls[i] /\ i < n /\ i \in Nat
                        /\ calls[i].ctx \in Contexts /\ calls[i].exit \in Nat
    <3>1. \A i \in Runs : i \in DOMAIN calls /\ calls'[i] = calls[i] /\ i < n
      BY <1>8 DEF Runs
    <3>2. QED
      BY <3>1, CallsFacts, CallFields
  <2>2. ASSUME NEW i \in Runs, calls[i].ctx = active
        PROVE  /\ calls[i].exit < Depth /\ calls[i].exit < Len(F)
               /\ calls[i].exit + 1 \in 1 .. Depth
    <3>1. calls[i].exit < Depth
      BY <1>2, <2>2 DEF RunInv
    <3>2. PICK e \in Nat : e = calls[i].exit
      BY <2>1
    <3>3. e < Depth /\ e < Depth + 1 /\ e + 1 \in 1 .. Depth
      BY <1>2, <3>1, <3>2
    <3>4. QED
      BY <1>5, <3>2, <3>3
  <2>3. ASSUME NEW i \in Runs, calls[i].ctx # active
        PROVE  frames'[calls[i].ctx] = frames[calls[i].ctx]
    BY <1>7, <2>1, <2>3
  <2>4. ASSUME NEW i \in Runs' PROVE calls'[i].exit < Len(frames'[calls'[i].ctx])
    <3>1. CASE i = n
      BY <1>2, <1>5, <1>7, <1>8, <3>1
    <3>2. CASE i \in Runs
      <4>1. CASE calls[i].ctx = active
        BY <1>7, <2>1, <2>2, <3>2, <4>1
      <4>2. CASE calls[i].ctx # active
        BY <2>1, <2>3, <3>2, <4>2 DEF RunInv
      <4>3. QED
        BY <4>1, <4>2
    <3>3. QED
      BY <1>8, <3>1, <3>2
  <2>5. ASSUME NEW i \in Runs', NEW j \in Runs', i < j, calls'[i].ctx = calls'[j].ctx
        PROVE  calls'[i].exit < calls'[j].exit
    <3>1. CASE i \in Runs /\ j \in Runs
      BY <2>1, <2>5, <3>1 DEF RunInv
    <3>2. CASE i \in Runs /\ j = n
      BY <1>8, <2>1, <2>2, <2>5, <3>2
    <3>3. CASE i = n
      <4>1. n \in Nat /\ j \in Nat /\ j <= n
        BY <1>8, <2>1, CallsFacts
      <4>2. QED
        BY <2>5, <3>3, <4>1
    <3>4. QED
      BY <1>8, <3>1, <3>2, <3>3
  <2>6. ASSUME NEW i \in Runs', calls'[i].kind = "callback"
        PROVE  /\ frames'[calls'[i].ctx][calls'[i].exit + 1] = calls'[i].size
               /\ \A h \in DOMAIN handlers'[calls'[i].ctx] :
                    handlers'[calls'[i].ctx][h].depth # calls'[i].exit
    <3>1. CASE i = n
      <4>1. frames'[active][Depth + 1] = sp[active]
        BY <1>5, <1>7
      <4>2. \A h \in DOMAIN Tries : Tries[h].depth # Depth
        <5>1. Tries = << >> \/ Tries[Len(Tries)].depth < Depth
          <6>1. SUFFICES ASSUME Tries # << >> PROVE Tries[Len(Tries)].depth < Depth
            OBVIOUS
          <6>2. Tries[Len(Tries)].depth \in 1 .. Depth
            BY <1>2, <6>1, InnermostTry
          <6>3. Tries[Len(Tries)].depth # Depth
            BY <6>1 DEF InTry, TopTry
          <6>4. QED
            BY <1>2, <6>2, <6>3
        <5>2. \A h \in DOMAIN Tries : Tries[h].depth < Depth /\ Tries[h].depth \in Nat
          BY <1>2, <5>1, NoTryHere, HandlerFields
        <5>3. QED
          BY <1>2, <5>2
      <4>3. QED
        BY <1>1, <1>2, <1>8, <3>1, <4>1, <4>2
    <3>2. CASE i \in Runs
      <4>1. calls'[i] = calls[i] /\ calls[i].kind = "callback"
        BY <2>1, <2>6, <3>2
      <4>2. /\ frames[calls[i].ctx][calls[i].exit + 1] = calls[i].size
            /\ \A h \in DOMAIN handlers[calls[i].ctx] :
                 handlers[calls[i].ctx][h].depth # calls[i].exit
        BY <3>2, <4>1 DEF RunInv
      <4>3. CASE calls[i].ctx = active
        <5>1. F[calls[i].exit + 1] = calls[i].size
          BY <1>5, <2>2, <3>2, <4>2, <4>3
        <5>2. QED
          BY <1>1, <1>7, <4>1, <4>2, <4>3, <5>1
      <4>4. CASE calls[i].ctx # active
        <5>1. frames'[calls[i].ctx] = frames[calls[i].ctx]
          BY <2>3, <3>2, <4>4
        <5>2. QED
          BY <1>1, <4>1, <4>2, <5>1
      <4>5. QED
        BY <4>3, <4>4
    <3>3. QED
      BY <1>8, <3>1, <3>2
  <2>7. ~InNative'
    BY <1>8 DEF InNative
  <2>8. QED
    BY <2>4, <2>5, <2>6, <2>7 DEF RunInv
<1>12. QED
  BY <1>7, <1>8, <1>9, <1>10, <1>11

(* The new activation's record.                                            *)
LEMMA NativeCalls ==
  ASSUME IInv, InNative, outcome # "error", NEW k \in {"callback", "interpret"}
  PROVE  /\ Activation(k, Depth, active) \in CallRecord
         /\ Activation(k, Depth, active).kind = k
         /\ Activation(k, Depth, active).ctx = active
         /\ Activation(k, Depth, active).exit = Depth
         /\ Activation(k, Depth, active).size = sp[active]
         /\ ~Activation(k, Depth, active).prev
<1> DEFINE a == [kind |-> k, exit |-> Depth, co |-> active, prev |-> yielded,
                 ctx |-> active, depth |-> Len(frames[active]), size |-> sp[active]]
<1>1. Activation(k, Depth, active) = a
  BY DEF Activation
<1>2. /\ active \in Contexts /\ ~yielded /\ yielded \in BOOLEAN /\ sp[active] \in Nat
      /\ Depth \in Nat /\ Depth = Len(frames[active]) /\ k \in RunKinds
  BY NativeFacts DEF IInv, TypeOK, RunKinds
<1>3. a \in CallRecord
  BY <1>2 DEF CallRecord
<1>4. a.kind = k /\ a.ctx = active /\ a.exit = Depth /\ a.size = sp[active] /\ ~a.prev
  BY <1>2
<1> HIDE DEF a
<1>5. QED
  BY <1>1, <1>3, <1>4

LEMMA CallBackKeeps == ASSUME IInv, Uses = {}, CallBack PROVE IInv'
<1> USE DEF IInv
<1>1. /\ InNative /\ outcome # "error" /\ ~InTry /\ EnterFrame
      /\ calls' = IF RoomForFrame THEN Append(calls, Activation("callback", Depth, active))
                                  ELSE calls
      /\ UNCHANGED <<handlers, coroVars>>
  BY DEF CallBack
<1>2. SetSp(sp[active] + 1)
  BY <1>1 DEF EnterFrame
<1>3. /\ active \in Contexts /\ TopCall.ctx = active /\ ~yielded
      /\ frames[active] \in Seq(Nat) /\ sp[active] \in Nat
      /\ Tries = handlers[active] /\ Tries \in Seq(Handler)
      /\ Stacked(frames[active], sp[active], Tries)
      /\ Depth = Len(frames[active]) /\ Depth \in Nat /\ Depth <= MaxFrames
      /\ Depth = TopCall.depth /\ sp[active] = TopCall.size
      /\ Slack(frames[active], sp[active], MaxOperands + 1)
  BY <1>1, NativeFacts
<1>4. CASE RoomForFrame
  <2> DEFINE a == Activation("callback", Depth, active)
  <2>1. /\ a \in CallRecord /\ a.kind = "callback" /\ a.ctx = active /\ a.exit = Depth
        /\ a.size = sp[active] /\ ~a.prev
    BY <1>1, NativeCalls
  <2>2. calls' = Append(calls, a) /\ outcome' = "none"
        /\ SetFrames(Append(frames[active], sp[active]))
    BY <1>1, <1>4 DEF EnterFrame
  <2> HIDE DEF a
  <2>3. Fits(TopCall, a)
    <3>1. a.ctx = RunsIn(TopCall)
      BY <2>1 DEF CallsInv
    <3>2. QED
      BY <1>1, <1>3, <2>1, <3>1 DEF Fits, InNative
  <2>4. QED
    BY <1>1, <1>2, <1>4, <2>1, <2>2, <2>3, RunStarted
<1>5. CASE ~RoomForFrame
  <2>1. outcome' = "error" /\ UNCHANGED <<frames, handlers, calls, yielded, status, active>>
    BY <1>1, <1>5 DEF EnterFrame, coroVars
  <2>2. sp[active] + 1 \in Nat /\ sp[active] <= sp[active] + 1 /\ sp[active] + 1 <= Highest
    <3>1. CASE frames[active] = << >>
      <4>1. TopCall.kind = "host"
        <5>1. SUFFICES ASSUME TopCall.kind # "host" PROVE FALSE
          OBVIOUS
        <5>2. /\ Fits(calls[Len(calls) - 1], TopCall) /\ Len(calls) - 1 \in DOMAIN calls
              /\ calls[Len(calls) - 1] \in CallRecord
          BY <5>1, Called
        <5>3. /\ Len(calls) - 1 \in Runs /\ calls[Len(calls) - 1].ctx = active
              /\ calls[Len(calls) - 1].exit \in Nat
          BY <1>1, <1>3, <5>1, <5>2, CallFields DEF Fits, Runs, RunsIn, RunKinds, InNative
        <5>4. calls[Len(calls) - 1].exit < 0
          BY <1>3, <3>1, <5>3, SequenceFacts DEF RunInv
        <5>5. QED
          BY <5>3, <5>4
      <4>2. sp[active] = 0
        BY <1>3, <4>1, HostFacts DEF InHost, Host
      <4>3. QED
        BY <4>2, Limits
    <3>2. CASE frames[active] # << >>
      <4>1. Len(frames[active]) \in DOMAIN frames[active]
        <5>1. /\ Len(frames[active]) \in Nat /\ Len(frames[active]) # 0
              /\ DOMAIN frames[active] = 1 .. Len(frames[active])
          BY <1>3, <3>2, SequenceFacts
        <5>2. QED
          BY <5>1
      <4>2. PICK b \in Nat : b = frames[active][Len(frames[active])]
        BY <1>3, <4>1, SequenceFacts
      <4>3. sp[active] <= b + (MaxOperands + 1) /\ b + 1 + Headroom <= StackLimit
        BY <1>3, <3>2, <4>1, <4>2 DEF Slack, Stacked
      <4>4. QED
        BY <1>3, <4>3, Limits
    <3>3. QED
      BY <3>1, <3>2
  <2>3. Stacked(frames[active], sp[active] + 1, Tries)
    BY <1>3, <2>2, StackedPush
  <2>4. SetFrames(frames[active]) /\ SetHandlers(Tries) /\ Len(frames[active]) <= MaxFrames
    BY <1>3, <2>1, StackAlone
  <2>5. active \in Coros => status[active] = "RUNNING"
    BY ActiveResumed
  <2>6. sp' \in [Contexts -> Nat] /\ StackInv'
    BY <1>2, <1>3, <2>1, <2>2, <2>3, <2>4, <2>5, OneContext
  <2>7. TypeOK'
    BY <2>1, <2>6 DEF TypeOK
  <2>8. CallsInv' /\ TopCall' = TopCall
    BY <2>1 DEF CallsInv, TopCall
  <2>9. OutcomeInv'
    BY <1>1, <1>3, <2>1, <2>8 DEF OutcomeInv, InNative, RunKinds
  <2>10. ResumeInv'
    BY <2>1 DEF ResumeInv, RunningIffResumed, Resumes
  <2>11. RunInv'
    <3>1. Depth' = TopCall'.depth
      BY <1>3, <2>1, <2>8 DEF Depth
    <3>2. \A i \in Runs' : /\ i \in Runs /\ calls'[i] = calls[i]
                           /\ frames'[calls[i].ctx] = frames[calls[i].ctx]
                           /\ handlers'[calls[i].ctx] = handlers[calls[i].ctx]
      BY <2>1 DEF Runs
    <3>3. QED
      BY <2>1, <3>1, <3>2, RunsKept DEF RunInv
  <2>12. QED
    BY <2>6, <2>7, <2>8, <2>9, <2>10, <2>11
<1>6. QED
  BY <1>4, <1>5

(* interpret(): the script's frame is the first.                           *)
LEMMA InterpretKeeps == ASSUME IInv, Interpret PROVE IInv'
<1> DEFINE a == Activation("interpret", 0, active)
<1>1. /\ InHost /\ outcome # "error" /\ outcome' = "none" /\ SetSp(sp[active] + 1)
      /\ SetFrames(Append(frames[active], 0)) /\ calls' = Append(calls, a)
      /\ UNCHANGED <<handlers, coroVars>>
  BY DEF Interpret
<1>2. /\ TopCall = Host /\ active = Main /\ InNative /\ Depth = 0
      /\ frames[active] = << >> /\ Tries = << >>
  BY <1>1, HostFacts
<1>3. sp[active] = 0
  BY <1>1, <1>2, NativeFacts DEF Host
<1>4. RoomForFrame /\ ~InTry
  BY <1>2, <1>3, Limits DEF RoomForFrame, InTry
<1>5. /\ a \in CallRecord /\ a.kind = "interpret" /\ a.ctx = active /\ a.exit = Depth
      /\ a.size = sp[active] /\ ~a.prev
  BY <1>1, <1>2, NativeCalls
<1> HIDE DEF a
<1>6. Fits(TopCall, a)
  BY <1>2, <1>5 DEF Fits, RunsIn, Host
<1>7. QED
  BY <1>1, <1>2, <1>3, <1>4, <1>5, <1>6, RunStarted

(* resetReplState: the host clears what a failed script has left.          *)
LEMMA ResetKeeps == ASSUME IInv, Reset PROVE IInv'
<1> USE DEF IInv
<1>1. /\ InHost /\ SetSp(0) /\ SetFrames(<< >>) /\ SetHandlers(<< >>) /\ outcome' = "none"
      /\ UNCHANGED <<calls, yielded, status, active>>
  BY DEF Reset, coroVars
<1>2. TopCall = Host /\ active = Main /\ Len(calls) = 1 /\ InNative /\ ~yielded
  BY <1>1, HostFacts, NativeFacts
<1>3. << >> \in Seq(Nat) /\ << >> \in Seq(Handler) /\ Len(<< >>) = 0 /\ DOMAIN << >> = {}
  OBVIOUS
<1>4. Stacked(<< >>, 0, << >>) /\ Slack(<< >>, 0, MaxOperands + 2)
      /\ Slack(<< >>, 0, MaxOperands + 1) /\ Len(<< >>) <= MaxFrames
  BY <1>3, Limits DEF Stacked, Slack
<1>5. active \in Coros => status[active] = "RUNNING"
  BY ActiveResumed
<1>6. /\ frames' \in [Contexts -> Seq(Nat)]
      /\ \A c \in Contexts : Len(frames'[c]) <= MaxFrames
      /\ sp' \in [Contexts -> Nat]
      /\ handlers' \in [Contexts -> Seq(Handler)]
      /\ frames'[active] = << >> /\ sp'[active] = 0
      /\ StackInv'
  BY <1>1, <1>3, <1>4, <1>5, OneContext
<1>7. TypeOK'
  BY <1>1, <1>6 DEF TypeOK
<1>8. CallsInv' /\ TopCall' = TopCall
  BY <1>1 DEF CallsInv, TopCall
<1>9. OutcomeInv'
  BY <1>1, <1>2, <1>8 DEF OutcomeInv, InNative, RunKinds
<1>10. ResumeInv'
  BY <1>1 DEF ResumeInv, RunningIffResumed, Resumes
<1>11. RunInv'
  <2>1. Runs' = {}
    BY <1>1, <1>2, <1>8, CallsFacts DEF Runs, RunKinds, InNative
  <2>2. Depth' = TopCall'.depth /\ sp'[active'] = TopCall'.size
        /\ Slack(frames'[active'], sp'[active'], MaxOperands + 1)
    BY <1>1, <1>2, <1>3, <1>4, <1>6, <1>8 DEF Depth, Host
  <2>3. QED
    BY <2>1, <2>2 DEF RunInv
<1>12. QED
  BY <1>6, <1>7, <1>8, <1>9, <1>10, <1>11

-----------------------------------------------------------------------------
(* Coroutines.                                                             *)

(* A coroutine that can be resumed is not running and nothing runs in it.  *)
LEMMA Idle ==
  ASSUME TypeOK, CallsInv, ResumeInv, NEW c \in Coros, status[c] # "RUNNING"
  PROVE  /\ c # active
         /\ \A i \in DOMAIN calls : calls[i].ctx # c
         /\ \A i \in Resumes : calls[i].co # c
<1>1. \A i \in Resumes : calls[i].co # c
  BY DEF ResumeInv, RunningIffResumed, Resumes
<1>2. \A i \in DOMAIN calls : calls[i].ctx # c
  BY <1>1 DEF ResumeInv
<1>3. c # active
  BY ActiveResumed
<1>4. QED
  BY <1>1, <1>2, <1>3

(* What a resume does to the stacks: the coroutine's are new, or as the    *)
(* yield left them with the value it is resumed with.                      *)
LEMMA ResumeStacks ==
  ASSUME IInv, NEW c \in Coros, Resume(c)
  PROVE  /\ frames' \in [Contexts -> Seq(Nat)]
         /\ \A d \in Contexts : Len(frames'[d]) <= MaxFrames
         /\ sp' \in [Contexts -> Nat]
         /\ handlers' \in [Contexts -> Seq(Handler)]
         /\ \A d \in Contexts \ {c} : frames'[d] = frames[d] /\ handlers'[d] = handlers[d]
         /\ frames'[c] # << >>
         /\ StackInv'
<1> USE DEF IInv
<1>1. /\ TopCall.kind \in RunKinds /\ outcome = "none" /\ outcome' = "none" /\ MayPush
      /\ status' = [status EXCEPT ![c] = "RUNNING"] /\ active' = c
      /\ status[c] # "RUNNING"
  BY DEF Resume, Executing
<1>2. /\ c \in Contexts /\ active \in Contexts /\ c # active
      /\ status \in [Coros -> {"CREATED", "SUSPENDED", "RUNNING", "DEAD"}]
      /\ frames \in [Contexts -> Seq(Nat)] /\ sp \in [Contexts -> Nat]
      /\ handlers \in [Contexts -> Seq(Handler)]
  BY <1>1, Idle DEF TypeOK, Contexts
<1>3. /\ frames[active] \in Seq(Nat) /\ handlers[active] \in Seq(Handler)
      /\ sp[active] \in Nat /\ sp[active] + 1 \in Nat
      /\ Stacked(frames[active], sp[active] + 1, handlers[active])
      /\ Slack(frames[active], sp[active] + 1, MaxOperands + 2)
  <2>1. /\ sp[active] \in Nat /\ sp[active] + 1 \in Nat /\ sp[active] <= sp[active] + 1
        /\ sp[active] + 1 <= Highest /\ sp[active] + 1 <= Base + (MaxOperands + 2)
    BY <1>1, RoomToPush
  <2>2. /\ frames[active] \in Seq(Nat) /\ Tries = handlers[active] /\ Tries \in Seq(Handler)
        /\ Base = frames[active][Len(frames[active])]
        /\ Stacked(frames[active], sp[active], Tries)
    BY <1>1, RunningFacts
  <2>3. QED
    BY <2>1, <2>2, StackedPush DEF Slack
<1>4. /\ frames' \in [Contexts -> Seq(Nat)] /\ sp' \in [Contexts -> Nat]
      /\ handlers' \in [Contexts -> Seq(Handler)]
      /\ sp'[active] = sp[active] + 1
      /\ \A d \in Contexts \ {c} : frames'[d] = frames[d] /\ handlers'[d] = handlers[d]
      /\ \A d \in Contexts \ {c, active} : sp'[d] = sp[d]
      /\ Len(frames'[c]) <= MaxFrames /\ frames'[c] # << >>
      /\ Stacked(frames'[c], sp'[c], handlers'[c])
      /\ Slack(frames'[c], sp'[c], MaxOperands + 2)
  <2>1. CASE status[c] = "CREATED"
    <3>1. /\ frames' = [frames EXCEPT ![c] = <<0>>]
          /\ sp' = [sp EXCEPT ![active] = @ + 1, ![c] = 1]
          /\ handlers' = [handlers EXCEPT ![c] = << >>]
      BY <2>1 DEF Resume
    <3>2. <<0>> \in Seq(Nat) /\ << >> \in Seq(Handler)
      OBVIOUS
    <3>3. /\ frames' \in [Contexts -> Seq(Nat)] /\ frames'[c] = <<0>>
          /\ handlers' \in [Contexts -> Seq(Handler)] /\ handlers'[c] = << >>
          /\ \A d \in Contexts \ {c} : frames'[d] = frames[d] /\ handlers'[d] = handlers[d]
      BY <1>2, <3>1, <3>2
    <3>4. /\ sp' \in [Contexts -> Nat] /\ sp'[c] = 1 /\ sp'[active] = sp[active] + 1
          /\ \A d \in Contexts \ {c, active} : sp'[d] = sp[d]
      BY <1>2, <1>3, <3>1
    <3>5. Len(<<0>>) = 1 /\ DOMAIN <<0>> = 1 .. 1 /\ <<0>>[1] = 0 /\ <<0>> # << >>
          /\ DOMAIN << >> = {}
      OBVIOUS
    <3>6. 1 <= MaxFrames /\ 1 <= Highest /\ 0 + 1 + Headroom <= StackLimit
          /\ 1 <= 0 + (MaxOperands + 2)
      BY Limits
    <3>7. Stacked(<<0>>, 1, << >>) /\ Slack(<<0>>, 1, MaxOperands + 2)
      BY <3>5, <3>6 DEF Stacked, Slack
    <3>8. QED
      BY <3>3, <3>4, <3>5, <3>6, <3>7
  <2>2. CASE status[c] = "SUSPENDED"
    <3>1. sp' = [sp EXCEPT ![active] = @ + 1, ![c] = @ + 1] /\ UNCHANGED <<frames, handlers>>
      BY <2>2 DEF Resume
    <3>2. /\ sp[c] \in Nat /\ sp[c] + 1 \in Nat /\ frames[c] \in Seq(Nat)
          /\ handlers[c] \in Seq(Handler) /\ Stacked(frames[c], sp[c], handlers[c])
      BY <1>2 DEF StackInv
    <3>3. /\ sp' \in [Contexts -> Nat] /\ sp'[c] = sp[c] + 1 /\ sp'[active] = sp[active] + 1
          /\ \A d \in Contexts \ {c, active} : sp'[d] = sp[d]
      BY <1>2, <1>3, <3>1, <3>2
    <3>4. frames[c] # << >> /\ Slack(frames[c], sp[c], MaxOperands + 1)
      BY <2>2 DEF StackInv
    <3>5. Len(frames[c]) \in DOMAIN frames[c]
      BY <3>2, <3>4, SequenceFacts
    <3>6. PICK e \in Nat : e = frames[c][Len(frames[c])]
      BY <3>2, <3>5, SequenceFacts
    <3>7. sp[c] <= e + (MaxOperands + 1) /\ e + 1 + Headroom <= StackLimit
      BY <3>2, <3>4, <3>5, <3>6 DEF Slack, Stacked
    <3>8. sp[c] <= sp[c] + 1 /\ sp[c] + 1 <= Highest /\ sp[c] + 1 <= e + (MaxOperands + 2)
      BY <3>2, <3>7, Limits
    <3>9. Stacked(frames[c], sp[c] + 1, handlers[c])
      BY <3>2, <3>8, StackedPush
    <3>10. Slack(frames[c], sp[c] + 1, MaxOperands + 2)
      BY <3>6, <3>8 DEF Slack
    <3>11. Len(frames[c]) <= MaxFrames
      BY <1>2 DEF TypeOK
    <3>12. QED
      BY <1>2, <3>1, <3>3, <3>4, <3>9, <3>10, <3>11
  <2>3. QED
    BY <2>1, <2>2 DEF Resume
<1>5. \A d \in Contexts : Len(frames'[d]) <= MaxFrames
  BY <1>4 DEF TypeOK
<1>6. ASSUME NEW d \in Contexts
      PROVE  Stacked(frames'[d], sp'[d], handlers'[d]) /\ Slack(frames'[d], sp'[d], MaxOperands + 2)
  <2>1. CASE d = c
    BY <1>4, <2>1
  <2>2. CASE d = active
    BY <1>2, <1>3, <1>4, <2>2
  <2>3. CASE d # c /\ d # active
    BY <1>4, <2>3 DEF StackInv
  <2>4. QED
    BY <2>1, <2>2, <2>3
<1>7. ASSUME NEW d \in Coros, status'[d] = "SUSPENDED"
      PROVE  frames'[d] # << >> /\ Slack(frames'[d], sp'[d], MaxOperands + 1)
  <2>1. d # c /\ status[d] = "SUSPENDED"
    BY <1>1, <1>2, <1>7
  <2>2. d # active
    BY <2>1, Idle
  <2>3. frames'[d] = frames[d] /\ sp'[d] = sp[d]
    BY <1>4, <2>1, <2>2 DEF Contexts
  <2>4. QED
    BY <2>1, <2>3 DEF StackInv
<1>8. StackInv'
  BY <1>6, <1>7 DEF StackInv
<1>9. QED
  BY <1>4, <1>5, <1>8

LEMMA TwoMore ==
  ASSUME NEW D, NEW s \in Seq(D), NEW a \in D, NEW b \in D
  PROVE  /\ s \o <<a, b>> \in Seq(D) /\ Len(s \o <<a, b>>) = Len(s) + 2 /\ Len(s) \in Nat
         /\ DOMAIN (s \o <<a, b>>) = 1 .. Len(s) + 2
         /\ \A i \in 1 .. Len(s) : (s \o <<a, b>>)[i] = s[i]
         /\ (s \o <<a, b>>)[Len(s) + 1] = a /\ (s \o <<a, b>>)[Len(s) + 2] = b
OBVIOUS

LEMMA ResumeKeeps == ASSUME IInv, NEW c \in Coros, Resume(c) PROVE IInv'
<1> USE DEF IInv
<1> DEFINE a == [kind |-> "resume", exit |-> 0, co |-> c, prev |-> yielded,
                 ctx |-> active, depth |-> Len(frames[active]), size |-> sp[active]]
           b == [kind |-> "resumed", exit |-> 0, co |-> c, prev |-> yielded,
                 ctx |-> c, depth |-> Len(frames[active]), size |-> sp[active]]
           n == Len(calls)
<1>1. /\ TopCall.kind \in RunKinds /\ outcome = "none" /\ outcome' = "none"
      /\ status' = [status EXCEPT ![c] = "RUNNING"] /\ active' = c /\ yielded' = FALSE
      /\ status[c] # "RUNNING"
  BY DEF Resume, Executing
<1>2. calls' = calls \o <<a, b>>
  <2>1. a = Activation("resume", 0, c) /\ b = [Activation("resumed", 0, c) EXCEPT !.ctx = c]
    BY DEF Activation
  <2> HIDE DEF a, b
  <2>2. QED
    BY <2>1 DEF Resume
<1>3. c \in Contexts /\ active \in Contexts /\ ~yielded /\ yielded \in BOOLEAN
      /\ sp[active] \in Nat /\ Len(frames[active]) \in Nat
  BY <1>1, RunningFacts, SequenceFacts DEF TypeOK, Contexts, OutcomeInv, RunKinds
<1>4. a \in CallRecord /\ b \in CallRecord
  BY <1>3 DEF CallRecord, RunKinds
<1>5. /\ a.kind = "resume" /\ a.co = c /\ a.ctx = active /\ ~a.prev
      /\ b.kind = "resumed" /\ b.ctx = c /\ ~b.prev /\ b.exit = 0
  BY <1>3
<1> HIDE DEF a, b
<1>6. /\ calls \in Seq(CallRecord) /\ n \in Nat /\ n >= 1 /\ DOMAIN calls = 1 .. n
      /\ TopCall = calls[n]
  BY CallsFacts DEF TypeOK
<1>7. /\ calls' \in Seq(CallRecord) /\ Len(calls') = n + 2
      /\ DOMAIN calls' = 1 .. n + 2
      /\ \A i \in 1 .. n : calls'[i] = calls[i]
      /\ calls'[n + 1] = a /\ calls'[n + 2] = b
  BY <1>2, <1>4, <1>6, TwoMore
<1>8. /\ DOMAIN calls' = DOMAIN calls \cup {n + 1, n + 2}
      /\ \A i \in DOMAIN calls : calls'[i] = calls[i] /\ i < n + 1 /\ i < n + 2
      /\ n + 1 < n + 2
  BY <1>6, <1>7
<1>9. TopCall' = b
  BY <1>7 DEF TopCall
<1>10. Fits(TopCall, a) /\ Fits(a, b)
  BY <1>1, <1>5 DEF Fits, RunsIn, CallsInv
<1>11. CallsInv'
  <2>1. ASSUME NEW i \in DOMAIN calls', i > 1 PROVE Fits(calls'[i - 1], calls'[i])
    <3>1. CASE i = n + 1
      <4>1. i - 1 = n /\ n \in 1 .. n
        BY <1>6, <3>1
      <4>2. QED
        BY <1>6, <1>7, <1>10, <3>1, <4>1
    <3>2. CASE i = n + 2
      <4>1. i - 1 = n + 1
        BY <1>6, <3>2
      <4>2. QED
        BY <1>7, <1>10, <3>2, <4>1
    <3>3. CASE i # n + 1 /\ i # n + 2
      <4>1. i \in 1 .. n /\ i - 1 \in 1 .. n
        BY <1>6, <1>7, <2>1, <3>3
      <4>2. QED
        BY <1>6, <1>7, <2>1, <4>1 DEF CallsInv
    <3>4. QED
      BY <3>1, <3>2, <3>3
  <2>2. calls' # << >> /\ calls'[1] = Host
    <3>1. Len(calls') # 0 /\ 1 \in 1 .. n
      BY <1>6, <1>7
    <3>2. QED
      BY <1>7, <3>1, SequenceFacts DEF CallsInv
  <2>3. active' = RunsIn(TopCall')
    BY <1>1, <1>5, <1>9 DEF RunsIn
  <2>4. QED
    BY <2>1, <2>2, <2>3 DEF CallsInv
<1>12. /\ frames' \in [Contexts -> Seq(Nat)]
       /\ \A d \in Contexts : Len(frames'[d]) <= MaxFrames
       /\ sp' \in [Contexts -> Nat]
       /\ handlers' \in [Contexts -> Seq(Handler)]
       /\ \A d \in Contexts \ {c} : frames'[d] = frames[d] /\ handlers'[d] = handlers[d]
       /\ frames'[c] # << >>
       /\ StackInv'
  BY ResumeStacks
<1>13. TypeOK'
  BY <1>1, <1>3, <1>7, <1>12 DEF TypeOK
<1>14. OutcomeInv'
  BY <1>1, <1>5, <1>9 DEF OutcomeInv, RunKinds
<1>15. Resumes' = Resumes \cup {n + 1} /\ Runs' = Runs \cup {n + 2}
  BY <1>5, <1>7, <1>8 DEF Resumes, Runs, RunKinds
<1>16. /\ \A i \in DOMAIN calls : calls[i].ctx # c
       /\ \A i \in Resumes : calls[i].co # c /\ calls'[i] = calls[i] /\ i < n + 1
  BY <1>1, <1>8, Idle DEF Resumes
<1>17. ResumeInv'
  <2>1. RunningIffResumed'
    <3>1. {d \in Coros : status'[d] = "RUNNING"} = {d \in Coros : status[d] = "RUNNING"} \cup {c}
      BY <1>1 DEF TypeOK
    <3>2. {calls'[i].co : i \in Resumes'} = {calls[i].co : i \in Resumes} \cup {c}
      BY <1>5, <1>7, <1>15, <1>16
    <3>3. QED
      BY <3>1, <3>2 DEF ResumeInv, RunningIffResumed, Resumes
  <2>2. ASSUME NEW i \in Resumes', NEW j \in Resumes', calls'[i].co = calls'[j].co
        PROVE  i = j
    <3>1. CASE i \in Resumes /\ j \in Resumes
      BY <1>16, <2>2, <3>1 DEF ResumeInv
    <3>2. CASE i = n + 1 \/ j = n + 1
      BY <1>5, <1>7, <1>15, <1>16, <2>2, <3>2
    <3>3. QED
      BY <1>15, <3>1, <3>2
  <2>3. ASSUME NEW i \in DOMAIN calls', calls'[i].ctx \in Coros
        PROVE  \E j \in Resumes' : j < i /\ calls'[j].co = calls'[i].ctx
    <3>1. CASE i \in DOMAIN calls
      <4>1. PICK j \in Resumes : j < i /\ calls[j].co = calls[i].ctx
        BY <1>8, <2>3, <3>1 DEF ResumeInv
      <4>2. QED
        BY <1>8, <1>15, <1>16, <3>1, <4>1
    <3>2. CASE i = n + 1
      <4>1. calls'[i].ctx = active
        BY <1>5, <1>7, <3>2
      <4>2. PICK j \in Resumes : calls[j].co = active
        BY <2>3, <4>1, ActiveResumed
      <4>3. QED
        BY <1>15, <1>16, <3>2, <4>1, <4>2
    <3>3. CASE i = n + 2
      BY <1>5, <1>7, <1>8, <1>15, <3>3
    <3>4. QED
      BY <1>8, <3>1, <3>2, <3>3
  <2>4. QED
    BY <2>1, <2>2, <2>3 DEF ResumeInv
<1>18. RunInv'
  <2>1. ASSUME NEW i \in Runs
        PROVE  /\ calls'[i] = calls[i] /\ calls[i].ctx # c /\ i < n + 2 /\ i \in Nat
               /\ frames'[calls[i].ctx] = frames[calls[i].ctx]
               /\ handlers'[calls[i].ctx] = handlers[calls[i].ctx]
    <3>1. i \in DOMAIN calls
      BY DEF Runs
    <3>2. calls[i].ctx \in Contexts /\ calls[i].ctx # c
      BY <1>16, <3>1, CallsFacts, CallFields
    <3>3. QED
      BY <1>6, <1>8, <1>12, <3>1, <3>2
  <2>2. ASSUME NEW i \in Runs' PROVE calls'[i].exit < Len(frames'[calls'[i].ctx])
    <3>1. CASE i \in Runs
      BY <2>1, <3>1 DEF RunInv
    <3>2. CASE i = n + 2
      <4>1. Len(frames'[c]) \in Nat /\ Len(frames'[c]) # 0
        BY <1>3, <1>12, SequenceFacts
      <4>2. 0 < Len(frames'[c])
        BY <4>1
      <4>3. QED
        BY <1>5, <1>7, <3>2, <4>2
    <3>3. QED
      BY <1>15, <3>1, <3>2
  <2>3. ASSUME NEW i \in Runs', NEW j \in Runs', i < j, calls'[i].ctx = calls'[j].ctx
        PROVE  calls'[i].exit < calls'[j].exit
    <3>1. CASE i \in Runs /\ j \in Runs
      BY <2>1, <2>3, <3>1 DEF RunInv
    <3>2. CASE i \in Runs /\ j = n + 2
      BY <1>5, <1>7, <2>1, <2>3, <3>2
    <3>3. CASE i = n + 2
      <4>1. n \in Nat /\ j \in Nat /\ j <= n + 2
        BY <1>6, <1>15, <2>1
      <4>2. QED
        BY <2>3, <3>3, <4>1
    <3>4. QED
      BY <1>15, <3>1, <3>2, <3>3
  <2>4. ASSUME NEW i \in Runs', calls'[i].kind = "callback"
        PROVE  /\ frames'[calls'[i].ctx][calls'[i].exit + 1] = calls'[i].size
               /\ \A h \in DOMAIN handlers'[calls'[i].ctx] :
                    handlers'[calls'[i].ctx][h].depth # calls'[i].exit
    <3>1. i \in Runs
      BY <1>5, <1>7, <1>15, <2>4
    <3>2. QED
      <4>1. /\ calls'[i] = calls[i]
            /\ frames'[calls[i].ctx] = frames[calls[i].ctx]
            /\ handlers'[calls[i].ctx] = handlers[calls[i].ctx]
        BY <2>1, <3>1
      <4>2. calls[i].kind = "callback"
        BY <2>4, <4>1
      <4>3. /\ frames[calls[i].ctx][calls[i].exit + 1] = calls[i].size
            /\ \A h \in DOMAIN handlers[calls[i].ctx] :
                 handlers[calls[i].ctx][h].depth # calls[i].exit
        BY <3>1, <4>2, Zenon DEF RunInv
      <4>4. QED
        BY <4>1, <4>3, Zenon
  <2>5. ~InNative'
    BY <1>5, <1>9 DEF InNative
  <2>6. QED
    BY <2>2, <2>3, <2>4, <2>5 DEF RunInv
<1>19. QED
  BY <1>11, <1>12, <1>13, <1>14, <1>17, <1>18

(* resumeCoroutine goes back to its caller: the coroutine no longer runs   *)
(* and the caller's context has the stacks it had.                         *)
LEMMA ResumeEnds ==
  ASSUME IInv, TopCall.kind = "resume", NEW st \in {"SUSPENDED", "DEAD"}, Restore(st),
         outcome' \in {"none", "error"},
         frames' \in [Contexts -> Seq(Nat)], sp' \in [Contexts -> Nat],
         handlers' \in [Contexts -> Seq(Handler)],
         \A d \in Contexts \ {TopCall.co} :
           frames'[d] = frames[d] /\ sp'[d] = sp[d] /\ handlers'[d] = handlers[d],
         Len(frames'[TopCall.co]) <= MaxFrames,
         Stacked(frames'[TopCall.co], sp'[TopCall.co], handlers'[TopCall.co]),
         Slack(frames'[TopCall.co], sp'[TopCall.co], MaxOperands + 2),
         st = "SUSPENDED" => /\ frames'[TopCall.co] # << >>
                             /\ Slack(frames'[TopCall.co], sp'[TopCall.co], MaxOperands + 1)
  PROVE  IInv'
<1> USE DEF IInv
<1> DEFINE c == TopCall.co
           n == Len(calls)
<1>1. /\ status' = [status EXCEPT ![c] = st] /\ active' = TopCall.ctx
      /\ yielded' = TopCall.prev /\ calls' = Below
  BY DEF Restore
<1>2. /\ calls' \in Seq(CallRecord)
      /\ DOMAIN calls' = DOMAIN calls \ {n}
      /\ \A i \in DOMAIN calls' : calls'[i] = calls[i]
      /\ TopCall' = calls[n - 1]
      /\ calls' # << >> /\ calls'[1] = Host
      /\ \A i \in DOMAIN calls' : i > 1 => Fits(calls'[i - 1], calls'[i])
  BY <1>1, Returned
<1>3. /\ Fits(calls[n - 1], TopCall) /\ n \in DOMAIN calls /\ TopCall = calls[n] /\ n \in Nat
      /\ DOMAIN calls = 1 .. n
  BY Called, CallsFacts
<1>4. /\ TopCall'.kind \in RunKinds /\ RunsIn(TopCall') = TopCall.ctx /\ ~TopCall.prev
      /\ c \in Coros
  BY <1>2, <1>3 DEF Fits, RunKinds
<1>5. active = c /\ c \in Contexts /\ TopCall.ctx \in Contexts
  BY <1>3, <1>4, CallsFacts, CallFields DEF CallsInv, RunsIn, Contexts
<1>6. n \in Resumes /\ Resumes' = Resumes \ {n} /\ Runs' = Runs
  BY <1>2, <1>3 DEF Resumes, Runs, RunKinds
<1>7. \A i \in DOMAIN calls : calls[i].ctx # c
  BY <1>3, <1>6, NothingElse
<1>8. /\ status \in [Coros -> {"CREATED", "SUSPENDED", "RUNNING", "DEAD"}]
      /\ status' \in [Coros -> {"CREATED", "SUSPENDED", "RUNNING", "DEAD"}]
      /\ status'[c] = st /\ \A d \in Coros \ {c} : status'[d] = status[d]
  BY <1>1, <1>4 DEF TypeOK
<1>9. ASSUME NEW d \in Contexts, d # c
      PROVE  frames'[d] = frames[d] /\ sp'[d] = sp[d] /\ handlers'[d] = handlers[d]
  BY <1>9
<1> HIDE DEF c
<1>10. TypeOK'
  <2>1. \A d \in Contexts : Len(frames'[d]) <= MaxFrames
    BY <1>9 DEF TypeOK, c
  <2>2. active' \in Contexts /\ yielded' \in BOOLEAN
    <3>1. TopCall.prev \in BOOLEAN
      BY <1>3, CallsFacts, CallFields
    <3>2. QED
      BY <1>1, <1>5, <3>1
  <2>3. QED
    BY <1>2, <1>8, <2>1, <2>2 DEF TypeOK
<1>11. StackInv'
  <2>1. ASSUME NEW d \in Contexts
        PROVE  /\ Stacked(frames'[d], sp'[d], handlers'[d])
               /\ Slack(frames'[d], sp'[d], MaxOperands + 2)
    <3>1. CASE d = c
      BY <3>1 DEF c
    <3>2. CASE d # c
      BY <1>5, <1>9, <3>2 DEF StackInv
    <3>3. QED
      BY <3>1, <3>2
  <2>2. ASSUME NEW d \in Coros, status'[d] = "SUSPENDED"
        PROVE  frames'[d] # << >> /\ Slack(frames'[d], sp'[d], MaxOperands + 1)
    <3>1. CASE d = c
      BY <1>8, <2>2, <3>1 DEF c
    <3>2. CASE d # c
      <4>1. status[d] = "SUSPENDED"
        BY <1>8, <2>2, <3>2
      <4>2. frames'[d] = frames[d] /\ sp'[d] = sp[d]
        BY <1>9, <3>2 DEF Contexts
      <4>3. QED
        BY <4>1, <4>2 DEF StackInv
    <3>3. QED
      BY <3>1, <3>2
  <2>3. QED
    BY <2>1, <2>2 DEF StackInv
<1>12. CallsInv'
  BY <1>1, <1>2, <1>4 DEF CallsInv
<1>13. OutcomeInv'
  BY <1>1, <1>4 DEF OutcomeInv, RunKinds
<1>14. \A i \in Resumes' : i \in Resumes /\ i # n /\ calls'[i] = calls[i] /\ calls[i].co # c
  <2>1. \A i \in Resumes' : i \in Resumes /\ i # n /\ calls'[i] = calls[i]
    BY <1>2, <1>6 DEF Resumes
  <2>2. \A i \in Resumes : calls[i].co = c => i = n
    BY <1>3, <1>6 DEF ResumeInv, c
  <2>3. QED
    BY <2>1, <2>2
<1>15. ResumeInv'
  <2>1. RunningIffResumed'
    <3>1. {d \in Coros : status'[d] = "RUNNING"} = {d \in Coros : status[d] = "RUNNING"} \ {c}
      BY <1>8
    <3>2. {calls'[i].co : i \in Resumes'} = {calls[i].co : i \in Resumes} \ {c}
      BY <1>3, <1>6, <1>14 DEF c
    <3>3. QED
      BY <3>1, <3>2 DEF ResumeInv, RunningIffResumed, Resumes
  <2>2. ASSUME NEW i \in Resumes', NEW j \in Resumes', calls'[i].co = calls'[j].co
        PROVE  i = j
    <3>1. i \in Resumes /\ j \in Resumes /\ calls[i].co = calls[j].co
      BY <1>14, <2>2
    <3>2. QED
      BY <3>1 DEF ResumeInv
  <2>3. ASSUME NEW i \in DOMAIN calls', calls'[i].ctx \in Coros
        PROVE  \E j \in Resumes' : j < i /\ calls'[j].co = calls'[i].ctx
    <3>1. i \in 1 .. n /\ i # n /\ calls'[i] = calls[i] /\ i \in DOMAIN calls
      BY <1>2, <1>3
    <3>2. PICK j \in Resumes : j < i /\ calls[j].co = calls[i].ctx
      BY <2>3, <3>1 DEF ResumeInv
    <3>3. j # n
      BY <1>3, <3>1, <3>2
    <3>4. QED
      BY <1>6, <1>14, <3>1, <3>2, <3>3
  <2>4. QED
    BY <2>1, <2>2, <2>3 DEF ResumeInv
<1>16. RunInv'
  <2>1. ASSUME NEW i \in Runs'
        PROVE  /\ i \in Runs /\ calls'[i] = calls[i]
               /\ frames'[calls[i].ctx] = frames[calls[i].ctx]
               /\ handlers'[calls[i].ctx] = handlers[calls[i].ctx]
    <3>1. i \in Runs /\ i \in DOMAIN calls /\ calls'[i] = calls[i]
      BY <1>2, <1>6 DEF Runs
    <3>2. calls[i].ctx \in Contexts /\ calls[i].ctx # c
      BY <1>7, <3>1, CallsFacts, CallFields
    <3>3. QED
      BY <1>9, <3>1, <3>2
  <2>2. ~InNative'
    BY <1>4 DEF InNative, RunKinds
  <2>3. QED
    BY <2>1, <2>2, RunsKept DEF RunInv
<1>17. QED
  BY <1>10, <1>11, <1>12, <1>13, <1>15, <1>16

LEMMA SuspendKeeps == ASSUME IInv, Suspend PROVE IInv'
<1> USE DEF IInv
<1>1. /\ TopCall.kind = "resume" /\ outcome = "value" /\ yielded /\ Restore("SUSPENDED")
      /\ outcome' = "none" /\ UNCHANGED <<frames, sp, handlers>>
  BY DEF Suspend, vmVars
<1>2. active = TopCall.co /\ active \in Contexts
  BY <1>1, CallsFacts DEF CallsInv, RunsIn
<1>3. /\ frames \in [Contexts -> Seq(Nat)] /\ sp \in [Contexts -> Nat]
      /\ handlers \in [Contexts -> Seq(Handler)] /\ Len(frames[active]) <= MaxFrames
  BY <1>2 DEF TypeOK
<1>4. /\ Stacked(frames[active], sp[active], handlers[active])
      /\ Slack(frames[active], sp[active], MaxOperands + 2)
  BY <1>1, <1>2 DEF StackInv
<1>5. frames[active] # << >> /\ Slack(frames[active], sp[active], MaxOperands + 1)
  BY <1>1 DEF OutcomeInv
<1>6. QED
  BY <1>1, <1>2, <1>3, <1>4, <1>5, ResumeEnds

(* Nothing stays on the stacks of a coroutine that has ended.              *)
LEMMA DeadKeeps == ASSUME IInv, Finish \/ ResumeFails PROVE IInv'
<1> USE DEF IInv
<1> DEFINE c == TopCall.co
<1>1. /\ TopCall.kind = "resume" /\ Restore("DEAD") /\ Discard(c)
      /\ outcome' \in {"none", "error"}
  BY DEF Finish, ResumeFails
<1>2. active = c /\ c \in Contexts
  BY <1>1, CallsFacts DEF CallsInv, RunsIn
<1>3. << >> \in Seq(Nat) /\ << >> \in Seq(Handler) /\ Len(<< >>) = 0 /\ DOMAIN << >> = {}
  OBVIOUS
<1>4. /\ frames' \in [Contexts -> Seq(Nat)] /\ sp' \in [Contexts -> Nat]
      /\ handlers' \in [Contexts -> Seq(Handler)]
      /\ frames'[c] = << >> /\ sp'[c] = 0 /\ handlers'[c] = << >>
      /\ \A d \in Contexts \ {c} :
           frames'[d] = frames[d] /\ sp'[d] = sp[d] /\ handlers'[d] = handlers[d]
  BY <1>1, <1>2, <1>3 DEF Discard, TypeOK
<1>5. Stacked(<< >>, 0, << >>) /\ Slack(<< >>, 0, MaxOperands + 2) /\ Len(<< >>) <= MaxFrames
  BY <1>3, Limits DEF Stacked, Slack
<1>6. QED
  BY <1>1, <1>4, <1>5, ResumeEnds

-----------------------------------------------------------------------------
LEMMA InitKeeps == ASSUME Init PROVE IInv
<1>1. /\ calls = <<Host>> /\ outcome = "none" /\ ~yielded /\ active = Main
      /\ frames = [c \in Contexts |-> << >>] /\ sp = [c \in Contexts |-> 0]
      /\ handlers = [c \in Contexts |-> << >>] /\ status = [c \in Coros |-> "CREATED"]
      /\ yielded \in BOOLEAN
  BY DEF Init, Host
<1>2. Host \in CallRecord /\ Host.kind = "host" /\ Host.ctx = Main /\ Host.depth = 0
      /\ Host.size = 0 /\ Main \in Contexts /\ Main \notin Coros
  BY ContextAssumption DEF Host, CallRecord, Contexts
<1>3. << >> \in Seq(Nat) /\ << >> \in Seq(Handler) /\ Len(<< >>) = 0 /\ DOMAIN << >> = {}
  OBVIOUS
<1>4. /\ calls \in Seq(CallRecord) /\ Len(calls) = 1 /\ calls[1] = Host /\ calls # << >>
      /\ DOMAIN calls = {1}
  BY <1>1, <1>2
<1>5. TopCall = Host
  BY <1>4 DEF TopCall
<1>6. Stacked(<< >>, 0, << >>) /\ Slack(<< >>, 0, MaxOperands + 2)
      /\ Slack(<< >>, 0, MaxOperands + 1) /\ Len(<< >>) <= MaxFrames
  BY <1>3, Limits DEF Stacked, Slack
<1>7. TypeOK
  BY <1>1, <1>2, <1>3, <1>4, <1>6 DEF TypeOK
<1>8. StackInv
  BY <1>1, <1>6 DEF StackInv
<1>9. CallsInv
  <2>1. \A i \in DOMAIN calls : ~(i > 1)
    BY <1>4
  <2>2. QED
    BY <1>1, <1>2, <1>4, <1>5, <2>1 DEF CallsInv, RunsIn
<1>10. OutcomeInv
  BY <1>1, <1>2, <1>5 DEF OutcomeInv, RunKinds
<1>11. Resumes = {} /\ Runs = {}
  BY <1>2, <1>4 DEF Resumes, Runs, RunKinds
<1>12. ResumeInv
  <2>1. {c \in Coros : status[c] = "RUNNING"} = {}
    BY <1>1
  <2>2. RunningIffResumed
    BY <1>11, <2>1 DEF RunningIffResumed, Resumes
  <2>3. QED
    BY <1>2, <1>4, <1>11, <2>2 DEF ResumeInv
<1>13. RunInv
  <2>1. Depth = 0 /\ sp[active] = 0 /\ frames[active] = << >>
    BY <1>1, <1>2, <1>3 DEF Depth
  <2>2. QED
    BY <1>2, <1>5, <1>6, <1>11, <2>1 DEF RunInv
<1>14. QED
  BY <1>7, <1>8, <1>9, <1>10, <1>12, <1>13 DEF IInv

LEMMA NextKeeps == ASSUME IInv, Uses = {}, [Next]_vars PROVE IInv'
<1>1. CASE Push
  BY <1>1, PushKeeps
<1>2. CASE Pop
  BY <1>2, PopKeeps
<1>3. CASE TryPush
  BY <1>3, TryPushKeeps
<1>4. CASE TryPop
  BY <1>4, TryPopKeeps
<1>5. CASE CallFunction
  BY <1>5, CallFunctionKeeps
<1>6. CASE Return
  BY <1>6, ReturnKeeps
<1>7. CASE Halt
  BY <1>7, HaltKeeps
<1>8. CASE Throw
  BY <1>8, ThrowKeeps
<1>9. CASE Catch
  BY <1>9, CatchKeeps
<1>10. CASE RunFails
  BY <1>10, RunFailsKeeps
<1>11. CASE CallNative
  BY <1>11, CallNativeKeeps
<1>12. CASE CallBack
  BY <1>12, CallBackKeeps
<1>13. CASE NativeReturn \/ NativeFail
  BY <1>13, NativeEndKeeps
<1>14. CASE Interpret
  BY <1>14, InterpretKeeps
<1>15. CASE Reset
  BY <1>15, ResetKeeps
<1>16. CASE \E c \in Coros : Resume(c)
  BY <1>16, ResumeKeeps
<1>17. CASE Yield
  BY <1>17, YieldKeeps
<1>18. CASE Suspend
  BY <1>18, SuspendKeeps
<1>19. CASE Finish \/ ResumeFails
  BY <1>19, DeadKeeps
<1>20. CASE UNCHANGED vars
  <2>1. UNCHANGED <<frames, sp, handlers, calls, outcome, yielded, status, active>>
    BY <1>20 DEF vars, vmVars, coroVars
  <2>2. TypeOK' /\ StackInv'
    BY <2>1 DEF IInv, TypeOK, StackInv
  <2>3. CallsInv' /\ OutcomeInv'
    BY <2>1 DEF IInv, CallsInv, OutcomeInv, TopCall
  <2>4. ResumeInv'
    BY <2>1 DEF IInv, ResumeInv, RunningIffResumed, Resumes
  <2>5. RunInv'
    BY <2>1 DEF IInv, RunInv, Runs, InNative, TopCall, Depth
  <2>6. QED
    BY <2>2, <2>3, <2>4, <2>5 DEF IInv
<1>21. QED
  BY <1>1, <1>2, <1>3, <1>4, <1>5, <1>6, <1>7, <1>8, <1>9, <1>10, <1>11, <1>12, <1>13, <1>14,
     <1>15, <1>16, <1>17, <1>18, <1>19, <1>20 DEF Next

-----------------------------------------------------------------------------
(* In every reachable state the frames, values and tries of each context   *)
(* are nested, every activation on the C++ stack was called by the one     *)
(* below it in a context where that one runs, the frames of a context are  *)
(* shared out among the runs in it, and each coroutine that runs is run by *)
(* one resume: the invariant of run(), callValue, callFromNative,          *)
(* tryHandle and resumeCoroutine.                                          *)
THEOREM ControlIsNested ==
  ASSUME Uses = {}
  PROVE  Spec => []IInv
<1>1. Init => IInv
  BY InitKeeps
<1>2. IInv /\ [Next]_vars => IInv'
  BY NextKeeps
<1>3. QED
  BY <1>1, <1>2, PTL DEF Spec

(* The stacks, the C++ stack and the coroutines' states keep their types,  *)
(* and no context has more than MAX_FRAMES frames.                         *)
THEOREM ControlTypeCorrect ==
  ASSUME Uses = {}
  PROVE  Spec => []TypeOK
<1>1. IInv => TypeOK
  BY DEF IInv
<1>2. QED
  BY <1>1, ControlIsNested, PTL

(* A run() executes only frames above its exitFrameDepth, in the context   *)
(* it was started in.                                                      *)
THEOREM RunsOwnTheirFrames ==
  ASSUME Uses = {}
  PROVE  Spec => []RunOwnsItsFrames
<1>1. IInv => RunOwnsItsFrames
  BY TopExit DEF IInv, RunOwnsItsFrames, Executing
<1>2. QED
  BY <1>1, ControlIsNested, PTL

(* When callFromNative gives a value to a native function, the frames and  *)
(* the value stack are as the native left them.                            *)
THEOREM NativesFindTheirStack ==
  ASSUME Uses = {}
  PROVE  Spec => []NativeFindsItsStack
<1>1. IInv => NativeFindsItsStack
  BY NativeFacts DEF NativeFindsItsStack
<1>2. QED
  BY <1>1, ControlIsNested, PTL

(* However many frames of however many operands were entered, left and    *)
(* unwound, the values of a context pass STACK_LIMIT by no more than what  *)
(* one frame's operands, and a call that fails, exceed the headroom by.    *)
THEOREM OverrunsStayWithinOneFrame ==
  ASSUME Uses = {}
  PROVE  Spec => []OverrunWithinOneFrame
<1>1. IInv => OverrunWithinOneFrame
  BY DEF IInv, StackInv, Stacked, OverrunWithinOneFrame
<1>2. QED
  BY <1>1, ControlIsNested, PTL

(* A program whose frames need less than the headroom keeps its values     *)
(* within the memory of the stack.                                         *)
COROLLARY StacksInBounds ==
  ASSUME Uses = {}, MaxOperands < Headroom
  PROVE  Spec => []StackInBounds
<1>1. TypeOK /\ OverrunWithinOneFrame => StackInBounds
  BY Limits DEF TypeOK, OverrunWithinOneFrame, StackInBounds
<1>2. QED
  BY <1>1, OverrunsStayWithinOneFrame, ControlTypeCorrect, PTL

(* The values below a try's are still on the stack.                        *)
LEMMA TopWithin ==
  ASSUME NEW F \in Seq(Nat), NEW H \in Seq(Handler), NEW s \in Nat, Stacked(F, s, H),
         NEW i \in DOMAIN H
  PROVE  H[i].top <= s
<1>1. /\ DOMAIN F = 1 .. Len(F) /\ Len(F) \in Nat /\ (\A k \in DOMAIN F : F[k] \in Nat)
      /\ H[i].top \in Nat
  BY SequenceFacts, HandlerFields
<1>2. PICK d \in 1 .. Len(F) : d = H[i].depth
  BY <1>1 DEF Stacked
<1>3. CASE d = Len(F)
  BY <1>2, <1>3 DEF Stacked
<1>4. CASE d # Len(F)
  <2>1. d + 1 \in DOMAIN F
    BY <1>1, <1>4, NextIn
  <2>2. H[i].top <= F[d + 1] /\ F[d + 1] < s /\ F[d + 1] \in Nat
    BY <1>1, <1>2, <1>4, <2>1 DEF Stacked
  <2>3. QED
    BY <1>1, <2>2
<1>5. QED
  BY <1>3, <1>4

(* The try handlers of a context belong to frames that are there, in their *)
(* order, and tryHandle cuts the stack back to values that are still there.*)
THEOREM HandlersAreNested ==
  ASSUME Uses = {}
  PROVE  Spec => []HandlersNested
<1>1. IInv => HandlersNested
  <2>1. SUFFICES ASSUME IInv, NEW c \in Contexts, NEW i \in DOMAIN handlers[c]
                 PROVE  /\ handlers[c][i].depth \in DOMAIN frames[c]
                        /\ frames[c][handlers[c][i].depth] < handlers[c][i].top
                        /\ handlers[c][i].top <= sp[c]
                        /\ \A j \in 1 .. (i - 1) : handlers[c][j].depth <= handlers[c][i].depth
    BY DEF HandlersNested
  <2>2. /\ frames[c] \in Seq(Nat) /\ handlers[c] \in Seq(Handler) /\ sp[c] \in Nat
        /\ Stacked(frames[c], sp[c], handlers[c])
    BY <2>1 DEF IInv, TypeOK, StackInv
  <2>3. handlers[c][i].top <= sp[c]
    BY <2>1, <2>2, TopWithin
  <2>4. \A j \in 1 .. (i - 1) : j \in DOMAIN handlers[c] /\ j < i
    BY <2>1, <2>2, SequenceFacts
  <2>5. QED
    BY <2>1, <2>2, <2>3, <2>4 DEF Stacked
<1>2. QED
  BY <1>1, ControlIsNested, PTL

(* Each frame's base lies below the next one's, the last one's below the   *)
(* top of the stack: a return never cuts into the caller's operands.       *)
THEOREM FramesAreNested ==
  ASSUME Uses = {}
  PROVE  Spec => []FramesNested
<1>1. IInv => FramesNested
  <2>1. SUFFICES ASSUME IInv, NEW c \in Contexts, NEW i \in DOMAIN frames[c]
                 PROVE  frames[c][i] < IF i = Len(frames[c]) THEN sp[c] ELSE frames[c][i + 1]
    BY DEF FramesNested
  <2>2. frames[c] \in Seq(Nat) /\ Stacked(frames[c], sp[c], handlers[c])
    BY <2>1 DEF IInv, TypeOK, StackInv
  <2>3. CASE i = Len(frames[c])
    BY <2>1, <2>2, <2>3 DEF Stacked
  <2>4. CASE i # Len(frames[c])
    <3>1. i + 1 \in DOMAIN frames[c] /\ i < i + 1
      BY <2>1, <2>2, <2>4, SequenceFacts
    <3>2. QED
      BY <2>1, <2>2, <2>4, <3>1 DEF Stacked
  <2>5. QED
    BY <2>3, <2>4
<1>2. QED
  BY <1>1, ControlIsNested, PTL

(* While yielded_ is set the C++ stack is back at the resumeCoroutine that *)
(* reads and clears it.                                                    *)
THEOREM YieldsAreConsumed ==
  ASSUME Uses = {}
  PROVE  Spec => []YieldIsConsumed
<1>1. IInv => YieldIsConsumed
  BY DEF IInv, OutcomeInv, YieldIsConsumed
<1>2. QED
  BY <1>1, ControlIsNested, PTL

(* A coroutine is RUNNING while resumeCoroutine has it on the C++ stack    *)
(* and at no other time, however the coroutine ends.                       *)
THEOREM RunningMeansResumed ==
  ASSUME Uses = {}
  PROVE  Spec => []RunningIffResumed
<1>1. IInv => RunningIffResumed
  BY DEF IInv, ResumeInv
<1>2. QED
  BY <1>1, ControlIsNested, PTL
=============================================================================
