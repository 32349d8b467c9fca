---------------------------- MODULE HeadersProofs ----------------------------
(***************************************************************************)
(* Proofs about the headers of a call, for any chain of interceptors, any  *)
(* identity, any number of attempts and any clock.  The loops over the     *)
(* chain and over the identity's headers are reasoned about by induction.  *)
(***************************************************************************)
EXTENDS Headers, FiniteSets, FiniteSetTheorems, FunctionTheorems, TLAPS

-----------------------------------------------------------------------------
(***************************************************************************)
(* Induction up to a bound, for a set of numbers.                          *)
(***************************************************************************)

\* A set that has 0, and with a number below n the next one, has 0 to n: else
\* the numbers up to a missing one that are missing would map one to one into
\* themselves, by i - 1, and yet miss the greatest.
LEMMA SetInduction ==
    ASSUME NEW n \in Nat, NEW T, 0 \in T, \A i \in 0 .. n - 1 : i \in T => i + 1 \in T
    PROVE  0 .. n \subseteq T
<1> SUFFICES ASSUME NEW c \in 0 .. n, c \notin T PROVE FALSE
  OBVIOUS
<1> DEFINE E == {i \in 0 .. c : i \notin T}
           f == [i \in E |-> i - 1]
<1>1. \A i \in E : i # 0 /\ i - 1 \in E
  OBVIOUS
<1>2. f \in Injection(E, E)
  BY <1>1 DEF Injection, IsInjective
<1>3. IsFiniteSet(E)
  <2>1. IsFiniteSet(0 .. c)
    BY FS_Interval
  <2> QED
    BY <2>1, FS_Subset
<1>4. f \in Surjection(E, E)
  <2> HIDE DEF E, f
  <2> QED
    BY <1>2, <1>3, FS_Injection
<1>5. c \in E /\ \A i \in E : f[i] # c
  OBVIOUS
<1> HIDE DEF E, f
<1> QED
  BY <1>4, <1>5 DEF Surjection

-----------------------------------------------------------------------------
(***************************************************************************)
(* The loops.                                                              *)
(***************************************************************************)

\* before_call, at an instant.
BeforeCallAt(interceptor, md, t) ==
    IF interceptor # "bearer" THEN trace_before_call(interceptor, md)
    ELSE IF has_header(md, "authorization") THEN Carried(md)
    ELSE IF ~(ValidSystemTime(t) /\ CanSign) THEN [ok |-> FALSE, md |-> <<>>, code |-> "Internal"]
    ELSE add_header(md, [key |-> "authorization", from |-> "bearer",
                         exp |-> expiry(t, bearer.lifetime_seconds)])

\* What each interceptor of the chain leaves.
IsRun(A, md, t) ==
    /\ A[0] = Carried(md)
    /\ \A i \in 1 .. Len(chain) :
           A[i] = IF ~A[i - 1].ok THEN A[i - 1] ELSE BeforeCallAt(chain[i], A[i - 1].md, t)

\* What each header of a list leaves when a source is extended.
IsExtension(A, source, added) ==
    /\ A[0] = Carried(source)
    /\ \A i \in 1 .. Len(added) :
           A[i] = IF ~A[i - 1].ok \/ has_header(source, added[i].key) THEN A[i - 1]
                  ELSE append(A[i - 1].md, added[i])

\* run_before is such a run.
LEMMA RunBefore ==
    ASSUME Len(chain) \in Nat, NEW md
    PROVE  \E A : IsRun(A, md, now) /\ run_before(md) = A[Len(chain)]
<1> DEFINE n == Len(chain)
           Step(g, i) == IF i = 0 THEN Carried(md)
                         ELSE IF ~g[i - 1].ok THEN g[i - 1]
                         ELSE before_call(chain[i], g[i - 1].md)
           T == {k \in 0 .. n : \E g : g = [i \in 0 .. k |-> Step(g, i)]}
           R == CHOOSE g : g = [i \in 0 .. n |-> Step(g, i)]
<1>1. run_before(md) = R[n]
  BY DEF run_before
<1>2. 0 \in T
  <2> DEFINE g == [i \in 0 .. 0 |-> Carried(md)]
  <2>1. g = [i \in 0 .. 0 |-> Step(g, i)]
    OBVIOUS
  <2> HIDE DEF g
  <2> QED
    BY <2>1
<1>3. n \in Nat
  OBVIOUS
<1> HIDE DEF Step, n
<1>4. \A k \in 0 .. n - 1 : k \in T => k + 1 \in T
  <2> SUFFICES ASSUME NEW k \in 0 .. n - 1, NEW g, g = [i \in 0 .. k |-> Step(g, i)]
               PROVE  \E h : h = [i \in 0 .. k + 1 |-> Step(h, i)]
    BY <1>3
  <2> DEFINE h == [i \in 0 .. k + 1 |-> IF i <= k THEN g[i] ELSE Step(g, i)]
  <2>1. \A i \in 0 .. k : g[i] = Step(g, i) /\ h[i] = g[i]
    OBVIOUS
  <2>2. h[k + 1] = Step(g, k + 1)
    OBVIOUS
  <2> HIDE DEF h
  <2>3. \A i \in 0 .. k + 1 : Step(h, i) = Step(g, i)
    BY <2>1 DEF Step
  <2>4. h = [i \in 0 .. k + 1 |-> Step(h, i)]
    <3>1. h = [i \in 0 .. k + 1 |-> h[i]]
      BY DEF h
    <3>2. \A i \in 0 .. k + 1 : h[i] = Step(h, i)
      BY <2>1, <2>2, <2>3
    <3> QED
      BY <3>1, <3>2
  <2> QED
    BY <2>4
<1>5. n \in T
  <2> HIDE DEF T
  <2>1. 0 .. n \subseteq T
    BY <1>2, <1>4, <1>3, SetInduction
  <2> QED
    BY <1>3, <2>1
<1>6. R = [i \in 0 .. n |-> Step(R, i)]
  BY <1>5
<1>7. IsRun(R, md, now)
  <2> HIDE DEF R
  <2>1. \A i \in 0 .. n : R[i] = Step(R, i)
    BY <1>6
  <2>2. \A interceptor, m : before_call(interceptor, m) = BeforeCallAt(interceptor, m, now)
    BY DEF before_call, bearer_before_call, BeforeCallAt
  <2> QED
    BY <1>3, <2>1, <2>2 DEF IsRun, Step, n
<1> QED
  BY <1>1, <1>7 DEF n

\* extend is such an extension.
LEMMA Extend ==
    ASSUME NEW added, Len(added) \in Nat, NEW source
    PROVE  \E A : IsExtension(A, source, added) /\ extend(source, added) = A[Len(added)]
<1> DEFINE n == Len(added)
           Step(g, i) == IF i = 0 THEN Carried(source)
                         ELSE IF ~g[i - 1].ok \/ has_header(source, added[i].key) THEN g[i - 1]
                         ELSE append(g[i - 1].md, added[i])
           T == {k \in 0 .. n : \E g : g = [i \in 0 .. k |-> Step(g, i)]}
           R == CHOOSE g : g = [i \in 0 .. n |-> Step(g, i)]
<1>1. extend(source, added) = R[n]
  BY DEF extend
<1>2. 0 \in T
  <2> DEFINE g == [i \in 0 .. 0 |-> Carried(source)]
  <2>1. g = [i \in 0 .. 0 |-> Step(g, i)]
    OBVIOUS
  <2> HIDE DEF g
  <2> QED
    BY <2>1
<1>3. n \in Nat
  OBVIOUS
<1> HIDE DEF Step, n
<1>4. \A k \in 0 .. n - 1 : k \in T => k + 1 \in T
  <2> SUFFICES ASSUME NEW k \in 0 .. n - 1, NEW g, g = [i \in 0 .. k |-> Step(g, i)]
               PROVE  \E h : h = [i \in 0 .. k + 1 |-> Step(h, i)]
    BY <1>3
  <2> DEFINE h == [i \in 0 .. k + 1 |-> IF i <= k THEN g[i] ELSE Step(g, i)]
  <2>1. \A i \in 0 .. k : g[i] = Step(g, i) /\ h[i] = g[i]
    OBVIOUS
  <2>2. h[k + 1] = Step(g, k + 1)
    OBVIOUS
  <2> HIDE DEF h
  <2>3. \A i \in 0 .. k + 1 : Step(h, i) = Step(g, i)
    BY <2>1 DEF Step
  <2>4. h = [i \in 0 .. k + 1 |-> Step(h, i)]
    <3>1. h = [i \in 0 .. k + 1 |-> h[i]]
      BY DEF h
    <3>2. \A i \in 0 .. k + 1 : h[i] = Step(h, i)
      BY <2>1, <2>2, <2>3
    <3> QED
      BY <3>1, <3>2
  <2> QED
    BY <2>4
<1>5. n \in T
  <2> HIDE DEF T
  <2>1. 0 .. n \subseteq T
    BY <1>2, <1>4, <1>3, SetInduction
  <2> QED
    BY <1>3, <2>1
<1>6. R = [i \in 0 .. n |-> Step(R, i)]
  BY <1>5
<1>7. IsExtension(R, source, added)
  <2> HIDE DEF R
  <2>1. \A i \in 0 .. n : R[i] = Step(R, i)
    BY <1>6
  <2> QED
    BY <1>3, <2>1 DEF IsExtension, Step, n
<1> QED
  BY <1>1, <1>7 DEF n

-----------------------------------------------------------------------------
(***************************************************************************)
(* What the interceptors add.                                              *)
(***************************************************************************)
AnyHeader ==
    [key : STRING \cup {"authorization", "traceparent", "tracestate", "x-trace-id", "x-tenant-id"},
     from : {"caller", "identity", "trace", "bearer"}, exp : Int]

\* The keys of which there is to be one value.
Single == {"authorization", "traceparent"}

\* S is M and then headers that the first k interceptors added at t: none under
\* a single key that was there, and a token signed at t if one of them signs.
Grown(M, S, k, t) ==
    /\ S \in Seq(AnyHeader) /\ Len(M) <= Len(S)
    /\ \A i \in 1 .. Len(M) : S[i] = M[i]
    /\ \A i \in Len(M) + 1 .. Len(S) :
          /\ S[i].key \in Single => \A j \in 1 .. i - 1 : S[j].key # S[i].key
          /\ S[i].from = "bearer" =>
                /\ S[i].exp = expiry(t, bearer.lifetime_seconds)
                /\ \E j \in 1 .. k : chain[j] = "bearer"

\* The first k interceptors have seen to it that their header is there.
Covered(S, k) ==
    \A j \in 1 .. k :
        /\ chain[j] = "bearer" => has_header(S, "authorization")
        /\ chain[j] \in {"static", "static with state"} => has_header(S, "traceparent")

\* One more header.
LEMMA OneMoreHeader ==
    ASSUME NEW M \in Seq(AnyHeader), NEW S, NEW k \in Nat, NEW t, Grown(M, S, k, t),
           NEW h \in AnyHeader, ~Invalid(h.key), h.key \in Single => ~has_header(S, h.key),
           h.from = "bearer" => /\ h.exp = expiry(t, bearer.lifetime_seconds)
                                /\ \E j \in 1 .. k : chain[j] = "bearer"
    PROVE  /\ Grown(M, Append(S, h), k, t)
           /\ \A key : has_header(Append(S, h), key) <=> has_header(S, key) \/ key = h.key
<1> DEFINE A == Append(S, h)
<1>1. /\ S \in Seq(AnyHeader) /\ Len(M) <= Len(S) /\ Len(M) \in Nat /\ Len(S) \in Nat
      /\ \A i \in 1 .. Len(M) : S[i] = M[i]
  BY DEF Grown
<1>2. /\ A \in Seq(AnyHeader) /\ Len(A) = Len(S) + 1 /\ A[Len(S) + 1] = h
      /\ \A i \in 1 .. Len(S) : A[i] = S[i]
  BY <1>1
<1> HIDE DEF A
<1>3. \A key : has_header(A, key) <=> has_header(S, key) \/ key = h.key
  <2> SUFFICES ASSUME NEW key PROVE has_header(A, key) <=> has_header(S, key) \/ key = h.key
    OBVIOUS
  <2>1. has_header(A, key) <=> ~Invalid(key) /\ \E i \in 1 .. Len(S) + 1 : A[i].key = key
    BY <1>2 DEF has_header, ValuesOf
  <2>2. has_header(S, key) <=> ~Invalid(key) /\ \E i \in 1 .. Len(S) : S[i].key = key
    BY DEF has_header, ValuesOf
  <2>3. \A i : i \in 1 .. Len(S) + 1 <=> i \in 1 .. Len(S) \/ i = Len(S) + 1
    BY <1>1
  <2>4. \A i \in 1 .. Len(S) : A[i].key = S[i].key
    BY <1>2, Zenon
  <2>5. A[Len(S) + 1].key = h.key
    BY <1>2, Zenon
  <2> QED
    BY <2>1, <2>2, <2>3, <2>4, <2>5, Zenon
<1>4. ASSUME NEW i \in Len(M) + 1 .. Len(A), A[i].key \in Single, NEW j \in 1 .. i - 1
      PROVE  A[j].key # A[i].key
  <2>1. CASE i = Len(S) + 1
    <3>1. ~has_header(S, A[i].key)
      BY <1>2, <1>4, <2>1
    <3>2. \A l \in 1 .. Len(S) : S[l].key # A[i].key
      BY <1>4, <3>1 DEF has_header, ValuesOf, Invalid, Single
    <3>3. j \in 1 .. Len(S) /\ A[j] = S[j]
      BY <1>1, <1>2, <2>1
    <3> QED
      BY <3>2, <3>3
  <2>2. CASE i # Len(S) + 1
    <3>1. i \in Len(M) + 1 .. Len(S) /\ i \in 1 .. Len(S) /\ j \in 1 .. Len(S)
      BY <1>1, <1>2, <2>2
    <3>2. A[i] = S[i] /\ A[j] = S[j]
      BY <1>2, <3>1
    <3> QED
      BY <1>4, <3>1, <3>2 DEF Grown
  <2> QED
    BY <2>1, <2>2
<1>5. ASSUME NEW i \in Len(M) + 1 .. Len(A), A[i].from = "bearer"
      PROVE  /\ A[i].exp = expiry(t, bearer.lifetime_seconds)
             /\ \E j \in 1 .. k : chain[j] = "bearer"
  <2>1. CASE i = Len(S) + 1
    BY <1>2, <1>5, <2>1
  <2>2. CASE i # Len(S) + 1
    <3>1. i \in Len(M) + 1 .. Len(S) /\ A[i] = S[i]
      BY <1>1, <1>2, <2>2
    <3> QED
      BY <1>5, <3>1 DEF Grown
  <2> QED
    BY <2>1, <2>2
<1>6. Len(M) <= Len(A) /\ \A i \in 1 .. Len(M) : A[i] = M[i]
  BY <1>1, <1>2
<1>7. Grown(M, A, k, t)
  BY <1>2, <1>4, <1>5, <1>6 DEF Grown
<1> QED
  BY <1>3, <1>7 DEF A
\* One interceptor, the next of the chain.
LEMMA InterceptorAdds ==
    ASSUME NEW M \in Seq(AnyHeader), NEW S, NEW k \in Nat, NEW t, Grown(M, S, k, t),
           Covered(S, k), expiry(t, bearer.lifetime_seconds) \in Int,
           chain[k + 1] \in Interceptors,
           NEW r, r = BeforeCallAt(chain[k + 1], S, t), r.ok
    PROVE  Grown(M, r.md, k + 1, t) /\ Covered(r.md, k + 1)
<1>1. Grown(M, S, k + 1, t)
  BY DEF Grown
<1>2. \A j \in 1 .. k + 1 : j \in 1 .. k \/ j = k + 1
  OBVIOUS
<1>3. ASSUME NEW A, \A key : has_header(S, key) => has_header(A, key),
             chain[k + 1] = "bearer" => has_header(A, "authorization"),
             chain[k + 1] \in {"static", "static with state"} => has_header(A, "traceparent")
      PROVE  Covered(A, k + 1)
  BY <1>2, <1>3 DEF Covered
<1>4. CASE chain[k + 1] = "bearer"
  <2>1. CASE has_header(S, "authorization")
    <3>1. r = Carried(S)
      BY <1>4, <2>1 DEF BeforeCallAt
    <3>2. r.md = S
      BY <3>1 DEF Carried
    <3>3. Covered(S, k + 1)
      BY <1>3, <1>4, <2>1
    <3> QED
      BY <1>1, <3>2, <3>3
  <2>2. CASE ~has_header(S, "authorization")
    <3> DEFINE h == [key |-> "authorization", from |-> "bearer",
                     exp |-> expiry(t, bearer.lifetime_seconds)]
    <3>1. ValidSystemTime(t) /\ CanSign
      BY <1>4, <2>2 DEF BeforeCallAt
    <3>2. r = add_header(S, h)
      BY <1>4, <2>2, <3>1 DEF BeforeCallAt
    <3>3. r.md = Append(S, h)
      BY <3>2 DEF add_header, append, Invalid, Carried
    <3>4. h \in AnyHeader
      BY DEF AnyHeader
    <3>5. k + 1 \in 1 .. k + 1 /\ k + 1 \in Nat
      OBVIOUS
    <3>6. /\ h.key = "authorization" /\ ~Invalid(h.key)
          /\ h.from = "bearer" => /\ h.exp = expiry(t, bearer.lifetime_seconds)
                                  /\ \E j \in 1 .. k + 1 : chain[j] = "bearer"
      BY <1>4, <3>5 DEF Invalid
    <3> HIDE DEF h
    <3>7. /\ Grown(M, Append(S, h), k + 1, t)
          /\ \A key : has_header(Append(S, h), key) <=> has_header(S, key) \/ key = h.key
      BY <1>1, <2>2, <3>4, <3>5, <3>6, OneMoreHeader
    <3>8. Covered(Append(S, h), k + 1)
      BY <1>3, <1>4, <3>6, <3>7
    <3> QED
      BY <3>3, <3>7, <3>8
  <2> QED
    BY <2>1, <2>2
<1>5. CASE chain[k + 1] # "bearer"
  <2>1. r = trace_before_call(chain[k + 1], S)
    BY <1>5 DEF BeforeCallAt
  <2>2. CASE has_header(S, "traceparent") \/ chain[k + 1] = "pass through"
    <3>1. r = Carried(S)
      BY <2>1, <2>2 DEF trace_before_call
    <3>2. r.md = S
      BY <3>1 DEF Carried
    <3>3. Covered(S, k + 1)
      BY <1>3, <1>5, <2>2
    <3> QED
      BY <1>1, <3>2, <3>3
  <2>3. CASE ~has_header(S, "traceparent") /\ chain[k + 1] # "pass through"
    <3> DEFINE p == Header("traceparent", "trace")
               q == Header("tracestate", "trace")
    <3>1. p \in AnyHeader /\ q \in AnyHeader
      BY DEF AnyHeader, Header
    <3>2. /\ p.key = "traceparent" /\ q.key = "tracestate"
          /\ p.from # "bearer" /\ q.from # "bearer" /\ q.key \notin Single
          /\ ~Invalid(p.key) /\ ~Invalid(q.key)
      BY DEF Header, Single, Invalid
    <3>3. add_header(S, p) = Carried(Append(S, p))
      BY DEF add_header, append, Invalid, Header
    <3>4. \A m : add_header(m, q).md = Append(m, q)
      BY DEF add_header, append, Invalid, Carried, Header
    <3>5. \/ r.md = Append(S, p)
          \/ r.md = Append(Append(S, p), q)
      <4>1. Carried(Append(S, p)).md = Append(S, p)
        BY DEF Carried
      <4>2. r = IF chain[k + 1] = "static" THEN add_header(S, p)
                ELSE add_header(add_header(S, p).md, q)
        BY <2>1, <2>3 DEF trace_before_call
      <4> HIDE DEF p, q
      <4> QED
        BY <3>3, <3>4, <4>1, <4>2
    <3> HIDE DEF p, q
    <3>6. /\ Grown(M, Append(S, p), k + 1, t)
          /\ \A key : has_header(Append(S, p), key) <=> has_header(S, key) \/ key = p.key
      <4>1. k + 1 \in Nat
        OBVIOUS
      <4>2. ~has_header(S, p.key)
        BY <2>3, <3>2, Zenon
      <4> QED
        BY <1>1, <3>1, <3>2, <4>1, <4>2, OneMoreHeader
    <3>7. /\ Grown(M, Append(Append(S, p), q), k + 1, t)
          /\ \A key : has_header(Append(Append(S, p), q), key) <=>
                          has_header(Append(S, p), key) \/ key = q.key
      <4>1. k + 1 \in Nat
        OBVIOUS
      <4> HIDE DEF p, q
      <4> QED
        BY <3>1, <3>2, <3>6, <4>1, OneMoreHeader
    <3>8. /\ \A key : has_header(S, key) => has_header(r.md, key)
          /\ has_header(r.md, "traceparent")
      BY <3>2, <3>5, <3>6, <3>7
    <3>9. Covered(r.md, k + 1)
      BY <1>3, <1>5, <3>8
    <3> QED
      BY <3>5, <3>6, <3>7, <3>9
  <2> QED
    BY <2>2, <2>3
<1> QED
  BY <1>4, <1>5

\* The whole chain.
LEMMA RunAdds ==
    ASSUME NEW M \in Seq(AnyHeader), NEW t, NEW A, IsRun(A, M, t), Len(chain) \in Nat,
           \A i \in 1 .. Len(chain) : chain[i] \in Interceptors,
           expiry(t, bearer.lifetime_seconds) \in Int, A[Len(chain)].ok
    PROVE  LET S == A[Len(chain)].md
           IN  Grown(M, S, Len(chain), t) /\ Covered(S, Len(chain))
<1> DEFINE n == Len(chain)
           P(k) == A[k].ok => Grown(M, A[k].md, k, t) /\ Covered(A[k].md, k)
           T == {k \in 0 .. n : P(k)}
<1>1. P(0)
  <2>1. A[0].md = M
    BY DEF IsRun, Carried
  <2>2. Grown(M, M, 0, t) /\ Covered(M, 0)
    BY DEF Grown, Covered
  <2> QED
    BY <2>1, <2>2
<1>2. ASSUME NEW k \in 0 .. n - 1, P(k) PROVE P(k + 1)
  <2> SUFFICES ASSUME A[k + 1].ok
               PROVE  Grown(M, A[k + 1].md, k + 1, t) /\ Covered(A[k + 1].md, k + 1)
    OBVIOUS
  <2>1. k + 1 \in 1 .. n /\ k \in Nat /\ (k + 1) - 1 = k
    OBVIOUS
  <2>2. A[k + 1] = IF ~A[k].ok THEN A[k] ELSE BeforeCallAt(chain[k + 1], A[k].md, t)
    BY <2>1 DEF IsRun
  <2>3. A[k].ok /\ A[k + 1] = BeforeCallAt(chain[k + 1], A[k].md, t)
    BY <2>2
  <2>4. Grown(M, A[k].md, k, t) /\ Covered(A[k].md, k) /\ chain[k + 1] \in Interceptors
    BY <1>2, <2>1, <2>3
  <2> QED
    BY <2>1, <2>3, <2>4, InterceptorAdds
<1> HIDE DEF P
<1>3. 0 .. n \subseteq T
  <2>1. 0 \in T /\ \A k \in 0 .. n - 1 : k \in T => k + 1 \in T
    BY <1>1, <1>2
  <2> HIDE DEF T
  <2> QED
    BY <2>1, SetInduction
<1>4. P(n)
  BY <1>3
<1> QED
  BY <1>4 DEF P

-----------------------------------------------------------------------------
(***************************************************************************)
(* What the view adds.                                                     *)
(***************************************************************************)

\* S is the source and then, of the first k headers of the list, exactly those
\* whose key the source does not have.
Joined(source, added, S, k) ==
    /\ S \in Seq(AnyHeader) /\ Len(source) <= Len(S)
    /\ \A i \in 1 .. Len(source) : S[i] = source[i]
    /\ \A i \in Len(source) + 1 .. Len(S) :
          \E j \in 1 .. k : S[i] = added[j] /\ ~has_header(source, added[j].key)
    /\ \A j \in 1 .. k : has_header(source, added[j].key)
                         \/ \E i \in 1 .. Len(S) : S[i] = added[j]

LEMMA JoinedMore ==
    ASSUME NEW source \in Seq(AnyHeader), NEW added \in Seq(AnyHeader),
           NEW k \in 0 .. Len(added) - 1, NEW S, Joined(source, added, S, k),
           ~has_header(source, added[k + 1].key)
    PROVE  Joined(source, added, Append(S, added[k + 1]), k + 1)
<1> DEFINE h == added[k + 1]
           A == Append(S, h)
<1>1. /\ S \in Seq(AnyHeader) /\ Len(source) <= Len(S) /\ Len(source) \in Nat /\ Len(S) \in Nat
      /\ \A i \in 1 .. Len(source) : S[i] = source[i]
  BY DEF Joined
<1>2. h \in AnyHeader /\ k \in Nat /\ k + 1 \in 1 .. k + 1 /\ 1 .. k \subseteq 1 .. k + 1
  OBVIOUS
<1>3. /\ A \in Seq(AnyHeader) /\ Len(A) = Len(S) + 1 /\ A[Len(S) + 1] = h
      /\ \A i \in 1 .. Len(S) : A[i] = S[i]
  BY <1>1, <1>2
<1> HIDE DEF A
<1>4. Len(source) <= Len(A) /\ \A i \in 1 .. Len(source) : A[i] = source[i]
  BY <1>1, <1>3
<1>5. ASSUME NEW i \in Len(source) + 1 .. Len(A)
      PROVE  \E j \in 1 .. k + 1 : A[i] = added[j] /\ ~has_header(source, added[j].key)
  <2>1. CASE i = Len(S) + 1
    BY <1>2, <1>3, <2>1
  <2>2. CASE i # Len(S) + 1
    <3>1. i \in Len(source) + 1 .. Len(S) /\ A[i] = S[i]
      BY <1>1, <1>3, <2>2
    <3> QED
      BY <1>2, <3>1 DEF Joined
  <2> QED
    BY <2>1, <2>2
<1>6. ASSUME NEW j \in 1 .. k + 1
      PROVE  has_header(source, added[j].key) \/ \E i \in 1 .. Len(A) : A[i] = added[j]
  <2>1. CASE j = k + 1
    <3>1. Len(S) + 1 \in 1 .. Len(A)
      BY <1>1, <1>3
    <3> QED
      BY <1>3, <2>1, <3>1
  <2>2. CASE j # k + 1
    <3>1. j \in 1 .. k
      BY <1>2, <2>2
    <3>2. \A i \in 1 .. Len(S) : i \in 1 .. Len(A)
      BY <1>1, <1>3
    <3> QED
      BY <1>3, <3>1, <3>2 DEF Joined
  <2> QED
    BY <2>1, <2>2
<1>7. Joined(source, added, A, k + 1)
  BY <1>3, <1>4, <1>5, <1>6 DEF Joined
<1> QED
  BY <1>7 DEF A

\* extend, of any list.
LEMMA ExtendJoins ==
    ASSUME NEW source \in Seq(AnyHeader), NEW added \in Seq(AnyHeader), extend(source, added).ok
    PROVE  Joined(source, added, extend(source, added).md, Len(added))
<1>1. PICK A : IsExtension(A, source, added) /\ extend(source, added) = A[Len(added)]
  BY Extend
<1> DEFINE n == Len(added)
           P(k) == A[k].ok => Joined(source, added, A[k].md, k)
           T == {k \in 0 .. n : P(k)}
<1>2. P(0)
  <2>1. A[0].md = source
    BY <1>1 DEF IsExtension, Carried
  <2> QED
    BY <2>1 DEF Joined
<1>3. ASSUME NEW k \in 0 .. n - 1, P(k) PROVE P(k + 1)
  <2> SUFFICES ASSUME A[k + 1].ok PROVE Joined(source, added, A[k + 1].md, k + 1)
    OBVIOUS
  <2>1. k + 1 \in 1 .. n /\ (k + 1) - 1 = k /\ k \in Nat
    OBVIOUS
  <2>2. A[k + 1] = IF ~A[k].ok \/ has_header(source, added[k + 1].key) THEN A[k]
                   ELSE append(A[k].md, added[k + 1])
    BY <1>1, <2>1 DEF IsExtension
  <2>3. A[k].ok
    BY <2>2
  <2>4. Joined(source, added, A[k].md, k)
    BY <1>3, <2>3
  <2>5. CASE has_header(source, added[k + 1].key)
    <3>1. A[k + 1] = A[k]
      BY <2>2, <2>5
    <3>2. \A j \in 1 .. k + 1 : j \in 1 .. k \/ j = k + 1
      BY <2>1
    <3> QED
      BY <2>1, <2>4, <2>5, <3>1, <3>2 DEF Joined
  <2>6. CASE ~has_header(source, added[k + 1].key)
    <3>1. A[k + 1] = append(A[k].md, added[k + 1])
      BY <2>2, <2>3, <2>6
    <3>2. A[k + 1].md = Append(A[k].md, added[k + 1])
      BY <3>1 DEF append, Refused, Carried
    <3> QED
      BY <2>4, <2>6, <3>2, JoinedMore
  <2> QED
    BY <2>5, <2>6
<1> HIDE DEF P
<1>4. 0 .. n \subseteq T
  <2>1. 0 \in T /\ \A k \in 0 .. n - 1 : k \in T => k + 1 \in T
    BY <1>2, <1>3
  <2>2. n \in Nat
    OBVIOUS
  <2> HIDE DEF T, n
  <2> QED
    BY <2>1, <2>2, SetInduction
<1>5. P(n)
  BY <1>4
<1> QED
  BY <1>1, <1>5 DEF P

-----------------------------------------------------------------------------
(***************************************************************************)
(* The inductive invariant.                                                *)
(***************************************************************************)
Settings ==
    /\ identity \in [trace_id : BOOLEAN, tenant_id : BOOLEAN, bearer_token : BOOLEAN,
                     headers : ExtraKeys]
    /\ chain \in Chains
    /\ bearer \in BearerDrafts
    /\ now \in -1 .. MaxTime
    /\ attempts \in Nat

\* The metadata is the caller's headers and, under other keys, all of the
\* identity's.
Composed ==
    /\ metadata \in Seq(AnyHeader)
    /\ \A i \in 1 .. Len(metadata) :
          \/ metadata[i].from = "caller" /\ metadata[i].key \in caller
          \/ /\ metadata[i].from = "identity" /\ ~has_header(FromCaller, metadata[i].key)
             /\ \E j \in 1 .. Len(context_headers) : metadata[i] = context_headers[j]
    /\ \A key \in caller \cap Single : has_header(metadata, key)
    /\ \A j \in 1 .. Len(context_headers) :
          \/ has_header(FromCaller, context_headers[j].key)
          \/ \E i \in 1 .. Len(metadata) : metadata[i] = context_headers[j]

\* Headers that the chain made of the metadata, at some instant.
MadeFromMetadata(S) ==
    \E t \in Int : \E A :
        IsRun(A, metadata, t) /\ A[Len(chain)].ok /\ A[Len(chain)].md = S

HeadersInv ==
    /\ Settings
    /\ pc \in {"settings", "refused", "call", "loop", "sent", "done"}
    /\ pc \in {"loop", "sent"} => Composed
    /\ pc = "sent" => MadeFromMetadata(sent)
    /\ pc \notin {"settings", "refused"} =>
          \A i \in 1 .. Len(chain) : chain[i] = "bearer" => bearer_build(bearer)

-----------------------------------------------------------------------------
\* What the constants are.
LEMMA SettingsTyped ==
    ASSUME Settings
    PROVE  /\ Len(chain) \in Nat /\ \A i \in 1 .. Len(chain) : chain[i] \in Interceptors
           /\ identity.headers \in Seq(STRING)
           /\ now \in Int /\ bearer.lifetime_seconds \in Nat
           /\ \A t \in Int : expiry(t, bearer.lifetime_seconds) \in Int
<1>1. chain \in Seq(Interceptors) /\ identity.headers \in Seq(STRING)
  BY HeadersAssumption DEF Settings
<1>2. Len(chain) \in Nat /\ \A i \in 1 .. Len(chain) : chain[i] \in Interceptors
  BY <1>1
<1>3. now \in Int
  BY HeadersAssumption DEF Settings
<1>4. bearer \in [secret : STRING, names : STRING, lifetime_seconds : Nat]
  BY HeadersAssumption DEF Settings
<1>5. bearer.lifetime_seconds \in Nat
  BY <1>4
<1>6. \A t \in Int : expiry(t, bearer.lifetime_seconds) \in Int
  BY <1>5, HeadersAssumption DEF expiry
<1> QED
  BY <1>1, <1>2, <1>3, <1>5, <1>6

LEMMA HasHeader ==
    ASSUME NEW md, NEW key, ~Invalid(key)
    PROVE  has_header(md, key) <=> \E i \in 1 .. Len(md) : md[i].key = key
BY DEF has_header, ValuesOf

LEMMA OneOrNone ==
    ASSUME NEW X, NEW b, NEW h, b => h \in X
    PROVE  (IF b THEN <<h>> ELSE <<>>) \in Seq(X)
<1>1. CASE b
  BY <1>1
<1>2. CASE ~b
  BY <1>2
<1> QED
  BY <1>1, <1>2

\* The identity's headers.
LEMMA ContextHeaders ==
    ASSUME Settings
    PROVE  /\ context_headers \in Seq(AnyHeader)
           /\ \A i \in 1 .. Len(context_headers) : context_headers[i].from = "identity"
<1> DEFINE Own == {h \in AnyHeader : h.from = "identity"}
           When(has, key) == IF has THEN <<Header(key, "identity")>> ELSE <<>>
           Listed == [i \in 1 .. Len(identity.headers) |-> Header(identity.headers[i], "identity")]
           A == When(identity.trace_id, "x-trace-id")
           B == When(identity.tenant_id, "x-tenant-id")
           C == When(identity.bearer_token, "authorization")
<1>1. context_headers = A \o B \o C \o Listed
  BY DEF context_headers
<1>2. \A key \in STRING \cup {"x-trace-id", "x-tenant-id", "authorization"} :
          Header(key, "identity") \in Own
  BY DEF Header, AnyHeader
<1>3. identity.headers \in Seq(STRING)
  BY SettingsTyped
<1>4. context_headers \in Seq(Own)
  <2> HIDE DEF Own
  <2>1. A \in Seq(Own) /\ B \in Seq(Own) /\ C \in Seq(Own)
    BY <1>2, OneOrNone
  <2>2. Listed \in Seq(Own)
    BY <1>2, <1>3
  <2> HIDE DEF A, B, C, Listed
  <2> QED
    BY <1>1, <2>1, <2>2
<1> QED
  BY <1>4

\* The caller's.
LEMMA CallerHeaders ==
    /\ FromCaller \in Seq(AnyHeader)
    /\ \A i \in 1 .. Len(FromCaller) : FromCaller[i].from = "caller" /\ FromCaller[i].key \in caller
    /\ \A key \in caller \cap Single : has_header(FromCaller, key)
<1> DEFINE Own == {h \in AnyHeader : h.from = "caller" /\ h.key \in caller}
           Of(key) == IF key \in caller THEN <<Header(key, "caller")>> ELSE <<>>
           A == Of("authorization")
           B == Of("traceparent")
           C == Of("x-tenant-id")
<1>1. FromCaller = A \o B \o C
  BY DEF FromCaller
<1>2. \A key \in caller \cap {"authorization", "traceparent", "x-tenant-id"} :
          Header(key, "caller") \in Own
  BY DEF Header, AnyHeader
<1>3. "authorization" \in caller => has_header(A, "authorization")
  <2> SUFFICES ASSUME "authorization" \in caller PROVE has_header(A, "authorization")
    OBVIOUS
  <2>1. A = <<Header("authorization", "caller")>>
    OBVIOUS
  <2>2. 1 \in 1 .. Len(A) /\ A[1].key = "authorization"
    BY <2>1 DEF Header
  <2> QED
    BY <2>2, HasHeader DEF Invalid
<1>4. "traceparent" \in caller => has_header(B, "traceparent")
  <2> SUFFICES ASSUME "traceparent" \in caller PROVE has_header(B, "traceparent")
    OBVIOUS
  <2>1. B = <<Header("traceparent", "caller")>>
    OBVIOUS
  <2>2. 1 \in 1 .. Len(B) /\ B[1].key = "traceparent"
    BY <2>1 DEF Header
  <2> QED
    BY <2>2, HasHeader DEF Invalid
<1> HIDE DEF Own
<1>5. A \in Seq(Own) /\ B \in Seq(Own) /\ C \in Seq(Own)
  BY <1>2, OneOrNone
<1> HIDE DEF A, B, C
<1>6. A \o B \in Seq(Own) /\ FromCaller \in Seq(Own)
  BY <1>1, <1>5
<1>7. ASSUME NEW X \in Seq(Own), NEW Y \in Seq(Own), NEW key
      PROVE  has_header(X, key) \/ has_header(Y, key) => has_header(X \o Y, key)
  <2>1. /\ \A i \in 1 .. Len(X) : i \in 1 .. Len(X \o Y) /\ (X \o Y)[i] = X[i]
        /\ \A i \in 1 .. Len(Y) : Len(X) + i \in 1 .. Len(X \o Y) /\ (X \o Y)[Len(X) + i] = Y[i]
    OBVIOUS
  <2> QED
    BY <2>1 DEF has_header, ValuesOf
<1>8. ASSUME NEW key \in caller \cap Single PROVE has_header(FromCaller, key)
  <2>1. has_header(A, key) \/ has_header(B, key)
    BY <1>3, <1>4, Zenon DEF Single
  <2>2. has_header(A \o B, key)
    BY <1>5, <1>7, <2>1
  <2>3. has_header((A \o B) \o C, key)
    BY <1>5, <1>6, <1>7, <2>2
  <2> QED
    BY <1>1, <2>3
<1> QED
  BY <1>6, <1>8 DEF Own

-----------------------------------------------------------------------------
(***************************************************************************)
(* The steps.                                                              *)
(***************************************************************************)
LEMMA InitInv ==
    ASSUME Init
    PROVE  HeadersInv
BY HeadersAssumption DEF Init, HeadersInv, Settings

\* While the settings and the metadata stay, so does what was made of them.
LEMMA Unmoved ==
    ASSUME UNCHANGED <<setup, metadata>>
    PROVE  /\ Composed => Composed'
           /\ \A t, A : IsRun(A, metadata, t) => IsRun(A, metadata, t)'
<1>1. caller' = caller /\ identity' = identity /\ chain' = chain /\ bearer' = bearer
      /\ metadata' = metadata
  BY DEF setup
<1>2. FromCaller' = FromCaller /\ context_headers' = context_headers
  BY <1>1 DEF FromCaller, context_headers
<1>3. Composed => Composed'
  BY <1>1, <1>2 DEF Composed
<1>4. \A interceptor, m, t : BeforeCallAt(interceptor, m, t)' = BeforeCallAt(interceptor, m, t)
  BY <1>1 DEF BeforeCallAt, CanSign
<1>5. \A t, A : IsRun(A, metadata, t) => IsRun(A, metadata, t)'
  BY <1>1, <1>4 DEF IsRun
<1> QED
  BY <1>3, <1>5

\* AddHeaders.
LEMMA AddHeadersComposes ==
    ASSUME Settings, AddHeaders, pc' = "loop"
    PROVE  Composed'
<1>1. caller' = caller /\ identity' = identity
  BY DEF AddHeaders, setup
<1>2. FromCaller' = FromCaller /\ context_headers' = context_headers
  BY <1>1 DEF FromCaller, context_headers
<1>3. add_headers(FromCaller).ok /\ metadata' = add_headers(FromCaller).md
  BY DEF AddHeaders
<1>4. /\ context_headers \in Seq(AnyHeader)
      /\ \A i \in 1 .. Len(context_headers) : context_headers[i].from = "identity"
  BY ContextHeaders
<1>5. /\ FromCaller \in Seq(AnyHeader)
      /\ \A i \in 1 .. Len(FromCaller) : FromCaller[i].from = "caller" /\ FromCaller[i].key \in caller
      /\ \A key \in caller \cap Single : has_header(FromCaller, key)
  BY CallerHeaders
<1>6. Joined(FromCaller, context_headers, metadata', Len(context_headers))
  <2>1. CASE context_headers = <<>>
    <3>1. metadata' = FromCaller /\ Len(context_headers) = 0
      BY <1>3, <2>1 DEF add_headers, Carried
    <3> QED
      BY <1>5, <3>1 DEF Joined
  <2>2. CASE context_headers # <<>>
    <3>1. add_headers(FromCaller) = extend(FromCaller, context_headers)
      BY <2>2 DEF add_headers
    <3> QED
      BY <1>3, <1>4, <1>5, <3>1, ExtendJoins
  <2> QED
    BY <2>1, <2>2
<1> DEFINE S == metadata'
<1>7. /\ S \in Seq(AnyHeader) /\ Len(FromCaller) <= Len(S)
      /\ \A i \in 1 .. Len(FromCaller) : S[i] = FromCaller[i]
      /\ \A i \in Len(FromCaller) + 1 .. Len(S) : \E j \in 1 .. Len(context_headers) :
             S[i] = context_headers[j] /\ ~has_header(FromCaller, context_headers[j].key)
      /\ \A j \in 1 .. Len(context_headers) : \/ has_header(FromCaller, context_headers[j].key)
                                              \/ \E i \in 1 .. Len(S) : S[i] = context_headers[j]
  BY <1>6 DEF Joined
<1> HIDE DEF S
<1>8. ASSUME NEW i \in 1 .. Len(S)
      PROVE  \/ S[i].from = "caller" /\ S[i].key \in caller
             \/ /\ S[i].from = "identity" /\ ~has_header(FromCaller, S[i].key)
                /\ \E j \in 1 .. Len(context_headers) : S[i] = context_headers[j]
  <2>1. CASE i \in 1 .. Len(FromCaller)
    BY <1>5, <1>7, <2>1
  <2>2. CASE i \notin 1 .. Len(FromCaller)
    <3>1. i \in Len(FromCaller) + 1 .. Len(S)
      BY <1>5, <1>7, <2>2
    <3>2. PICK j \in 1 .. Len(context_headers) :
              S[i] = context_headers[j] /\ ~has_header(FromCaller, context_headers[j].key)
      BY <1>7, <3>1
    <3> QED
      BY <1>4, <3>2
  <2> QED
    BY <2>1, <2>2
<1>9. ASSUME NEW key \in caller \cap Single PROVE has_header(S, key)
  <2> ~Invalid(key)
    BY DEF Invalid, Single
  <2>1. PICK i \in 1 .. Len(FromCaller) : FromCaller[i].key = key
    BY <1>5, HasHeader
  <2>2. i \in 1 .. Len(S) /\ S[i].key = key
    BY <1>5, <1>7, <2>1
  <2> QED
    BY <2>2, HasHeader
<1> QED
  BY <1>1, <1>2, <1>7, <1>8, <1>9 DEF Composed, S

\* An attempt.
LEMMA AttemptRuns ==
    ASSUME HeadersInv, Attempt
    PROVE  /\ pc' = "sent" => /\ MadeFromMetadata(sent')
                              /\ \E A : IsRun(A, metadata, now) /\ A[Len(chain)].ok
                                        /\ sent' = A[Len(chain)].md
           /\ pc' \in {"sent", "done"} /\ attempts' \in Nat
           /\ pc = "loop" /\ Composed /\ UNCHANGED <<setup, now, metadata>>
<1>1. PICK A : IsRun(A, metadata, now) /\ run_before(metadata) = A[Len(chain)]
  BY RunBefore, SettingsTyped DEF HeadersInv
<1> DEFINE r == A[Len(chain)]
<1>2. /\ sent' = r.md
      /\ attempts' = IF r.ok THEN attempts + 1 ELSE attempts
      /\ pc' = IF r.ok THEN "sent" ELSE "done"
      /\ pc = "loop" /\ UNCHANGED <<setup, now, metadata>>
  BY <1>1 DEF Attempt
<1> HIDE DEF r
<1>3. Composed /\ now \in Int /\ attempts \in Nat
  BY <1>2, SettingsTyped DEF HeadersInv, Settings
<1> QED
  BY <1>1, <1>2, <1>3 DEF r, MadeFromMetadata

\* The invariant: what an attempt sends is what the chain makes of the caller's
\* and the identity's headers, and of nothing else (run_before, extend).
THEOREM HeadersInvariant == Spec => []HeadersInv
<1>1. Init => HeadersInv
  BY InitInv
<1>2. HeadersInv /\ [Next]_vars => HeadersInv'
  <2> SUFFICES ASSUME HeadersInv, [Next]_vars PROVE HeadersInv'
    OBVIOUS
  <2>1. CASE BuildClient
    <3>1. /\ UNCHANGED <<setup, metadata, now, sent, attempts>> /\ pc = "settings"
          /\ pc' \in {"refused", "call"}
          /\ caller' = caller /\ identity' = identity /\ chain' = chain /\ bearer' = bearer
      BY <2>1 DEF BuildClient, setup
    <3>2. pc' = "call" => \A i \in 1 .. Len(chain) : chain[i] = "bearer" => bearer_build(bearer)
      BY <2>1 DEF BuildClient
    <3>3. Settings'
      BY <3>1 DEF HeadersInv, Settings
    <3>4. bearer_build(bearer)' = bearer_build(bearer)
      BY <3>1 DEF bearer_build
    <3> QED
      BY <3>1, <3>2, <3>3, <3>4 DEF HeadersInv
  <2>2. CASE AddHeaders
    <3>1. /\ UNCHANGED <<setup, now, sent, attempts>> /\ pc = "call"
          /\ pc' \in {"loop", "done"}
          /\ caller' = caller /\ identity' = identity /\ chain' = chain /\ bearer' = bearer
      BY <2>2 DEF AddHeaders, setup
    <3>2. Settings'
      BY <3>1 DEF HeadersInv, Settings
    <3>3. pc' = "loop" => Composed'
      BY <2>2, AddHeadersComposes DEF HeadersInv
    <3>4. bearer_build(bearer)' = bearer_build(bearer)
      BY <3>1 DEF bearer_build
    <3> QED
      BY <3>1, <3>2, <3>3, <3>4 DEF HeadersInv
  <2>3. CASE Attempt
    <3>1. /\ pc' = "sent" => MadeFromMetadata(sent')
          /\ pc' \in {"sent", "done"} /\ attempts' \in Nat
          /\ pc = "loop" /\ Composed /\ UNCHANGED <<setup, now, metadata>>
      BY <2>3, AttemptRuns
    <3>2. caller' = caller /\ identity' = identity /\ chain' = chain /\ bearer' = bearer
      BY <3>1 DEF setup
    <3>3. Settings'
      BY <3>1, <3>2 DEF HeadersInv, Settings
    <3>4. Composed' /\ \A t, A : IsRun(A, metadata, t) => IsRun(A, metadata, t)'
      BY <3>1, Unmoved
    <3>5. pc' = "sent" => MadeFromMetadata(sent)'
      BY <3>1, <3>2, <3>4 DEF MadeFromMetadata
    <3>6. bearer_build(bearer)' = bearer_build(bearer)
      BY <3>2 DEF bearer_build
    <3> QED
      BY <3>1, <3>2, <3>3, <3>4, <3>5, <3>6 DEF HeadersInv
  <2>4. CASE AttemptFails \/ AttemptEnds \/ Tick \/ Over \/ UNCHANGED vars
    <3>1. /\ UNCHANGED <<setup, metadata>>
          /\ caller' = caller /\ identity' = identity /\ chain' = chain /\ bearer' = bearer
          /\ metadata' = metadata /\ sent' = sent /\ attempts' = attempts
          /\ pc' = pc \/ (pc = "sent" /\ pc' \in {"loop", "done"})
          /\ now' = now \/ (now < MaxTime /\ now' = now + 1)
      BY <2>4 DEF AttemptFails, AttemptEnds, Tick, Over, vars, setup
    <3>2. Settings'
      BY <3>1, HeadersAssumption DEF HeadersInv, Settings
    <3>3. /\ Composed => Composed'
          /\ \A t, A : IsRun(A, metadata, t) => IsRun(A, metadata, t)'
      BY <3>1, Unmoved
    <3>4. MadeFromMetadata(sent) => MadeFromMetadata(sent)'
      BY <3>1, <3>3 DEF MadeFromMetadata
    <3>5. bearer_build(bearer)' = bearer_build(bearer)
      BY <3>1 DEF bearer_build
    <3> QED
      BY <3>1, <3>2, <3>3, <3>4, <3>5 DEF HeadersInv
  <2> QED
    BY <2>1, <2>2, <2>3, <2>4 DEF Next
<1> QED
  BY <1>1, <1>2, PTL DEF Spec

\* Every attempt carries one party's credential and one party's trace context:
\* the caller's, or else the identity's, or else an interceptor's, for any chain
\* and any headers of the identity (extend, has_header).
THEOREM HeadersOneCredential == Spec => []OneCredential
<1>1. HeadersInv => OneCredential
  <2> SUFFICES ASSUME HeadersInv, pc = "sent", NEW key \in Single
               PROVE  LET values == ValuesOf(sent, key)
                      IN  IF Winner(key) = "an interceptor"
                          THEN /\ \A i, j \in values : i = j
                               /\ Offers(key) # {} => values # {}
                          ELSE values # {} /\ \A i \in values : sent[i].from = Winner(key)
    BY DEF OneCredential, Single
  <2> ~Invalid(key)
    BY DEF Invalid, Single
  <2>1. Composed /\ MadeFromMetadata(sent) /\ Settings
    BY DEF HeadersInv
  <2>2. metadata \in Seq(AnyHeader) /\ Len(metadata) \in Nat
    BY <2>1 DEF Composed
  <2>3. PICK t, A : t \in Int /\ IsRun(A, metadata, t) /\ A[Len(chain)].ok /\ A[Len(chain)].md = sent
    BY <2>1 DEF MadeFromMetadata
  <2>4. Len(chain) \in Nat /\ (\A i \in 1 .. Len(chain) : chain[i] \in Interceptors)
        /\ expiry(t, bearer.lifetime_seconds) \in Int
    BY <2>1, <2>3, SettingsTyped
  <2>5. Grown(metadata, sent, Len(chain), t) /\ Covered(sent, Len(chain))
    BY <2>2, <2>3, <2>4, RunAdds
  <2>6. /\ sent \in Seq(AnyHeader) /\ Len(sent) \in Nat /\ Len(metadata) <= Len(sent)
        /\ \A i \in 1 .. Len(metadata) : sent[i] = metadata[i]
    BY <2>5 DEF Grown
  <2>7. \A i : i \in ValuesOf(sent, key) <=> i \in 1 .. Len(sent) /\ sent[i].key = key
    BY DEF ValuesOf
  <2>8. ASSUME NEW i \in ValuesOf(sent, key), i \notin 1 .. Len(metadata)
        PROVE  \A j \in 1 .. i - 1 : sent[j].key # key
    <3>1. i \in Len(metadata) + 1 .. Len(sent) /\ sent[i].key = key
      BY <2>2, <2>6, <2>7, <2>8
    <3> QED
      BY <2>5, <3>1 DEF Grown
  <2>9. ASSUME has_header(metadata, key)
        PROVE  ValuesOf(sent, key) # {} /\ \A i \in ValuesOf(sent, key) : i \in 1 .. Len(metadata)
    <3>1. PICK l \in 1 .. Len(metadata) : metadata[l].key = key
      BY <2>9, HasHeader
    <3>2. l \in 1 .. Len(sent) /\ sent[l].key = key
      BY <2>2, <2>6, <3>1
    <3>3. ASSUME NEW i \in ValuesOf(sent, key), i \notin 1 .. Len(metadata) PROVE FALSE
      <4>1. l \in 1 .. i - 1
        BY <2>2, <2>6, <2>7, <3>1, <3>3
      <4> QED
        BY <2>8, <3>2, <3>3, <4>1
    <3> QED
      BY <2>7, <3>2, <3>3
  <2>10. CASE key \in caller
    <3>1. Winner(key) = "caller"
      <4>1. "caller" \in Offers(key)
        BY <2>10 DEF Offers
      <4> QED
        BY <4>1 DEF Winner
    <3>2. has_header(metadata, key)
      BY <2>1, <2>10 DEF Composed
    <3>3. has_header(FromCaller, key)
      BY <2>10, CallerHeaders
    <3>4. ASSUME NEW i \in ValuesOf(sent, key) PROVE sent[i].from = "caller"
      <4>1. i \in 1 .. Len(metadata) /\ metadata[i] = sent[i] /\ metadata[i].key = key
        BY <2>6, <2>7, <2>9, <3>2
      <4>2. \/ metadata[i].from = "caller"
            \/ ~has_header(FromCaller, metadata[i].key)
        BY <2>1, <4>1 DEF Composed
      <4> QED
        BY <3>3, <4>1, <4>2
    <3> QED
      BY <2>9, <3>1, <3>2, <3>4
  <2>11. CASE key \notin caller /\ \E j \in 1 .. Len(context_headers) : context_headers[j].key = key
    <3>1. Winner(key) = "identity"
      <4>1. "caller" \notin Offers(key) /\ "identity" \in Offers(key)
        BY <2>11 DEF Offers
      <4> QED
        BY <4>1 DEF Winner
    <3>2. PICK j \in 1 .. Len(context_headers) : context_headers[j].key = key
      BY <2>11
    <3>3. ~has_header(FromCaller, key)
      BY <2>11, CallerHeaders, HasHeader
    <3>4. PICK l \in 1 .. Len(metadata) : metadata[l] = context_headers[j]
      BY <2>1, <3>2, <3>3 DEF Composed
    <3>5. has_header(metadata, key)
      BY <3>2, <3>4, HasHeader
    <3>6. ASSUME NEW i \in ValuesOf(sent, key) PROVE sent[i].from = "identity"
      <4>1. i \in 1 .. Len(metadata) /\ metadata[i] = sent[i] /\ metadata[i].key = key
        BY <2>6, <2>7, <2>9, <3>5
      <4>2. \/ metadata[i].from = "caller" /\ metadata[i].key \in caller
            \/ metadata[i].from = "identity"
        BY <2>1, <4>1 DEF Composed
      <4> QED
        BY <2>11, <4>1, <4>2
    <3> QED
      BY <2>9, <3>1, <3>5, <3>6
  <2>12. CASE key \notin caller /\ \A j \in 1 .. Len(context_headers) : context_headers[j].key # key
    <3>1. Winner(key) = "an interceptor"
      <4>1. "caller" \notin Offers(key) /\ "identity" \notin Offers(key)
        BY <2>12 DEF Offers
      <4> QED
        BY <4>1 DEF Winner
    <3>2. \A i \in 1 .. Len(metadata) : metadata[i].key # key
      BY <2>1, <2>12 DEF Composed
    <3>3. \A i \in ValuesOf(sent, key) : i \notin 1 .. Len(metadata)
      BY <2>6, <2>7, <3>2
    <3>4. \A i, j \in ValuesOf(sent, key) : i = j
      <4> SUFFICES ASSUME NEW i \in ValuesOf(sent, key), NEW j \in ValuesOf(sent, key), i < j
                   PROVE  FALSE
        BY <2>6, <2>7
      <4>1. i \in 1 .. j - 1 /\ sent[i].key = key
        BY <2>6, <2>7
      <4> QED
        BY <2>8, <3>3, <4>1
    <3>5. ASSUME Offers(key) # {} PROVE ValuesOf(sent, key) # {}
      <4>1. \/ key = "authorization" /\ \E i \in 1 .. Len(chain) : chain[i] = "bearer"
            \/ key = "traceparent"
                   /\ \E i \in 1 .. Len(chain) : chain[i] \in {"static", "static with state"}
        BY <2>12, <3>5 DEF Offers
      <4>2. has_header(sent, key)
        BY <2>5, <4>1 DEF Covered
      <4> QED
        BY <4>2 DEF has_header
    <3> QED
      BY <3>1, <3>4, <3>5
  <2> QED
    BY <2>10, <2>11, <2>12
<1> QED
  BY <1>1, HeadersInvariant, PTL

\* A header of the identity is sent on every attempt unless the caller has set
\* its key (add_headers, extend).
THEOREM HeadersIdentityIsSent == Spec => []IdentityIsSent
<1>1. HeadersInv => IdentityIsSent
  <2> SUFFICES ASSUME HeadersInv, pc = "sent", NEW i \in 1 .. Len(context_headers)
               PROVE  \/ has_header(FromCaller, context_headers[i].key)
                      \/ \E j \in 1 .. Len(sent) : sent[j] = context_headers[i]
    BY DEF IdentityIsSent
  <2>1. Composed /\ MadeFromMetadata(sent) /\ Settings
    BY DEF HeadersInv
  <2>2. metadata \in Seq(AnyHeader) /\ Len(metadata) \in Nat
    BY <2>1 DEF Composed
  <2>3. PICK t, A : t \in Int /\ IsRun(A, metadata, t) /\ A[Len(chain)].ok /\ A[Len(chain)].md = sent
    BY <2>1 DEF MadeFromMetadata
  <2>4. Len(chain) \in Nat /\ (\A j \in 1 .. Len(chain) : chain[j] \in Interceptors)
        /\ expiry(t, bearer.lifetime_seconds) \in Int
    BY <2>1, <2>3, SettingsTyped
  <2>5. Grown(metadata, sent, Len(chain), t)
    BY <2>2, <2>3, <2>4, RunAdds
  <2>6. /\ Len(sent) \in Nat /\ Len(metadata) <= Len(sent)
        /\ \A j \in 1 .. Len(metadata) : sent[j] = metadata[j]
    BY <2>5 DEF Grown
  <2>7. \/ has_header(FromCaller, context_headers[i].key)
        \/ \E j \in 1 .. Len(metadata) : metadata[j] = context_headers[i]
    BY <2>1 DEF Composed
  <2>8. \A j \in 1 .. Len(metadata) : j \in 1 .. Len(sent)
    BY <2>2, <2>6
  <2> QED
    BY <2>6, <2>7, <2>8
<1> QED
  BY <1>1, HeadersInvariant, PTL

\* A token is signed for the attempt that carries it: it is good for a second
\* at least when the attempt begins, at whatever time that is and for any
\* accepted lifetime (sign_token, BearerEgressConfig::validate).
THEOREM HeadersTokenIsFresh == Spec => TokenIsFresh
<1> DEFINE Fresh == pc = "loop" /\ pc' = "sent" /\ now < MaxTime =>
               \A i \in 1 .. Len(sent') : sent'[i].from = "bearer" => sent'[i].exp > now
<1>1. HeadersInv /\ [Next]_vars => [Fresh]_vars
  <2> SUFFICES ASSUME HeadersInv, Next, pc = "loop", pc' = "sent", now < MaxTime,
                      NEW i \in 1 .. Len(sent'), sent'[i].from = "bearer"
               PROVE  sent'[i].exp > now
    OBVIOUS
  <2>1. Attempt
    BY DEF Next, BuildClient, AddHeaders, AttemptFails, AttemptEnds, Tick, Over, vars
  <2>2. Composed /\ \E A : IsRun(A, metadata, now) /\ A[Len(chain)].ok /\ sent' = A[Len(chain)].md
    BY <2>1, AttemptRuns
  <2>3. PICK A : IsRun(A, metadata, now) /\ A[Len(chain)].ok /\ sent' = A[Len(chain)].md
    BY <2>2
  <2>4. metadata \in Seq(AnyHeader) /\ Len(metadata) \in Nat
    BY <2>2 DEF Composed
  <2>5. /\ Len(chain) \in Nat /\ \A j \in 1 .. Len(chain) : chain[j] \in Interceptors
        /\ now \in Int /\ bearer.lifetime_seconds \in Nat
        /\ expiry(now, bearer.lifetime_seconds) \in Int
    BY SettingsTyped DEF HeadersInv
  <2>6. Grown(metadata, sent', Len(chain), now)
    BY <2>3, <2>4, <2>5, RunAdds
  <2>7. i \notin 1 .. Len(metadata)
    <3> SUFFICES ASSUME i \in 1 .. Len(metadata) PROVE FALSE
      OBVIOUS
    <3>1. sent'[i] = metadata[i]
      BY <2>6 DEF Grown
    <3>2. metadata[i].from = "caller" \/ metadata[i].from = "identity"
      BY <2>2 DEF Composed
    <3> QED
      BY <3>1, <3>2
  <2>8. i \in Len(metadata) + 1 .. Len(sent')
    BY <2>4, <2>6, <2>7 DEF Grown
  <2>9. /\ sent'[i].exp = expiry(now, bearer.lifetime_seconds)
        /\ \E j \in 1 .. Len(chain) : chain[j] = "bearer"
    BY <2>6, <2>8 DEF Grown
  <2>10. bearer.lifetime_seconds > 0
    BY <2>9 DEF HeadersInv, bearer_build, bearer_validate
  <2> QED
    BY <2>5, <2>9, <2>10, HeadersAssumption DEF expiry
<1> QED
  BY <1>1, HeadersInvariant, PTL DEF Spec, TokenIsFresh
=============================================================================
