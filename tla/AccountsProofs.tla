--------------------------- MODULE AccountsProofs ---------------------------
(***************************************************************************)
(* Proofs about Accounts: whose an account is, who can make it act, what   *)
(* the paymaster pays for, and when a bundle fails; for any people, salts, *)
(* operations, calls and length of bundles.                                *)
(***************************************************************************)
EXTENDS Accounts, FiniteSetTheorems, SequenceTheorems, TLAPS

USE DEF stateVars, opVars

----------------------------------------------------------------------------
(* The constants                                                           *)

LEMMA AddressFacts ==
  /\ \A a \in Account : a[1] \in Owners /\ a \notin Owners /\ a # EntryPoint
  /\ \A u \in Owners : u # EntryPoint /\ u # Nobody /\ u \notin Account /\ u \notin Ops
  /\ \A o \in Ops : o \notin Owners
  <1>. USE AccountsAssumption
  <1>1. \A a \in Account : a[1] \in Owners
    BY DEF Account
  <1>2. \A a \in Account : a \notin Owners /\ a # EntryPoint
    OBVIOUS
  <1>3. \A u \in Owners : u # EntryPoint /\ u # Nobody /\ u \notin Account /\ u \notin Ops
    OBVIOUS
  <1>4. \A o \in Ops : o \notin Owners
    OBVIOUS
  <1>. QED  BY <1>1, <1>2, <1>3, <1>4

LEMMA OpFacts ==
  ASSUME NEW o \in Ops
  PROVE  /\ Op[o].sender \in Account
         /\ Op[o].nonce \in Nat
         /\ Op[o].init \in SUBSET Account
         /\ Op[o].calls \in Seq(Call)
         /\ SignedBy[o] \in Owners
         /\ Op[o].via # "execute" =>
              /\ Len(Op[o].calls) = 1
              /\ Op[o].calls[1].to = Op[o].sender
              /\ Op[o].calls[1].fn \notin {"set", "create"}
  <1>1. Op[o] \in Contents
    BY AccountsAssumption
  <1>2. SignedBy[o] \in Owners
    BY AccountsAssumption
  <1>3. Op[o].via # "execute" => Op[o].via = "plain"
    BY <1>1 DEF Contents
  <1>4. Op[o].via = "plain" =>
          /\ Len(Op[o].calls) = 1
          /\ Op[o].calls[1].to = Op[o].sender
          /\ Op[o].calls[1].fn \notin {"set", "create"}
    BY AccountsAssumption
  <1>. QED  BY <1>1, <1>2, <1>3, <1>4 DEF Contents

\* A bundle is a sequence of operations.
LEMMA BundleFacts ==
  ASSUME NEW b \in Bundles
  PROVE  /\ b \in Seq(Ops)
         /\ DOMAIN b = 1..Len(b)
         /\ \A i \in DOMAIN b : b[i] \in Ops
         /\ IsFiniteSet(DOMAIN b)
  <1>1. PICK n \in 1..MaxBundle : b \in [1..n -> Ops]
    BY DEF Bundles
  <1>2. n \in Nat
    BY <1>1, AccountsAssumption
  <1>3. b \in Seq(Ops) /\ Len(b) = n /\ DOMAIN b = 1..n
    BY <1>1, <1>2
  <1>4. IsFiniteSet(1..n)
    BY <1>2, FS_Interval
  <1>. QED  BY <1>1, <1>3, <1>4

----------------------------------------------------------------------------
(* Calls                                                                   *)

LEMMA WorldFacts ==
  ASSUME NEW w \in Worlds
  PROVE  /\ w.ok \in BOOLEAN
         /\ w.owner \in [Account -> Owners \cup {Nobody}]
         /\ w.deposit \in [Account -> 0..MaxDeposit]
         /\ w.stored \in Account \cup Owners \cup {Nobody}
         /\ w.done \in SUBSET ((Ops \cup Owners) \X Account \X Functions)
  BY DEF Worlds

\* The account x that a call of c by who makes act, if it makes one act.
Actor(w, who, c, x) ==
  \/ who \in Account /\ x = who
  \/ who \in Owners /\ x = c.to /\ w.owner[x] = who
  \/ who = EntryPoint /\ x = c.to

\* What a call can do to a world: nothing, fail, set Storage without an account,
\* deploy an account, or have one act, in Storage, with its deposit or on itself.
LEMMA ApplyShape ==
  ASSUME NEW w \in Worlds, NEW c \in Call, NEW cause,
         NEW who \in Account \cup Owners \cup {EntryPoint},
         who = EntryPoint => c.fn \notin {"set", "create"}
  PROVE  LET r == Apply(w, cause, who, c)  a == c.to IN
         \/ r = w
         \/ r = [w EXCEPT !.ok = FALSE]
         \/ who \in Owners /\ r = Set(w, who)
         \/ w.owner[a] = Nobody /\ r = [w EXCEPT !.owner[a] = a[1]]
         \/ \E x \in Account :
              /\ Actor(w, who, c, x)
              /\ \/ r = Did(Set(w, x), cause, x, "set")
                 \/ w.deposit[x] > 0 /\ r = [Did(w, cause, x, "withdraw") EXCEPT !.deposit[x] = @ - 1]
                 \/ r = Did(w, cause, x, "upgrade")
  <1>. DEFINE r == Apply(w, cause, who, c)
              a == c.to
              there == w.owner[a] # Nobody
              Goal == \/ r = w
                      \/ r = [w EXCEPT !.ok = FALSE]
                      \/ who \in Owners /\ r = Set(w, who)
                      \/ w.owner[a] = Nobody /\ r = [w EXCEPT !.owner[a] = a[1]]
                      \/ \E x \in Account :
                           /\ Actor(w, who, c, x)
                           /\ \/ r = Did(Set(w, x), cause, x, "set")
                              \/ w.deposit[x] > 0 /\ r = [Did(w, cause, x, "withdraw") EXCEPT !.deposit[x] = @ - 1]
                              \/ r = Did(w, cause, x, "upgrade")
  <1>1. a \in Account /\ c.fn \in Functions
    BY DEF Call
  <1>2. CASE c.fn = "set" /\ who \in Account
    <2>1. r = Did(Set(w, who), cause, who, "set")
      BY <1>2 DEF Apply
    <2>. QED  BY <1>2, <2>1 DEF Actor
  <1>3. CASE c.fn = "set" /\ who \notin Account
    <2>1. r = Set(w, who)
      BY <1>3 DEF Apply
    <2>. QED  BY <1>3, <2>1
  <1>4. CASE c.fn = "create"
    <2>1. r = Create(w, a)
      BY <1>4 DEF Apply
    <2>. QED  BY <2>1 DEF Create
  <1>5. CASE c.fn \notin {"set", "create"} /\ ~there
    <2>1. r = w
      BY <1>5 DEF Apply
    <2>. QED  BY <2>1
  <1>6. CASE c.fn = "initialize" /\ there
    <2>1. r = Initialize(w, who, a)
      BY <1>6 DEF Apply
    <2>. QED  BY <1>6, <2>1 DEF Initialize
  <1>7. CASE c.fn = "executeSet" /\ there
    <2>1. CASE MayExecute(w, who, a)
      <3>1. r = Did(Set(w, a), cause, a, "set")
        BY <1>7, <2>1 DEF Apply
      <3>2. w.owner[a] \in Owners
        BY <1>1, <1>7, WorldFacts
      <3>3. Actor(w, who, c, a)
        BY <2>1, <3>2 DEF MayExecute, Actor
      <3>. QED  BY <1>1, <3>1, <3>3
    <2>2. CASE ~MayExecute(w, who, a)
      <3>1. r = [w EXCEPT !.ok = FALSE]
        BY <1>7, <2>2 DEF Apply
      <3>. QED  BY <3>1
    <2>. QED  BY <2>1, <2>2
  <1>8. CASE c.fn = "withdraw" /\ there
    <2>1. CASE MayManage(w, who, a) /\ w.deposit[a] > 0
      <3>1. r = [Did(w, cause, a, "withdraw") EXCEPT !.deposit[a] = @ - 1]
        BY <1>8, <2>1 DEF Apply
      <3>2. w.owner[a] \in Owners
        BY <1>1, <1>8, WorldFacts
      <3>3. Actor(w, who, c, a)
        BY <1>1, <2>1, <3>2 DEF MayManage, Actor
      <3>. QED  BY <1>1, <2>1, <3>1, <3>3
    <2>2. CASE ~(MayManage(w, who, a) /\ w.deposit[a] > 0)
      <3>1. r = [w EXCEPT !.ok = FALSE]
        BY <1>8, <2>2 DEF Apply
      <3>. QED  BY <3>1
    <2>. QED  BY <2>1, <2>2
  <1>9. CASE c.fn = "upgrade" /\ there
    <2>1. CASE MayManage(w, who, a)
      <3>1. r = Did(w, cause, a, "upgrade")
        BY <1>9, <2>1 DEF Apply
      <3>2. w.owner[a] \in Owners
        BY <1>1, <1>9, WorldFacts
      <3>3. Actor(w, who, c, a)
        BY <1>1, <2>1, <3>2 DEF MayManage, Actor
      <3>. QED  BY <1>1, <3>1, <3>3
    <2>2. CASE ~MayManage(w, who, a)
      <3>1. r = [w EXCEPT !.ok = FALSE]
        BY <1>9, <2>2 DEF Apply
      <3>. QED  BY <3>1
    <2>. QED  BY <2>1, <2>2
  <1>10. Goal
    BY <1>1, <1>2, <1>3, <1>4, <1>5, <1>6, <1>7, <1>8, <1>9 DEF Functions
  <1>. QED  BY <1>10

\* Whatever a call does, it leaves a world whose accounts belong to their named
\* owners; an account acts only if it has called itself, if its owner has called it,
\* or if the EntryPoint has.
LEMMA ApplyFacts ==
  ASSUME NEW w \in Worlds, Named(w), NEW c \in Call, NEW cause \in Ops \cup Owners,
         NEW who \in Account \cup Owners \cup {EntryPoint},
         who = EntryPoint => c.fn \notin {"set", "create"}
  PROVE  /\ Apply(w, cause, who, c) \in Worlds
         /\ Named(Apply(w, cause, who, c))
         /\ w.done \subseteq Apply(w, cause, who, c).done
         /\ \A d \in Apply(w, cause, who, c).done \ w.done :
              /\ d[1] = cause
              /\ who \in Account => d[2] = who
              /\ who \in Owners => d[2][1] = who
              /\ who = EntryPoint => d[2] = c.to
  <1>. DEFINE r == Apply(w, cause, who, c)
              a == c.to
              Goal == /\ r \in Worlds
                      /\ Named(r)
                      /\ w.done \subseteq r.done
                      /\ \A d \in r.done \ w.done :
                           /\ d[1] = cause
                           /\ who \in Account => d[2] = who
                           /\ who \in Owners => d[2][1] = who
                           /\ who = EntryPoint => d[2] = c.to
  <1>1. a \in Account
    BY DEF Call
  <1>2. \/ r = w
        \/ r = [w EXCEPT !.ok = FALSE]
        \/ who \in Owners /\ r = Set(w, who)
        \/ w.owner[a] = Nobody /\ r = [w EXCEPT !.owner[a] = a[1]]
        \/ \E x \in Account :
             /\ Actor(w, who, c, x)
             /\ \/ r = Did(Set(w, x), cause, x, "set")
                \/ w.deposit[x] > 0 /\ r = [Did(w, cause, x, "withdraw") EXCEPT !.deposit[x] = @ - 1]
                \/ r = Did(w, cause, x, "upgrade")
    BY ApplyShape
  <1>. SUFFICES Goal
    OBVIOUS
  <1>. HIDE DEF r
  <1>3. CASE r = w
    BY <1>3
  <1>4. CASE r = [w EXCEPT !.ok = FALSE]
    <2>1. r \in Worlds
      BY <1>4 DEF Worlds
    <2>2. r.owner = w.owner /\ r.done = w.done
      BY <1>4 DEF Worlds
    <2>. QED  BY <2>1, <2>2 DEF Named
  <1>5. CASE who \in Owners /\ r = Set(w, who)
    <2>1. r \in Worlds
      BY <1>5 DEF Worlds, Set
    <2>2. r.owner = w.owner /\ r.done = w.done
      BY <1>5 DEF Worlds, Set
    <2>. QED  BY <2>1, <2>2 DEF Named
  <1>6. CASE w.owner[a] = Nobody /\ r = [w EXCEPT !.owner[a] = a[1]]
    <2>1. r \in Worlds
      BY <1>1, <1>6, AddressFacts DEF Worlds
    <2>2. r.owner = [w.owner EXCEPT ![a] = a[1]] /\ r.done = w.done
      BY <1>6 DEF Worlds
    <2>3. \A x \in Account : r.owner[x] = IF x = a THEN a[1] ELSE w.owner[x]
      BY <2>2, WorldFacts
    <2>4. Named(r)
      BY <2>3 DEF Named
    <2>. QED  BY <2>1, <2>2, <2>4
  <1>7. CASE \E x \in Account :
               /\ Actor(w, who, c, x)
               /\ \/ r = Did(Set(w, x), cause, x, "set")
                  \/ w.deposit[x] > 0 /\ r = [Did(w, cause, x, "withdraw") EXCEPT !.deposit[x] = @ - 1]
                  \/ r = Did(w, cause, x, "upgrade")
    <2>1. PICK x \in Account :
            /\ Actor(w, who, c, x)
            /\ \/ r = Did(Set(w, x), cause, x, "set")
               \/ w.deposit[x] > 0 /\ r = [Did(w, cause, x, "withdraw") EXCEPT !.deposit[x] = @ - 1]
               \/ r = Did(w, cause, x, "upgrade")
      BY <1>7
    <2>2. PICK fn \in Functions : r.done = w.done \cup {<<cause, x, fn>>}
      <3>1. w.done \cup {<<cause, x, "set">>} = Did(Set(w, x), cause, x, "set").done
        BY DEF Did, Set, Worlds
      <3>2. w.done \cup {<<cause, x, "withdraw">>}
              = [Did(w, cause, x, "withdraw") EXCEPT !.deposit[x] = @ - 1].done
        BY DEF Did, Worlds
      <3>3. w.done \cup {<<cause, x, "upgrade">>} = Did(w, cause, x, "upgrade").done
        BY DEF Did, Worlds
      <3>. QED  BY <2>1, <3>1, <3>2, <3>3 DEF Functions
    <2>3. r.owner = w.owner /\ r.ok = w.ok
      BY <2>1 DEF Did, Set, Worlds
    <2>4. r.stored \in {x, w.stored}
      BY <2>1 DEF Did, Set, Worlds
    <2>5. r.deposit \in [Account -> 0..MaxDeposit]
      <3>1. CASE w.deposit[x] > 0 /\ r = [Did(w, cause, x, "withdraw") EXCEPT !.deposit[x] = @ - 1]
        <4>1. r.deposit = [w.deposit EXCEPT ![x] = @ - 1]
          BY <3>1 DEF Did, Worlds
        <4>2. w.deposit[x] - 1 \in 0..MaxDeposit
          BY <3>1, WorldFacts, AccountsAssumption
        <4>. QED  BY <4>1, <4>2, WorldFacts
      <3>2. CASE \/ r = Did(Set(w, x), cause, x, "set")
                 \/ r = Did(w, cause, x, "upgrade")
        BY <3>2 DEF Did, Set, Worlds
      <3>. QED  BY <2>1, <3>1, <3>2
    <2>6. r = [ok |-> r.ok, owner |-> r.owner, deposit |-> r.deposit, stored |-> r.stored, done |-> r.done]
      BY <2>1 DEF Did, Set, Worlds
    <2>7. r.done \in SUBSET ((Ops \cup Owners) \X Account \X Functions)
      BY <2>2, WorldFacts
    <2>8. r \in Worlds
      BY <2>3, <2>4, <2>5, <2>6, <2>7, WorldFacts DEF Worlds
    <2>9. Named(r)
      BY <2>3 DEF Named
    <2>10. \A d \in r.done \ w.done : d = <<cause, x, fn>>
      BY <2>2
    <2>11. /\ who \in Account => x = who
           /\ who \in Owners => x[1] = who
           /\ who = EntryPoint => x = c.to
      <3>1. who \in Account => who \notin Owners /\ who # EntryPoint
        BY AddressFacts
      <3>2. who \in Owners => who \notin Account /\ who # EntryPoint /\ who # Nobody
        BY AddressFacts
      <3>3. w.owner[x] \in {x[1], Nobody}
        BY DEF Named
      <3>. QED  BY <2>1, <3>1, <3>2, <3>3 DEF Actor
    <2>. QED  BY <2>2, <2>8, <2>9, <2>10, <2>11
  <1>. QED  BY <1>2, <1>3, <1>4, <1>5, <1>6, <1>7

----------------------------------------------------------------------------
(* What a bundle that is valid looks like                                  *)

\* The account of an operation that is validated is its signer's by name.
LEMMA SignedByNamed ==
  ASSUME TypeOK, NamedOwnersOwn, NEW b \in Bundles, NEW i \in DOMAIN b, SignatureOk(b, i)
  PROVE  SignedBy[b[i]] = Op[b[i]].sender[1]
  <1>. DEFINE a == Op[b[i]].sender
  <1>1. b[i] \in Ops
    BY BundleFacts
  <1>2. SignedBy[b[i]] \in Owners /\ SignedBy[b[i]] # Nobody /\ a \in Account
    BY <1>1, OpFacts, AddressFacts
  <1>3. OwnerOf(b, i) = SignedBy[b[i]]
    BY DEF SignatureOk
  <1>4. OwnerOf(b, i) \in {a[1], owner[a], Nobody}
    BY DEF OwnerOf
  <1>5. owner[a] \in {a[1], Nobody}
    BY <1>2 DEF NamedOwnersOwn
  <1>. QED  BY <1>2, <1>3, <1>4, <1>5

\* Later operations of an account come after more of its operations.
LEMMA EarlierGrows ==
  ASSUME NEW b \in Bundles, NEW i \in DOMAIN b, NEW j \in DOMAIN b
  PROVE  /\ IsFiniteSet(Earlier(b, i)) /\ Cardinality(Earlier(b, i)) \in Nat
         /\ (i < j /\ Op[b[i]].sender = Op[b[j]].sender)
              => Cardinality(Earlier(b, i)) < Cardinality(Earlier(b, j))
  <1>1. i \in Nat /\ j \in Nat /\ i \in 1..Len(b) /\ j \in 1..Len(b)
    BY BundleFacts, LenProperties
  <1>2. ASSUME NEW k \in {i, j}
        PROVE  IsFiniteSet(Earlier(b, k)) /\ Cardinality(Earlier(b, k)) \in Nat
    <2>1. IsFiniteSet(1..(k - 1))
      <3>1. 1 \in Int /\ k - 1 \in Int
        BY <1>1, <1>2
      <3>. QED  BY <3>1, FS_Interval
    <2>2. Earlier(b, k) \in SUBSET (1..(k - 1))
      BY DEF Earlier
    <2>3. IsFiniteSet(Earlier(b, k))
      BY <2>1, <2>2, FS_Subset
    <2>. QED  BY <2>3, FS_CardinalityType
  <1>3. ASSUME i < j, Op[b[i]].sender = Op[b[j]].sender
        PROVE  Cardinality(Earlier(b, i)) < Cardinality(Earlier(b, j))
    <2>1. Earlier(b, i) \in SUBSET Earlier(b, j)
      BY <1>1, <1>3 DEF Earlier
    <2>2. i \in Earlier(b, j) /\ i \notin Earlier(b, i)
      BY <1>1, <1>3 DEF Earlier
    <2>3. IsFiniteSet(Earlier(b, j)) /\ Cardinality(Earlier(b, i)) \in Nat /\ Cardinality(Earlier(b, j)) \in Nat
      BY <1>2
    <2>4. Cardinality(Earlier(b, i)) <= Cardinality(Earlier(b, j))
      BY <2>1, <2>3, FS_Subset
    <2>5. Cardinality(Earlier(b, i)) # Cardinality(Earlier(b, j))
      BY <2>1, <2>2, <2>3, FS_Subset
    <2>. QED  BY <2>3, <2>4, <2>5
  <1>. QED  BY <1>2, <1>3

\* The operations of one account in a valid bundle have different nonces; so none is
\* there twice.
LEMMA ValidIsInjective ==
  ASSUME TypeOK, NEW b \in Bundles, Valid(b), NEW i \in DOMAIN b, NEW j \in DOMAIN b,
         Op[b[i]].sender = Op[b[j]].sender, Op[b[i]].nonce = Op[b[j]].nonce
  PROVE  i = j
  <1>. DEFINE a == Op[b[i]].sender
  <1>1. i \in Nat /\ j \in Nat
    BY BundleFacts, LenProperties
  <1>2. b[i] \in Ops /\ a \in Account
    BY BundleFacts, OpFacts
  <1>3. nonce[a] \in Nat
    BY <1>2 DEF TypeOK
  <1>4. /\ Op[b[i]].nonce = nonce[a] + Cardinality(Earlier(b, i))
        /\ Op[b[j]].nonce = nonce[a] + Cardinality(Earlier(b, j))
    BY DEF Valid
  <1>5. Cardinality(Earlier(b, i)) \in Nat /\ Cardinality(Earlier(b, j)) \in Nat
    BY EarlierGrows
  <1>6. Cardinality(Earlier(b, i)) = Cardinality(Earlier(b, j))
    <2>. DEFINE n == nonce[a]
                ci == Cardinality(Earlier(b, i))
                cj == Cardinality(Earlier(b, j))
    <2>1. n + ci = n + cj
      BY <1>4
    <2>2. n \in Nat /\ ci \in Nat /\ cj \in Nat
      BY <1>3, <1>5
    <2>. HIDE DEF n, ci, cj
    <2>3. ci = cj
      BY <2>1, <2>2
    <2>. QED  BY <2>3 DEF ci, cj
  <1>7. ~(i < j)
    BY <1>6, <1>5, EarlierGrows
  <1>8. ~(j < i)
    BY <1>6, <1>5, EarlierGrows
  <1>. QED  BY <1>1, <1>7, <1>8

\* The operations that an account has in a bundle can be counted.
LEMMA OpsOfCounted ==
  ASSUME NEW b \in Bundles, NEW a
  PROVE  /\ IsFiniteSet({o \in ToSet(b) : Op[o].sender = a})
         /\ Cardinality({o \in ToSet(b) : Op[o].sender = a}) \in Nat
  <1>. DEFINE S == ToSet(b)
  <1>1. IsFiniteSet(DOMAIN b)
    BY BundleFacts
  <1>2. b \in Surjection(DOMAIN b, S)
    <2>1. b \in [DOMAIN b -> S]
      BY BundleFacts, LenProperties DEF ToSet
    <2>. QED  BY <2>1 DEF ToSet, Surjection
  <1>3. IsFiniteSet(S)
    BY <1>1, <1>2, FS_Surjection
  <1>4. {o \in S : Op[o].sender = a} \in SUBSET S
    OBVIOUS
  <1>. HIDE DEF S
  <1>5. IsFiniteSet({o \in S : Op[o].sender = a})
    BY <1>3, <1>4, FS_Subset
  <1>6. Cardinality({o \in S : Op[o].sender = a}) \in Nat
    BY <1>5, FS_CardinalityType
  <1>. QED  BY <1>5, <1>6 DEF S

\* The nonces that a valid bundle uses are those that it spends.
LEMMA ValidSpends ==
  ASSUME TypeOK, NEW b \in Bundles, Valid(b), NEW i \in DOMAIN b
  PROVE  LET a == Op[b[i]].sender IN
         /\ nonce[a] <= Op[b[i]].nonce
         /\ Op[b[i]].nonce < nonce[a] + Cardinality({o \in ToSet(b) : Op[o].sender = a})
  <1>. DEFINE a == Op[b[i]].sender
              S == {o \in ToSet(b) : Op[o].sender = a}
              E == Earlier(b, i) \cup {i}
              f == [j \in E |-> b[j]]
  <1>1. b[i] \in Ops /\ a \in Account /\ nonce[a] \in Nat
    BY BundleFacts, OpFacts DEF TypeOK
  <1>2. DOMAIN b = 1..Len(b) /\ Len(b) \in Nat /\ i \in 1..Len(b)
    BY BundleFacts, LenProperties
  <1>3. \A j \in E : j \in DOMAIN b /\ Op[b[j]].sender = a
    BY <1>2 DEF Earlier
  <1>4. /\ IsFiniteSet(Earlier(b, i)) /\ Cardinality(Earlier(b, i)) \in Nat
        /\ i \notin Earlier(b, i)
    <2>1. i \notin Earlier(b, i)
      BY <1>2 DEF Earlier
    <2>. QED  BY <2>1, EarlierGrows
  <1>5. IsFiniteSet(E) /\ Cardinality(E) = Cardinality(Earlier(b, i)) + 1
    BY <1>4, FS_AddElement
  <1>6. IsFiniteSet(S) /\ Cardinality(S) \in Nat
    BY OpsOfCounted
  <1>7. f \in Injection(E, S)
    <2>1. \A j \in E : b[j] \in S
      BY <1>3 DEF ToSet
    <2>2. \A j, k \in E : b[j] = b[k] => j = k
      BY <1>3, ValidIsInjective
    <2>. QED  BY <2>1, <2>2 DEF Injection, IsInjective
  <1>8. Cardinality(E) <= Cardinality(S)
    BY <1>5, <1>6, <1>7, FS_Injection
  <1>9. Op[b[i]].nonce = nonce[a] + Cardinality(Earlier(b, i))
    BY DEF Valid
  <1>. QED  BY <1>1, <1>4, <1>5, <1>6, <1>8, <1>9

----------------------------------------------------------------------------
(* Sponsorships                                                            *)

\* getHash covers the operation and the window, so a signature that is recovered is the
\* signer's, for that operation and the window it claims.
LEMMA RecoversFacts ==
  ASSUME NEW o \in Ops, Sponsor[o] # NoSponsor, Recovers(o)
  PROVE  /\ Sponsor[o].by = verifyingSigner
         /\ Sponsor[o].signed = [op |-> Op[o], until |-> Sponsor[o].until, after |-> Sponsor[o].after]
  <1>. DEFINE s == Sponsor[o].signed
  <1>1. s \in Approvals /\ Op[o] \in Contents
    BY AccountsAssumption
  <1>2. s = [op |-> s.op, until |-> s.until, after |-> s.after] /\ s.op \in Contents
    BY <1>1 DEF Approvals
  <1>3. /\ s.op.sender = Op[o].sender /\ s.op.nonce = Op[o].nonce /\ s.op.init = Op[o].init
        /\ s.op.via = Op[o].via /\ s.op.calls = Op[o].calls
        /\ s.until = Sponsor[o].until /\ s.after = Sponsor[o].after
    BY DEF Recovers, GetHash
  <1>4. s.op = Op[o]
    BY <1>1, <1>2, <1>3 DEF Contents
  <1>. QED  BY <1>2, <1>3, <1>4 DEF Recovers

----------------------------------------------------------------------------
(* The inductive invariant                                                 *)

\* The world of now, as its own type says.
LEMMA TypeFacts ==
  ASSUME TypeOK
  PROVE  /\ owner \in [Account -> Owners \cup {Nobody}]
         /\ deposit \in [Account -> 0..MaxDeposit]
         /\ stored \in Account \cup Owners \cup {Nobody}
         /\ done \in SUBSET ((Ops \cup Owners) \X Account \X Functions)
  BY WorldFacts DEF TypeOK, World

\* An operation under way has left a world in which only its account has acted.
LEMMA HereFacts ==
  ASSUME AccountsInv, running # <<>>
  PROVE  /\ Head(running) \in Ops
         /\ Here \in Worlds
         /\ Named(Here)
         /\ \A d \in Here.done \ done :
              d[1] = Head(running) /\ d[2] = Op[Head(running)].sender
  <1>1. Head(running) \in Ops
    BY HeadTailProperties DEF AccountsInv, TypeOK
  <1>2. CASE step = 0
    <2>1. Here = World
      BY <1>2 DEF Here
    <2>2. World \in Worlds /\ World.owner = owner /\ World.done = done
      BY DEF AccountsInv, TypeOK, World
    <2>. QED  BY <1>1, <2>1, <2>2 DEF AccountsInv, NamedOwnersOwn, Named
  <1>3. CASE step # 0
    <2>1. Here = trial
      BY <1>3 DEF Here
    <2>. QED  BY <1>1, <1>3, <2>1 DEF AccountsInv, TypeOK, TrialInv
  <1>. QED  BY <1>2, <1>3

LEMMA InitInv == Init => AccountsInv
  <1>. SUFFICES ASSUME Init PROVE AccountsInv
    OBVIOUS
  <1>. USE AccountsAssumption DEF Init
  <1>1. World \in Worlds
    BY DEF World, Worlds
  <1>2. TypeOK
    BY <1>1 DEF TypeOK, ToSet, NoTrial, Unpaid, NoView
  <1>3. NamedOwnersOwn /\ RunningInv /\ TrialInv
    BY DEF NamedOwnersOwn, RunningInv, TrialInv
  <1>4. ActsAreAuthorised /\ SponsoredAsSigned /\ ViewInv /\ NonceInv
    BY DEF ActsAreAuthorised, SponsoredAsSigned, ViewInv, NonceInv
  <1>. QED  BY <1>2, <1>3, <1>4 DEF AccountsInv

\* The next world is one if its parts are.
LEMMA NextWorld ==
  ASSUME owner' \in [Account -> Owners \cup {Nobody}],
         deposit' \in [Account -> 0..MaxDeposit],
         stored' \in Account \cup Owners \cup {Nobody},
         done' \in SUBSET ((Ops \cup Owners) \X Account \X Functions)
  PROVE  World' \in Worlds
  BY DEF World, Worlds

\* What is committed is a world again, in which accounts are their named owners'
\* and only the acts of a world that went well are done.
LEMMA CommitFacts ==
  ASSUME AccountsInv, NEW w \in Worlds, Named(w), Commit(w)
  PROVE  /\ World' \in Worlds
         /\ NamedOwnersOwn'
         /\ done' \subseteq done \cup w.done
         /\ ~w.ok => done' = done
  <1>1. CASE w.ok
    <2>1. owner' = w.owner /\ deposit' = w.deposit /\ stored' = w.stored /\ done' = w.done
      BY <1>1 DEF Commit
    <2>2. World' = [ok |-> TRUE, owner |-> w.owner, deposit |-> w.deposit,
                    stored |-> w.stored, done |-> w.done]
      BY <2>1 DEF World
    <2>3. World' \in Worlds
      BY <2>2, WorldFacts DEF Worlds
    <2>4. NamedOwnersOwn'
      BY <2>1 DEF NamedOwnersOwn, Named
    <2>. QED  BY <1>1, <2>1, <2>3, <2>4
  <1>2. CASE ~w.ok
    <2>1. UNCHANGED stateVars
      BY <1>2 DEF Commit
    <2>2. World' = World /\ done' = done
      BY <2>1 DEF World
    <2>3. NamedOwnersOwn'
      BY <2>1 DEF AccountsInv, NamedOwnersOwn
    <2>. QED  BY <2>2, <2>3 DEF AccountsInv, TypeOK
  <1>. QED  BY <1>1, <1>2

LEMMA HandleOpsInv ==
  ASSUME AccountsInv, NEW b \in Bundles, HandleOps(b)
  PROVE  AccountsInv'
  <1>0. World' \in Worlds
    <2>1. owner' \in [Account -> Owners \cup {Nobody}]
      BY TypeFacts, AddressFacts DEF AccountsInv, HandleOps
    <2>2. /\ deposit' \in [Account -> 0..MaxDeposit]
          /\ stored' \in Account \cup Owners \cup {Nobody}
          /\ done' \in SUBSET ((Ops \cup Owners) \X Account \X Functions)
      BY TypeFacts DEF AccountsInv, HandleOps
    <2>. QED  BY <2>1, <2>2, NextWorld
  <1>. USE DEF HandleOps
  <1>1. b \in Seq(Ops) /\ DOMAIN b = 1..Len(b) /\ ToSet(b) \subseteq Ops
    BY BundleFacts DEF ToSet
  <1>2. \A i \in DOMAIN b : SignatureOk(b, i) /\ Sponsored(b[i])
    BY DEF Valid
  <1>3. step = 0 /\ step' = 0 /\ trial' = trial
    BY DEF AccountsInv, RunningInv
  <1>4. \A o \in Ops : outcome[o] # "validated"
    BY DEF AccountsInv, TypeOK, ToSet
  <1>5. \A o \in ToSet(b) : outcome[o] = "none" /\ Sponsored(o)
    <2>. SUFFICES ASSUME NEW i \in DOMAIN b
                  PROVE  outcome[b[i]] = "none" /\ Sponsored(b[i])
      BY DEF ToSet
    <2>. DEFINE a == Op[b[i]].sender
    <2>1. b[i] \in Ops /\ a \in Account /\ Op[b[i]].nonce \in Nat
      BY BundleFacts, OpFacts
    <2>2. nonce[a] \in Nat /\ nonce[a] <= Op[b[i]].nonce
      BY <2>1, ValidSpends DEF AccountsInv, TypeOK
    <2>3. outcome[b[i]] # "none" => Op[b[i]].nonce < nonce[a]
      BY <2>1 DEF AccountsInv, NonceInv
    <2>. QED  BY <1>2, <2>1, <2>2, <2>3
  <1>6. TypeOK'
    <2>1. nonce' \in [Account -> Nat]
      <3>1. \A a \in Account : Cardinality({o \in ToSet(b) : Op[o].sender = a}) \in Nat
        BY OpsOfCounted
      <3>2. \A a \in Account : nonce[a] \in Nat
        BY DEF AccountsInv, TypeOK
      <3>3. \A a \in Account :
              nonce[a] + Cardinality({o \in ToSet(b) : Op[o].sender = a}) \in Nat
        BY <3>1, <3>2
      <3>. QED  BY <3>3
    <2>2. outcome' \in [Ops -> {"none", "validated", "success", "reverted"}]
      BY DEF AccountsInv, TypeOK
    <2>3. \A o \in Ops : outcome'[o] = "validated" <=> o \in ToSet(running')
      BY <1>4
    <2>4. paidAt' \in [Ops -> {Unpaid} \cup ((0..MaxTime) \X Signers)]
      BY DEF AccountsInv, TypeOK
    <2>. QED  BY <1>0, <1>1, <1>3, <2>1, <2>2, <2>3, <2>4 DEF AccountsInv, TypeOK
  <1>7. NamedOwnersOwn'
    BY DEF AccountsInv, NamedOwnersOwn
  <1>8. RunningInv'
    <2>1. \A i, j \in DOMAIN b : b[i] = b[j] => i = j
      BY ValidIsInjective DEF AccountsInv
    <2>2. \A i \in DOMAIN b : SignedBy[b[i]] = Op[b[i]].sender[1]
      BY <1>2, SignedByNamed DEF AccountsInv
    <2>. QED  BY <1>3, <2>1, <2>2 DEF RunningInv
  <1>9. TrialInv'
    BY <1>3 DEF TrialInv
  <1>10. ActsAreAuthorised'
    <2>1. \A o \in Ops : outcome[o] = "success" => outcome'[o] = "success"
      BY <1>5
    <2>. QED  BY <2>1 DEF AccountsInv, ActsAreAuthorised
  <1>11. NonceInv'
    <2>1. \A o \in Ops : outcome'[o] # "none" <=> o \in ToSet(b) \/ outcome[o] # "none"
      BY DEF AccountsInv, TypeOK
    <2>2. ASSUME NEW o \in Ops, outcome'[o] # "none"
          PROVE  Op[o].nonce < nonce'[Op[o].sender]
      <3>. DEFINE a == Op[o].sender
                  n == Cardinality({p \in ToSet(b) : Op[p].sender = a})
      <3>1. a \in Account /\ nonce[a] \in Nat /\ Op[o].nonce \in Nat
        BY OpFacts DEF AccountsInv, TypeOK
      <3>2. nonce'[a] = nonce[a] + n /\ n \in Nat
        BY <3>1, OpsOfCounted
      <3>3. CASE o \in ToSet(b)
        <4>1. PICK i \in DOMAIN b : o = b[i]
          BY <3>3 DEF ToSet
        <4>2. Op[o].nonce < nonce[a] + n
          BY <4>1, ValidSpends DEF AccountsInv
        <4>. QED  BY <3>2, <4>2
      <3>4. CASE o \notin ToSet(b)
        <4>1. Op[o].nonce < nonce[a]
          BY <2>1, <2>2, <3>4 DEF AccountsInv, NonceInv
        <4>. HIDE DEF n
        <4>. QED  BY <3>1, <3>2, <4>1
      <3>. QED  BY <3>3, <3>4
    <2>3. ASSUME NEW o \in ToSet(b), NEW p \in Ops, outcome[p] # "none",
                 Op[o].sender = Op[p].sender
          PROVE  Op[o].nonce # Op[p].nonce
      <3>1. PICK i \in DOMAIN b : o = b[i]
        BY DEF ToSet
      <3>2. nonce[Op[p].sender] <= Op[o].nonce
        BY <2>3, <3>1, ValidSpends DEF AccountsInv
      <3>3. Op[p].nonce < nonce[Op[p].sender]
        BY <2>3 DEF AccountsInv, NonceInv
      <3>4. Op[p].nonce \in Nat /\ nonce[Op[p].sender] \in Nat /\ Op[o].nonce \in Nat
        BY <1>1, OpFacts DEF AccountsInv, TypeOK
      <3>. QED  BY <3>2, <3>3, <3>4
    <2>4. ASSUME NEW o \in ToSet(b), NEW p \in ToSet(b),
                 Op[o].sender = Op[p].sender, Op[o].nonce = Op[p].nonce
          PROVE  o = p
      <3>1. PICK i \in DOMAIN b : o = b[i]
        BY DEF ToSet
      <3>2. PICK j \in DOMAIN b : p = b[j]
        BY DEF ToSet
      <3>. QED  BY <2>4, <3>1, <3>2, ValidIsInjective DEF AccountsInv
    <2>5. ASSUME NEW o \in Ops, NEW p \in Ops, outcome'[o] # "none", outcome'[p] # "none",
                 Op[o].sender = Op[p].sender, Op[o].nonce = Op[p].nonce
          PROVE  o = p
      <3>1. CASE o \in ToSet(b) /\ p \in ToSet(b)
        BY <2>4, <2>5, <3>1
      <3>2. CASE o \in ToSet(b) /\ p \notin ToSet(b)
        BY <2>1, <2>3, <2>5, <3>2
      <3>3. CASE o \notin ToSet(b) /\ p \in ToSet(b)
        BY <2>1, <2>3, <2>5, <3>3
      <3>4. CASE o \notin ToSet(b) /\ p \notin ToSet(b)
        BY <2>1, <2>5, <3>4 DEF AccountsInv, NonceInv
      <3>. QED  BY <3>1, <3>2, <3>3, <3>4
    <2>6. \A o \in Ops : paidAt'[o] # Unpaid => outcome'[o] # "none"
      BY <2>1 DEF AccountsInv, NonceInv
    <2>. QED  BY <2>2, <2>5, <2>6 DEF NonceInv
  <1>13. SponsoredAsSigned'
    <2>1. ASSUME NEW o \in Ops, paidAt'[o] # Unpaid
          PROVE  /\ Sponsor[o].by = paidAt'[o][2]
                 /\ Sponsor[o].signed.op = Op[o]
                 /\ Sponsor[o].signed.after <= paidAt'[o][1]
                 /\ Sponsor[o].signed.until # 0 => paidAt'[o][1] <= Sponsor[o].signed.until
      <3>1. CASE o \in ToSet(b) /\ Sponsor[o] # NoSponsor
        <4>1. paidAt'[o] = <<now, verifyingSigner>>
          BY <3>1
        <4>2. /\ Recovers(o)
              /\ Sponsor[o].until = 0 \/ now <= Sponsor[o].until
              /\ now >= Sponsor[o].after
          BY <1>5, <3>1 DEF Sponsored
        <4>3. /\ Sponsor[o].by = verifyingSigner
              /\ Sponsor[o].signed = [op |-> Op[o], until |-> Sponsor[o].until, after |-> Sponsor[o].after]
          BY <3>1, <4>2, RecoversFacts
        <4>4. now \in Nat /\ Sponsor[o].after \in Nat
          BY <3>1, AccountsAssumption DEF AccountsInv, TypeOK
        <4>. QED  BY <4>1, <4>2, <4>3, <4>4
      <3>2. CASE ~(o \in ToSet(b) /\ Sponsor[o] # NoSponsor)
        BY <2>1, <3>2 DEF AccountsInv, SponsoredAsSigned
      <3>. QED  BY <3>1, <3>2
    <2>2. ASSUME NEW o \in Ops, NEW p \in Ops, paidAt'[o] # Unpaid, paidAt'[p] # Unpaid,
                 Sponsor[o].signed = Sponsor[p].signed
          PROVE  o = p
      <3>1. Op[o] = Op[p]
        BY <2>1, <2>2
      <3>2. outcome'[o] # "none" /\ outcome'[p] # "none"
        BY <1>11, <2>2 DEF NonceInv
      <3>. QED  BY <1>11, <3>1, <3>2 DEF NonceInv
    <2>. QED  BY <2>1, <2>2 DEF SponsoredAsSigned
  <1>12. ViewInv'
    BY DEF AccountsInv, ViewInv, Seen
  <1>. QED  BY <1>6, <1>7, <1>8, <1>9, <1>10, <1>11, <1>12, <1>13 DEF AccountsInv

LEMMA CallNextInv ==
  ASSUME AccountsInv, CallNext
  PROVE  AccountsInv'
  <1>. USE DEF CallNext
  <1>. DEFINE o == Head(running)
              c == Op[o].calls[step + 1]
  <1>1. /\ o \in Ops /\ Here \in Worlds /\ Named(Here)
        /\ \A d \in Here.done \ done : d[1] = o /\ d[2] = Op[o].sender
    BY HereFacts
  <1>2. step \in Nat /\ step < Len(Op[o].calls) /\ step' = step + 1
    BY DEF AccountsInv, TypeOK
  <1>3. c \in Call
    BY <1>1, <1>2, OpFacts, LenProperties, ElementOfSeq
  <1>4. /\ Caller(o) \in Account \cup Owners \cup {EntryPoint}
        /\ Caller(o) \in Account => Caller(o) = Op[o].sender
        /\ Caller(o) \notin Owners
        /\ Caller(o) = EntryPoint => c.fn \notin {"set", "create"} /\ c.to = Op[o].sender
    <2>1. CASE Op[o].via = "execute"
      BY <1>1, <2>1, OpFacts, AddressFacts DEF Caller
    <2>2. CASE Op[o].via # "execute"
      <3>1. step = 0 /\ Len(Op[o].calls) = 1
        BY <1>1, <1>2, <2>2, OpFacts
      <3>2. c = Op[o].calls[1]
        BY <3>1
      <3>3. c.fn \notin {"set", "create"} /\ c.to = Op[o].sender
        BY <1>1, <2>2, <3>2, OpFacts
      <3>4. Caller(o) = EntryPoint /\ EntryPoint \notin Account /\ EntryPoint \notin Owners
        BY <2>2, AccountsAssumption DEF Caller
      <3>. QED  BY <3>3, <3>4
    <2>. QED  BY <2>1, <2>2
  <1>. DEFINE w == Apply(Here, o, Caller(o), c)
  <1>. HIDE DEF c
  <1>5. /\ w \in Worlds /\ Named(w)
        /\ \A d \in w.done \ Here.done :
             /\ d[1] = o
             /\ Caller(o) \in Account => d[2] = Caller(o)
             /\ Caller(o) = EntryPoint => d[2] = c.to
    BY <1>1, <1>3, <1>4, ApplyFacts
  <1>6. trial' = w
    BY DEF c
  <1>. HIDE DEF w
  <1>7. TypeOK'
    <2>1. World' = World
      BY DEF World
    <2>. QED  BY <1>2, <1>5, <1>6, <2>1 DEF AccountsInv, TypeOK
  <1>8. NamedOwnersOwn' /\ ActsAreAuthorised' /\ SponsoredAsSigned' /\ ViewInv' /\ NonceInv'
    BY DEF AccountsInv, NamedOwnersOwn, ActsAreAuthorised, SponsoredAsSigned, ViewInv, Seen, NonceInv
  <1>9. RunningInv'
    BY DEF AccountsInv, RunningInv
  <1>10. TrialInv'
    <2>1. \A d \in w.done \ done : d[1] = o /\ d[2] = Op[o].sender
      BY <1>1, <1>4, <1>5
    <2>. QED  BY <1>5, <1>6, <2>1 DEF TrialInv
  <1>. QED  BY <1>7, <1>8, <1>9, <1>10 DEF AccountsInv

LEMMA EndOpInv ==
  ASSUME AccountsInv, EndOp
  PROVE  AccountsInv'
  <1>. USE DEF EndOp
  <1>. DEFINE o == Head(running)
  <1>1. /\ o \in Ops /\ Here \in Worlds /\ Named(Here)
        /\ \A d \in Here.done \ done : d[1] = o /\ d[2] = Op[o].sender
    BY HereFacts
  <1>2. /\ running \in Seq(Ops) /\ Len(running) \in Nat \ {0} /\ DOMAIN running = 1..Len(running)
        /\ o = running[1]
    BY LenProperties, EmptySeq DEF AccountsInv, TypeOK
  <1>3. /\ running' \in Seq(Ops) /\ DOMAIN running' = 1..(Len(running) - 1)
        /\ \A i \in DOMAIN running' : i + 1 \in DOMAIN running /\ running'[i] = running[i + 1]
    BY <1>2
  <1>4. Commit(Here) /\ outcome' = [outcome EXCEPT ![o] = IF Here.ok THEN "success" ELSE "reverted"]
    OBVIOUS
  <1>5. World' \in Worlds /\ NamedOwnersOwn' /\ done' \subseteq done \cup Here.done
        /\ (~Here.ok => done' = done)
    BY <1>1, <1>4, CommitFacts
  <1>6. \A p \in Ops : p \in ToSet(running') <=> p \in ToSet(running) /\ p # o
    <2>1. \A i \in DOMAIN running : i # 1 => i - 1 \in DOMAIN running' /\ running'[i - 1] = running[i]
      BY <1>2, <1>3
    <2>2. \A i \in DOMAIN running : running[i] = o => i = 1
      BY <1>2 DEF AccountsInv, RunningInv
    <2>3. \A i \in DOMAIN running' : i + 1 # 1
      BY <1>2, <1>3
    <2>4. \A p : p \in ToSet(running) <=> \E i \in DOMAIN running : running[i] = p
      BY DEF ToSet
    <2>5. \A p : p \in ToSet(running') <=> \E i \in DOMAIN running' : running'[i] = p
      BY DEF ToSet
    <2>6. ASSUME NEW p \in Ops, p \in ToSet(running')
          PROVE  p \in ToSet(running) /\ p # o
      <3>1. PICK i \in DOMAIN running' : running'[i] = p
        BY <2>5, <2>6
      <3>2. i + 1 \in DOMAIN running /\ running[i + 1] = p
        BY <1>3, <3>1
      <3>. QED  BY <2>2, <2>3, <2>4, <3>1, <3>2
    <2>7. ASSUME NEW p \in Ops, p \in ToSet(running), p # o
          PROVE  p \in ToSet(running')
      <3>1. PICK i \in DOMAIN running : running[i] = p
        BY <2>4, <2>7
      <3>2. i # 1
        BY <1>2, <2>7, <3>1
      <3>. QED  BY <2>1, <2>5, <3>1, <3>2
    <2>. QED  BY <2>6, <2>7
  <1>7. outcome[o] = "validated" /\ o \in ToSet(running)
    <2>1. 1 \in DOMAIN running
      BY <1>2
    <2>2. o \in ToSet(running)
      BY <1>2, <2>1 DEF ToSet
    <2>. QED  BY <1>1, <2>2 DEF AccountsInv, TypeOK
  <1>8. TypeOK'
    <2>1. outcome' \in [Ops -> {"none", "validated", "success", "reverted"}]
      BY <1>4 DEF AccountsInv, TypeOK
    <2>2. \A p \in Ops : outcome'[p] = "validated" <=> p \in ToSet(running')
      BY <1>1, <1>4, <1>6 DEF AccountsInv, TypeOK
    <2>. QED  BY <1>3, <1>5, <2>1, <2>2 DEF AccountsInv, TypeOK
  <1>9. RunningInv'
    <2>1. \A i, j \in DOMAIN running' : running'[i] = running'[j] => i = j
      <3>1. TAKE i, j \in DOMAIN running'
      <3>2. HAVE running'[i] = running'[j]
      <3>3. i + 1 = j + 1
        BY <1>3, <3>2 DEF AccountsInv, RunningInv
      <3>. QED  BY <1>2, <1>3, <3>3
    <2>2. \A i \in DOMAIN running' : SignedBy[running'[i]] = Op[running'[i]].sender[1]
      BY <1>3 DEF AccountsInv, RunningInv
    <2>. QED  BY <2>1, <2>2 DEF RunningInv
  <1>10. TrialInv'
    BY DEF TrialInv
  <1>11. ActsAreAuthorised'
    <2>1. SUFFICES ASSUME NEW d \in done'
                   PROVE  IF d[1] \in Ops
                          THEN d[2][1] = SignedBy[d[1]] /\ outcome'[d[1]] = "success"
                          ELSE d[2][1] = d[1]
      BY DEF ActsAreAuthorised
    <2>2. CASE d \in done
      <3>1. d[1] \in Ops => outcome[d[1]] = "success"
        BY <2>2 DEF AccountsInv, ActsAreAuthorised
      <3>2. d[1] \in Ops => outcome'[d[1]] = "success"
        BY <1>4, <1>7, <3>1 DEF AccountsInv, TypeOK
      <3>. QED  BY <2>2, <3>2 DEF AccountsInv, ActsAreAuthorised
    <2>3. CASE d \notin done
      <3>1. Here.ok /\ d[1] = o /\ d[2] = Op[o].sender
        BY <1>1, <1>5, <2>1, <2>3
      <3>2. outcome'[o] = "success"
        BY <1>1, <1>4, <3>1 DEF AccountsInv, TypeOK
      <3>3. SignedBy[o] = Op[o].sender[1]
        BY <1>2 DEF AccountsInv, RunningInv
      <3>. QED  BY <1>1, <3>1, <3>2, <3>3
    <2>. QED  BY <2>2, <2>3
  <1>12. SponsoredAsSigned' /\ ViewInv' /\ NonceInv'
    <2>1. \A p \in Ops : outcome'[p] = "none" <=> outcome[p] = "none"
      BY <1>1, <1>4, <1>7 DEF AccountsInv, TypeOK
    <2>2. NonceInv'
      BY <2>1 DEF AccountsInv, NonceInv
    <2>. QED  BY <2>2 DEF AccountsInv, SponsoredAsSigned, ViewInv, Seen
  <1>. QED  BY <1>5, <1>8, <1>9, <1>10, <1>11, <1>12 DEF AccountsInv

\* A simulation establishes what Seen says.
LEMMA SimulateInv ==
  ASSUME AccountsInv, NEW o \in Ops, Simulate(o)
  PROVE  AccountsInv'
  <1>. USE DEF Simulate
  <1>. DEFINE b == <<o>>
              a == Op[o].sender
  <1>1. b \in Bundles
    <2>1. 1 \in 1..MaxBundle /\ b \in [1..1 -> Ops]
      BY AccountsAssumption
    <2>. QED  BY <2>1 DEF Bundles
  <1>2. 1 \in DOMAIN b /\ b[1] = o
    OBVIOUS
  <1>3. a \in Account /\ nonce[a] \in Nat /\ owner[a] \in {a[1], Nobody} /\ SignedBy[o] # Nobody
    BY OpFacts, AddressFacts DEF AccountsInv, TypeOK, NamedOwnersOwn
  <1>4. Earlier(b, 1) = {}
    BY DEF Earlier
  <1>5. Cardinality(Earlier(b, 1)) = 0
    BY <1>4, FS_EmptySet
  <1>6. SignatureOk(b, 1) /\ Op[o].nonce = nonce[a] + Cardinality(Earlier(b, 1)) /\ Sponsored(o)
    BY <1>2 DEF Valid
  <1>7. OwnerOf(b, 1) = SignedBy[o]
    BY <1>2, <1>6 DEF SignatureOk
  <1>8. Op[o].init = IF a \in Deployed THEN {} ELSE {a}
    BY <1>2, <1>3, <1>4, <1>7 DEF OwnerOf
  <1>9. SignedBy[o] = a[1]
    BY <1>1, <1>2, <1>6, SignedByNamed DEF AccountsInv
  <1>10. Op[o].nonce = nonce[a]
    BY <1>3, <1>5, <1>6
  <1>11. view' = [view EXCEPT ![o] = Facts(o)]
    OBVIOUS
  <1>12. Facts(o) \in Nat \X BOOLEAN \X (Signers \cup {Nobody})
    <2>1. verifyingSigner \in Signers
      BY DEF AccountsInv, TypeOK
    <2>2. (a \in Deployed) \in BOOLEAN
      OBVIOUS
    <2>3. (IF Sponsor[o] = NoSponsor THEN Nobody ELSE verifyingSigner) \in Signers \cup {Nobody}
      BY <2>1
    <2>. QED  BY <1>3, <2>2, <2>3 DEF Facts
  <1>13. TypeOK'
    <2>1. World' = World
      BY DEF World
    <2>2. view' \in [Ops -> {NoView} \cup (Nat \X BOOLEAN \X (Signers \cup {Nobody}))]
      BY <1>11, <1>12 DEF AccountsInv, TypeOK
    <2>. QED  BY <2>1, <2>2 DEF AccountsInv, TypeOK
  <1>14. NamedOwnersOwn' /\ RunningInv' /\ TrialInv' /\ ActsAreAuthorised' /\ SponsoredAsSigned' /\ NonceInv'
    BY DEF AccountsInv, NamedOwnersOwn, RunningInv, TrialInv, ActsAreAuthorised, SponsoredAsSigned, NonceInv
  <1>15. ViewInv'
    <2>. SUFFICES ASSUME NEW p \in Ops, view'[p] # NoView
                  PROVE  Seen(p)'
      BY DEF ViewInv
    <2>1. CASE p = o
      <3>1. view'[o] = Facts(o)
        BY <1>11 DEF AccountsInv, TypeOK
      <3>2. /\ view'[o][1] = nonce[a]
            /\ view'[o][2] = (a \in Deployed)
            /\ Sponsor[o] # NoSponsor => view'[o][3] = verifyingSigner
        BY <3>1 DEF Facts
      <3>3. Sponsor[o] # NoSponsor =>
              /\ Sponsor[o].by = verifyingSigner
              /\ Sponsor[o].signed = [op |-> Op[o], until |-> Sponsor[o].until, after |-> Sponsor[o].after]
              /\ now >= Sponsor[o].after
        BY <1>6, RecoversFacts DEF Sponsored
      <3>. QED  BY <1>8, <1>9, <1>10, <2>1, <3>2, <3>3 DEF Seen
    <2>2. CASE p # o
      <3>1. view'[p] = view[p]
        BY <1>11, <2>2 DEF AccountsInv, TypeOK
      <3>. QED  BY <3>1 DEF AccountsInv, ViewInv, Seen
    <2>. QED  BY <2>1, <2>2
  <1>. QED  BY <1>13, <1>14, <1>15 DEF AccountsInv

\* A transaction of u outside a bundle, in which only accounts of u act.
LEMMA TransactionInv ==
  ASSUME AccountsInv, NEW u \in Owners, NEW w \in Worlds, Named(w), running = <<>>, Commit(w),
         \A d \in w.done \ done : d[1] = u /\ d[2][1] = u,
         UNCHANGED <<opVars, verifyingSigner, now, view>>
  PROVE  AccountsInv'
  <1>1. World' \in Worlds /\ NamedOwnersOwn' /\ done' \subseteq done \cup w.done
    BY CommitFacts
  <1>2. step = 0
    BY DEF AccountsInv, RunningInv
  <1>3. TypeOK'
    BY <1>1 DEF AccountsInv, TypeOK
  <1>4. RunningInv' /\ TrialInv' /\ SponsoredAsSigned' /\ ViewInv' /\ NonceInv'
    BY <1>2 DEF AccountsInv, RunningInv, TrialInv, SponsoredAsSigned, ViewInv, Seen, NonceInv
  <1>5. ActsAreAuthorised'
    <2>1. u \notin Ops
      BY AddressFacts
    <2>. QED  BY <1>1, <2>1 DEF AccountsInv, ActsAreAuthorised
  <1>. QED  BY <1>1, <1>3, <1>4, <1>5 DEF AccountsInv

LEMMA WorldNow ==
  ASSUME AccountsInv
  PROVE  World \in Worlds /\ Named(World) /\ World.done = done /\ World.owner = owner
  BY DEF AccountsInv, TypeOK, NamedOwnersOwn, Named, World

LEMMA TransactInv ==
  ASSUME AccountsInv, NEW u \in Owners, NEW c \in DirectCalls, Transact(u, c)
  PROVE  AccountsInv'
  <1>. DEFINE w == Apply(World, u, u, c)
  <1>1. c \in Call /\ u # EntryPoint
    BY AccountsAssumption
  <1>2. w \in Worlds /\ Named(w) /\ \A d \in w.done \ done : d[1] = u /\ d[2][1] = u
    BY <1>1, WorldNow, ApplyFacts
  <1>3. running = <<>> /\ Commit(w) /\ UNCHANGED <<opVars, verifyingSigner, now, view>>
    BY DEF Transact
  <1>. HIDE DEF w
  <1>. QED  BY <1>2, <1>3, TransactionInv

LEMMA TransactByInv ==
  ASSUME AccountsInv, NEW u \in Owners, NEW a \in Account, NEW c \in DirectCalls, TransactBy(u, a, c)
  PROVE  AccountsInv'
  <1>. DEFINE w == Apply(World, u, a, c)
  <1>1. c \in Call /\ a # EntryPoint /\ u # EntryPoint
    BY AccountsAssumption
  <1>2. a[1] = u
    <2>1. u = owner[a]
      BY <1>1, WorldNow DEF TransactBy, MayExecute
    <2>. QED  BY <2>1, AddressFacts DEF AccountsInv, NamedOwnersOwn
  <1>3. w \in Worlds /\ Named(w) /\ \A d \in w.done \ done : d[1] = u /\ d[2] = a
    BY <1>1, WorldNow, ApplyFacts
  <1>4. running = <<>> /\ Commit(w) /\ UNCHANGED <<opVars, verifyingSigner, now, view>>
    BY DEF TransactBy
  <1>. HIDE DEF w
  <1>5. \A d \in w.done \ done : d[1] = u /\ d[2][1] = u
    BY <1>2, <1>3
  <1>. QED  BY <1>3, <1>4, <1>5, TransactionInv

LEMMA AddDepositInv ==
  ASSUME AccountsInv, NEW a \in Account, AddDeposit(a)
  PROVE  AccountsInv'
  <1>. USE DEF AddDeposit
  <1>1. deposit' \in [Account -> 0..MaxDeposit]
    <2>1. deposit \in [Account -> 0..MaxDeposit]
      BY TypeFacts DEF AccountsInv
    <2>2. deposit[a] + 1 \in 0..MaxDeposit
      BY <2>1, AccountsAssumption
    <2>3. deposit' = [deposit EXCEPT ![a] = deposit[a] + 1]
      OBVIOUS
    <2>. QED  BY <2>1, <2>2, <2>3
  <1>2. World' \in Worlds
    <2>1. /\ owner' \in [Account -> Owners \cup {Nobody}]
          /\ stored' \in Account \cup Owners \cup {Nobody}
          /\ done' \in SUBSET ((Ops \cup Owners) \X Account \X Functions)
      BY TypeFacts DEF AccountsInv
    <2>. QED  BY <1>1, <2>1, NextWorld
  <1>3. TypeOK'
    BY <1>2 DEF AccountsInv, TypeOK
  <1>4. NamedOwnersOwn' /\ RunningInv' /\ TrialInv' /\ ActsAreAuthorised' /\ SponsoredAsSigned' /\ NonceInv'
    BY DEF AccountsInv, NamedOwnersOwn, RunningInv, TrialInv, ActsAreAuthorised, SponsoredAsSigned, NonceInv
  <1>5. ViewInv'
    BY DEF AccountsInv, ViewInv, Seen
  <1>. QED  BY <1>3, <1>4, <1>5 DEF AccountsInv

LEMMA SetVerifyingSignerInv ==
  ASSUME AccountsInv, NEW u \in Owners, NEW s \in Signers \cup {Nobody}, SetVerifyingSigner(u, s)
  PROVE  AccountsInv'
  <1>. USE DEF SetVerifyingSigner
  <1>1. TypeOK'
    <2>1. World' = World
      BY DEF World
    <2>. QED  BY <2>1 DEF AccountsInv, TypeOK
  <1>2. NamedOwnersOwn' /\ RunningInv' /\ TrialInv' /\ ActsAreAuthorised' /\ SponsoredAsSigned' /\ NonceInv'
    BY DEF AccountsInv, NamedOwnersOwn, RunningInv, TrialInv, ActsAreAuthorised, SponsoredAsSigned, NonceInv
  <1>3. ViewInv'
    BY DEF AccountsInv, ViewInv, Seen
  <1>. QED  BY <1>1, <1>2, <1>3 DEF AccountsInv

LEMMA TickInv ==
  ASSUME AccountsInv, Tick
  PROVE  AccountsInv'
  <1>. USE DEF Tick
  <1>1. now' \in 0..MaxTime
    BY AccountsAssumption DEF AccountsInv, TypeOK
  <1>2. TypeOK'
    <2>1. World' = World
      BY DEF World
    <2>. QED  BY <1>1, <2>1 DEF AccountsInv, TypeOK
  <1>3. NamedOwnersOwn' /\ RunningInv' /\ TrialInv' /\ ActsAreAuthorised' /\ SponsoredAsSigned' /\ NonceInv'
    BY DEF AccountsInv, NamedOwnersOwn, RunningInv, TrialInv, ActsAreAuthorised, SponsoredAsSigned, NonceInv
  <1>4. ViewInv'
    <2>. SUFFICES ASSUME NEW o \in Ops, view[o] # NoView
                  PROVE  Seen(o)'
      BY DEF ViewInv
    <2>1. Seen(o)
      BY DEF AccountsInv, ViewInv
    <2>2. Sponsor[o] # NoSponsor => now' >= Sponsor[o].after
      BY <2>1, AccountsAssumption DEF Seen, AccountsInv, TypeOK
    <2>. QED  BY <2>1, <2>2 DEF Seen
  <1>. QED  BY <1>2, <1>3, <1>4 DEF AccountsInv

\* Nothing happens to a state that does not change.
LEMMA StutterInv ==
  ASSUME AccountsInv, UNCHANGED vars
  PROVE  AccountsInv'
  <1>. USE DEF vars
  <1>1. TypeOK'
    <2>1. World' = World
      BY DEF World
    <2>. QED  BY <2>1 DEF AccountsInv, TypeOK
  <1>2. NamedOwnersOwn' /\ RunningInv' /\ TrialInv' /\ ActsAreAuthorised' /\ SponsoredAsSigned' /\ NonceInv'
    BY DEF AccountsInv, NamedOwnersOwn, RunningInv, TrialInv, ActsAreAuthorised, SponsoredAsSigned, NonceInv
  <1>3. ViewInv'
    BY DEF AccountsInv, ViewInv, Seen
  <1>. QED  BY <1>1, <1>2, <1>3 DEF AccountsInv

\* The inductive invariant of the contracts: the parts of it that the theorems below
\* do not state tie the calls of a running operation to its signer, and what a
\* simulation saw to the operation's constant parts.
THEOREM InvCorrect == Spec => []AccountsInv
  <1>1. Init => AccountsInv
    BY InitInv
  <1>2. AccountsInv /\ [Next]_vars => AccountsInv'
    <2>. SUFFICES ASSUME AccountsInv, [Next]_vars
                  PROVE  AccountsInv'
      OBVIOUS
    <2>1. CASE \E b \in Bundles : HandleOps(b)
      BY <2>1, HandleOpsInv
    <2>2. CASE CallNext
      BY <2>2, CallNextInv
    <2>3. CASE EndOp
      BY <2>3, EndOpInv
    <2>4. CASE \E o \in Ops : Simulate(o)
      BY <2>4, SimulateInv
    <2>5. CASE \E u \in Owners, c \in DirectCalls : Transact(u, c)
      BY <2>5, TransactInv
    <2>6. CASE \E u \in Owners, a \in Account, c \in DirectCalls : TransactBy(u, a, c)
      BY <2>6, TransactByInv
    <2>7. CASE \E a \in Account : AddDeposit(a)
      BY <2>7, AddDepositInv
    <2>8. CASE \E u \in Owners, s \in Signers \cup {Nobody} : SetVerifyingSigner(u, s)
      BY <2>8, SetVerifyingSignerInv
    <2>9. CASE Tick
      BY <2>9, TickInv
    <2>10. CASE UNCHANGED vars
      BY <2>10, StutterInv
    <2>. QED  BY <2>1, <2>2, <2>3, <2>4, <2>5, <2>6, <2>7, <2>8, <2>9, <2>10 DEF Next
  <1>. QED  BY <1>1, <1>2, PTL DEF Spec

----------------------------------------------------------------------------
(* The properties of the runs                                              *)

\* Every variable of the contracts keeps its type, and an operation is in the bundle
\* under way exactly as long as it is validated and has no outcome.
THEOREM TypeCorrect == Spec => []TypeOK
  <1>1. AccountsInv => TypeOK
    BY DEF AccountsInv
  <1>. QED  BY <1>1, InvCorrect, PTL

\* createAccount and initialize give the account at an owner's address to that owner
\* only, whoever calls them, from wherever and how often.
THEOREM AccountsAreNamed == Spec => []NamedOwnersOwn
  <1>1. AccountsInv => NamedOwnersOwn
    BY DEF AccountsInv
  <1>. QED  BY <1>1, InvCorrect, PTL

\* _requireFromEntryPointOrOwner and _onlyOwner let an account act only for its named
\* owner, who sent the transaction or signed the operation, and a reverted operation
\* leaves no trace.
THEOREM OwnersAuthorise == Spec => []ActsAreAuthorised
  <1>1. AccountsInv => ActsAreAuthorised
    BY DEF AccountsInv
  <1>. QED  BY <1>1, InvCorrect, PTL

\* Of any operations, whatever they claim in paymasterAndData, _validatePaymasterUserOp
\* lets only those through that the signer of that time has signed, within the signed
\* window; with the nonce in getHash, each signature pays once.
THEOREM SponsorshipsHold == Spec => []SponsoredAsSigned
  <1>1. AccountsInv => SponsoredAsSigned
    BY DEF AccountsInv
  <1>. QED  BY <1>1, InvCorrect, PTL

\* What simulateValidation saw is all that handleOps checks again: with it unchanged
\* and the window open, operations of different accounts are valid in one bundle.
THEOREM BundlesFailOnlyIfStale == Spec => []BundleFailsOnlyIfStale
  <1>1. ASSUME AccountsInv, NEW b \in Bundles,
               \A i \in DOMAIN b : StillFresh(b[i]),
               \A i, j \in DOMAIN b : i # j => Op[b[i]].sender # Op[b[j]].sender,
               NEW i \in DOMAIN b
        PROVE  /\ SignatureOk(b, i)
               /\ Op[b[i]].nonce = nonce[Op[b[i]].sender] + Cardinality(Earlier(b, i))
               /\ Sponsored(b[i])
    <2>. DEFINE o == b[i]
                a == Op[o].sender
    <2>1. o \in Ops /\ a \in Account
      BY BundleFacts, OpFacts
    <2>2. /\ nonce[a] \in Nat
          /\ owner[a] \in {a[1], Nobody}
          /\ a[1] # Nobody
      <3>1. nonce[a] \in Nat
        BY <1>1, <2>1 DEF AccountsInv, TypeOK
      <3>2. owner[a] \in {a[1], Nobody}
        BY <1>1, <2>1 DEF AccountsInv, NamedOwnersOwn
      <3>. QED  BY <2>1, <3>1, <3>2, AddressFacts
    <2>3. Earlier(b, i) = {}
      <3>1. DOMAIN b = 1..Len(b) /\ i \in 1..Len(b)
        BY BundleFacts
      <3>2. \A j \in 1..(i - 1) : j \in DOMAIN b /\ j # i
        BY <3>1, BundleFacts, LenProperties
      <3>. QED  BY <1>1, <3>2 DEF Earlier
    <2>4. Cardinality(Earlier(b, i)) = 0
      BY <2>3, FS_EmptySet
    <2>5. /\ view[o] = Facts(o)
          /\ Sponsor[o] # NoSponsor => (Sponsor[o].until = 0 \/ now <= Sponsor[o].until)
      BY <1>1 DEF StillFresh
    <2>6. /\ view[o][1] = nonce[a]
          /\ view[o][2] = (a \in Deployed)
          /\ Sponsor[o] # NoSponsor => view[o][3] = verifyingSigner
          /\ view[o] # NoView
      BY <2>5 DEF Facts, NoView
    <2>7. Seen(o)
      BY <1>1, <2>1, <2>6 DEF AccountsInv, ViewInv
    <2>8. Op[o].nonce = nonce[a] + Cardinality(Earlier(b, i))
      BY <2>2, <2>4, <2>6, <2>7 DEF Seen
    <2>9. SignatureOk(b, i)
      <3>1. CASE a \in Deployed
        <4>1. Op[o].init = {} /\ owner[a] = a[1]
          BY <2>2, <2>6, <2>7, <3>1 DEF Seen, Deployed
        <4>2. OwnerOf(b, i) = owner[a]
          BY <3>1, <4>1 DEF OwnerOf
        <4>. QED  BY <2>7, <4>1, <4>2 DEF SignatureOk, Seen
      <3>2. CASE a \notin Deployed
        <4>1. Op[o].init = {a}
          BY <2>6, <2>7, <3>2 DEF Seen
        <4>2. OwnerOf(b, i) = a[1]
          BY <2>3, <3>2, <4>1 DEF OwnerOf
        <4>. QED  BY <2>7, <4>2 DEF SignatureOk, Seen
      <3>. QED  BY <3>1, <3>2
    <2>10. Sponsored(o)
      <3>1. Sponsor[o] # NoSponsor => Recovers(o)
        BY <2>6, <2>7 DEF Recovers, Seen
      <3>. QED  BY <2>5, <2>7, <3>1 DEF Sponsored, Seen
    <2>. QED  BY <2>8, <2>9, <2>10
  <1>2. AccountsInv => BundleFailsOnlyIfStale
    BY <1>1 DEF BundleFailsOnlyIfStale, Valid
  <1>. QED  BY <1>2, InvCorrect, PTL
=============================================================================
