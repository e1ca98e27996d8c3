----------------------------- MODULE MCAccounts -----------------------------
(* A small instance of Accounts for TLC: one account for each of two       *)
(* people, and eight operations.                                           *)
EXTENDS Accounts

CONSTANTS ana, ben, old, new, one

Ana == <<ana, one>>
Ben == <<ben, one>>
C(fn, a) == [fn |-> fn, to |-> a]

MCOp == [
  \* deploys the account, sets Storage and withdraws, which fails without a deposit
  first  |-> [sender |-> Ana, nonce |-> 0, init |-> {Ana}, via |-> "execute",
              calls |-> <<C("set", Ana), C("withdraw", Ana)>>],
  \* has the EntryPoint itself ask for the withdrawal
  plain  |-> [sender |-> Ana, nonce |-> 0, init |-> {}, via |-> "plain",
              calls |-> <<C("withdraw", Ana)>>],
  \* signed by the wrong person
  forged |-> [sender |-> Ana, nonce |-> 0, init |-> {}, via |-> "execute",
              calls |-> <<C("upgrade", Ana)>>],
  \* deploys somebody else's account on the way and tries to use it
  guest  |-> [sender |-> Ben, nonce |-> 0, init |-> {Ben}, via |-> "execute",
              calls |-> <<C("create", Ana), C("executeSet", Ana)>>],
  \* upgrades itself and deploys the other account
  own    |-> [sender |-> Ben, nonce |-> 0, init |-> {}, via |-> "execute",
              calls |-> <<C("upgrade", Ben), C("create", Ana)>>],
  \* the same as first and own, but for what they claim of their sponsorship (below)
  late   |-> [sender |-> Ana, nonce |-> 0, init |-> {Ana}, via |-> "execute",
              calls |-> <<C("set", Ana), C("withdraw", Ana)>>],
  more   |-> [sender |-> Ben, nonce |-> 1, init |-> {}, via |-> "execute",
              calls |-> <<C("upgrade", Ben), C("create", Ana)>>],
  \* sets Storage, but fails as it tries to initialise itself again
  again  |-> [sender |-> Ben, nonce |-> 1, init |-> {}, via |-> "execute",
              calls |-> <<C("set", Ben), C("initialize", Ben)>>]]

MCOps == DOMAIN MCOp
MCSignedBy == [o \in MCOps |->
  IF o \in {"guest", "own", "more", "again", "forged"} THEN ben ELSE ana]

\* One sponsorship that ends and one that starts later and has no end.  Of first's, late
\* claims that it does not end; own's is carried by more as well, whose nonce is the next.
Approval(o, until, after) == [op |-> MCOp[o], until |-> until, after |-> after]

MCSponsor == [o \in MCOps |->
  CASE o = "first" -> [by |-> old, signed |-> Approval("first", 1, 0), until |-> 1, after |-> 0]
    [] o = "late" -> [by |-> old, signed |-> Approval("first", 1, 0), until |-> 0, after |-> 0]
    [] o \in {"own", "more"} -> [by |-> new, signed |-> Approval("own", 0, 1), until |-> 0, after |-> 1]
    [] OTHER -> NoSponsor]

MCDirectCalls ==
  {C("create", Ana), C("initialize", Ana), C("executeSet", Ana), C("withdraw", Ben), C("upgrade", Ben)}
=============================================================================
