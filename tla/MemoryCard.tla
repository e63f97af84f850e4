------------------------------- MODULE MemoryCard -------------------------------
(***************************************************************************)
(* What a memory card is to the driver's caller: a store of sectors.  A    *)
(* call that succeeds answers what the sector holds at that moment; one to *)
(* write has put its block there.  A write may take effect at any          *)
(* time during its call, and also when the call fails; nothing else ever   *)
(* changes a sector, and no write changes another one.  How far the driver *)
(* keeps to this when bytes go amiss is said where it is refined.          *)
(***************************************************************************)
CONSTANTS Sectors, Blocks, Nothing

VARIABLES contents,   \* the block in every sector
          call,       \* the call: what it does, where, and with what; or NoCall
          answer      \* the last call's: the block, or Failed; Nothing during a call

NoCall == <<>>
Failed == <<>>

cardVars == <<contents, call, answer>>

CardInit == contents \in [Sectors -> Blocks] /\ call = NoCall /\ answer = Nothing

\* A call begins, or the port is used for something else.
Begin(c) ==
  /\ call = NoCall
  /\ call' = c /\ answer' = Nothing
  /\ UNCHANGED contents

Commit(a, b) ==
  /\ call = <<"WriteCard", a, b>>
  /\ contents' = [contents EXCEPT ![a] = b]
  /\ UNCHANGED <<call, answer>>

Succeed(a) ==
  /\ call \in {<<"ReadCard", a>>, <<"WriteCard", a, contents[a]>>}
  /\ call' = NoCall /\ answer' = contents[a]
  /\ UNCHANGED contents

Fail ==
  /\ call # NoCall
  /\ call' = NoCall /\ answer' = Failed
  /\ UNCHANGED contents

CardNext ==
  \/ Begin(NoCall) \/ Fail
  \/ \E a \in Sectors : Begin(<<"ReadCard", a>>) \/ Succeed(a)
  \/ \E a \in Sectors, b \in Blocks : Begin(<<"WriteCard", a, b>>) \/ Commit(a, b)

CardSpec == CardInit /\ [][CardNext]_cardVars
=============================================================================
