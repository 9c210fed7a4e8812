------------------------------- MODULE Rails -------------------------------
(***************************************************************************)
(* How a cross-chain movement of USDC is judged by what the kit said of it: *)
(* src/funding/bridge.ts and demo/app/wallet-errors.ts.                     *)
(*                                                                         *)
(* The kit burns on the source chain and mints on Arc.  It answers with a   *)
(* result that lists the steps it took, or it throws.  All that RivoKit     *)
(* knows of the money is this answer.                                       *)
(***************************************************************************)

\* How far the money has come when the kit answers.
Stages == {"none", "burned", "minted"}

\* state: what the kit calls the result.  burn: its list of steps has a burn
\* that succeeded.  hash: the mint has a transaction hash.
Results == [how : {"resolved"}, state : {"success", "pending", "error"},
            burn : BOOLEAN, hash : BOOLEAN]

\* text: what the message of a thrown error reads like.  code: what the error
\* or its causes carry.
Throws == [how : {"thrown"}, text : {"attestation", "transport", "other"},
           code : {"none", "RESUMABLE", "4001", "WALLET_CHAIN_REJECTED",
                   "GATEWAY_BALANCE_SHORT", "INPUT", "BALANCE"}]

\* The codes of refusals to start, which the code takes for proof that nothing
\* moved: those of the checks before a transfer, and those of a prompt declined.
Preflight == {"GATEWAY_BALANCE_SHORT", "INPUT", "BALANCE"}
Declines  == {"4001", "WALLET_CHAIN_REJECTED"}
Refusals  == Preflight \cup Declines

\* What the kit may say at each stage: it lists no burn and has no mint hash
\* before there is one, it checks before it burns, and only what has burned can
\* be resumed.  After a burn it may still leave the burn out of its list, fail
\* to reach Circle, or hand on a prompt that was declined: minting on Arc takes
\* another one, and maybe a change of network.
KitMaySay(stage) ==
    {r \in Results :
       /\ r.burn => stage # "none"
       /\ r.hash => stage = "minted"
       /\ r.state = "success" => stage = "minted"}
    \cup
    {e \in Throws :
       /\ e.code \in Preflight => stage = "none"
       /\ e.code = "RESUMABLE" => stage # "none"}

\* A Gateway spend resolves with the hash of its mint or not at all, and the
\* server, which signs for the demo buyer, declines nothing.
MayAnswer(who, rail, stage) ==
    {a \in KitMaySay(stage) :
       /\ rail = "unified" /\ a.how = "resolved" => a.state = "success"
       /\ who = "demo" /\ a.how = "thrown" => a.code \notin Declines}

\* The answer reads as if the transfer had not begun: no burn among its steps,
\* Circle out of reach, or a prompt declined.
Denies(a) ==
    CASE a.how = "resolved" -> ~a.burn
      [] a.how = "thrown"   -> a.text = "transport" \/ a.code \in Declines

\* Mutant: the burn among the steps is overlooked.
interpret_NoBurn(r) ==
    IF r.state = "success" THEN "ok"
                           ELSE IF r.state = "pending" THEN "FUNDING_STUCK"
                                                       ELSE "FUNDING_FAILED"
interpret(r) ==
    IF r.state = "success" THEN "ok"
                           ELSE IF r.burn \/ r.state = "pending"
                                  THEN "FUNDING_STUCK" ELSE "FUNDING_FAILED"

classifyThrow(e) ==
    CASE e.text = "attestation" -> "FUNDING_STUCK"
      [] e.text = "transport"   -> "FUNDING_FAILED"
      [] e.text = "other"       -> e.code

\* What a rail ends with: "ok", or the code of the error it throws.  A bridge
\* goes through interpret and classifyThrow and wants the hash of its mint; a
\* Gateway spend hands on what the kit throws.
railEnds(rail, a) ==
    CASE a.how = "resolved" /\ rail = "bridge" ->
           IF interpret(a) = "ok" /\ ~a.hash THEN "no mint" ELSE interpret(a)
      [] a.how = "resolved" /\ rail = "unified" -> "ok"
      [] a.how = "thrown" /\ rail = "bridge" -> classifyThrow(a)
      [] a.how = "thrown" /\ rail = "unified" -> a.code

\* Anything that is not known to have moved nothing may be in flight.
fundsMayBeInFlight(code) == code \notin Refusals \cup {"FUNDING_FAILED"}
=============================================================================
