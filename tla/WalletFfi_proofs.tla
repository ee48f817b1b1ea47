--------------------------- MODULE WalletFfi_proofs ---------------------------
(***************************************************************************)
(* Each call of the C interface works with the wallet it names, for any      *)
(* number of threads, directories and calls.  The argument: a thread between *)
(* set_var and the end of init_wallet holds the lock, so nobody else sets    *)
(* the variable while it opens its files.                                   *)
(***************************************************************************)
EXTENDS WalletFfi, TLAPS

Inside(t) == call[t].step \in {"set_var", "open"}

\* A thread in the critical section holds the lock, and once it has set the
\* variable the variable is its own.
LockedIn ==
    \A t \in Threads :
      /\ Inside(t) => WALLET_INIT_LOCK = t
      /\ At(t, "open") => LEE_WALLET_HOME_DIR = call[t].request.wallet_path

FfiInv == FfiTypeOK /\ LockedIn /\ OwnWallet /\ SignedFromOwnDirectory

\* One more file of a wallet.
LEMMA OpeningGrows ==
    ASSUME NEW w \in Opening, NEW file \in Files, NEW home \in Homes
    PROVE  [f \in DOMAIN w \cup {file} |-> IF f = file THEN home ELSE w[f]] \in Opening
<1>1. PICK S \in SUBSET Files : w \in [S -> Homes]
      BY DEF Opening
<1>2. [f \in S \cup {file} |-> IF f = file THEN home ELSE w[f]] \in [S \cup {file} -> Homes]
      BY <1>1
<1>3. S \cup {file} \in SUBSET Files
      OBVIOUS
<1> QED BY <1>1, <1>2, <1>3 DEF Opening

LEMMA CompleteOpening ==
    ASSUME NEW w \in Opening, DOMAIN w = Files
    PROVE  w \in [Files -> Homes]
BY DEF Opening

LEMMA EmptyOpening == << >> \in Opening
<1>1. << >> \in [{} -> Homes]
      OBVIOUS
<1> QED BY <1>1 DEF Opening

\* What a thread does next tells how its record looks.
LEMMA CallShape ==
    ASSUME FfiTypeOK, NEW t \in Threads
    PROVE  /\ At(t, "returned") => call[t] \in [step: {"returned"}, success: BOOLEAN]
           /\ call[t].step \in {"lock", "set_var", "open"} =>
                call[t] \in [step: {"lock", "set_var", "open"}, request: Requests,
                             opened: Opening]
           /\ At(t, "send") => call[t] \in [step: {"send"}, request: Requests,
                                            opened: [Files -> Homes]]
           /\ call[t].step \in {"returned", "lock", "set_var", "open", "send"}
BY DEF FfiTypeOK, Calls, At

LEMMA FfiInitInv == FfiAssumption /\ FfiInit => FfiInv
<1> SUFFICES ASSUME FfiAssumption, FfiInit PROVE FfiInv
    OBVIOUS
<1>1. Free \in Calls /\ Free.step = "returned"
      BY DEF Free, Calls
<1>2. call \in [Threads -> Calls] /\ \A t \in Threads : At(t, "returned")
      BY <1>1 DEF FfiInit, At
<1>3. FfiTypeOK
  <2>1. calls \in [Threads -> 0 .. MaxCalls]
    <3>1. 0 \in 0 .. MaxCalls
          BY DEF FfiAssumption
    <3> QED BY <3>1 DEF FfiInit
  <2>2. sent = {} /\ poisoned = FALSE /\ WALLET_INIT_LOCK = Nothing
        BY DEF FfiInit
  <2>3. LEE_WALLET_HOME_DIR \in Homes \cup {Nothing}
        BY DEF FfiInit
  <2> QED BY <1>2, <2>1, <2>2, <2>3 DEF FfiTypeOK
<1>4. LockedIn
      BY <1>2 DEF LockedIn, Inside, At
<1>5. OwnWallet
      BY <1>2 DEF OwnWallet
<1>6. SignedFromOwnDirectory
      BY DEF SignedFromOwnDirectory, FfiInit
<1> QED BY <1>3, <1>4, <1>5, <1>6 DEF FfiInv

\* The record of one thread changes, the others stay.
LEMMA OneThread ==
    ASSUME FfiTypeOK, NEW t \in Threads, NEW c \in Calls, call' = [call EXCEPT ![t] = c]
    PROVE  /\ call' \in [Threads -> Calls]
           /\ call'[t] = c
           /\ \A u \in Threads \ {t} : call'[u] = call[u]
BY DEF FfiTypeOK

LEMMA BecomeChanges ==
    ASSUME FfiTypeOK, NEW t \in Threads, NEW step,
           [call[t] EXCEPT !.step = step] \in Calls, Become(t, step)
    PROVE  /\ call' \in [Threads -> Calls]
           /\ call'[t] = [call[t] EXCEPT !.step = step]
           /\ \A u \in Threads \ {t} : call'[u] = call[u]
BY DEF FfiTypeOK, Become

LEMMA ReturnChanges ==
    ASSUME FfiTypeOK, NEW t \in Threads, NEW success \in BOOLEAN, Return(t, success)
    PROVE  /\ call' \in [Threads -> Calls]
           /\ At(t, "returned")'
           /\ \A u \in Threads \ {t} : call'[u] = call[u]
<1>1. [step |-> "returned", success |-> success] \in Calls
      BY DEF Calls
<1>2. call' = [call EXCEPT ![t] = [step |-> "returned", success |-> success]]
      BY DEF Return
<1> QED BY <1>1, <1>2, OneThread DEF At

\* A thread that returns without touching the variable or the lock of others
\* keeps what holds of wallets and lock holders.
LEMMA ReturnKeeps ==
    ASSUME FfiInv, NEW t \in Threads, NEW success \in BOOLEAN, Return(t, success),
           UNCHANGED LEE_WALLET_HOME_DIR,
           \A u \in Threads \ {t} : Inside(u) => WALLET_INIT_LOCK' = WALLET_INIT_LOCK
    PROVE  LockedIn' /\ OwnWallet'
<1>1. /\ At(t, "returned")'
      /\ \A u \in Threads \ {t} : call'[u] = call[u]
      BY ReturnChanges DEF FfiInv
<1>2. LockedIn'
      BY <1>1 DEF FfiInv, LockedIn, Inside, At
<1>3. OwnWallet'
      BY <1>1 DEF FfiInv, OwnWallet, At
<1> QED BY <1>2, <1>3

LEMMA BeginStep ==
    ASSUME FfiAssumption, FfiInv, NEW t \in Threads, NEW request \in Requests,
           NEW step \in {"lock", "send"}, NEW opened,
           step = "lock" => opened = << >>,
           step = "send" => opened = [file \in Files |-> request.wallet_path],
           Begin(t, request, step, opened)
    PROVE  FfiInv'
<1> DEFINE c == [step |-> step, request |-> request, opened |-> opened]
<1>1. request.wallet_path \in Homes
      BY DEF Requests
<1>2. step = "lock" => opened \in Opening /\ DOMAIN opened = {}
      BY EmptyOpening
<1>3. step = "send" => /\ opened \in [Files -> Homes]
                       /\ \A file \in DOMAIN opened : opened[file] = request.wallet_path
      BY <1>1
<1>4. c \in Calls
      BY <1>2, <1>3 DEF Calls
<1>5. /\ call' \in [Threads -> Calls]
      /\ call'[t] = c
      /\ \A u \in Threads \ {t} : call'[u] = call[u]
      BY <1>4, OneThread DEF FfiInv, Begin
<1>6. calls' \in [Threads -> 0 .. MaxCalls]
  <2>1. calls[t] + 1 \in 0 .. MaxCalls
        BY DEF FfiInv, FfiTypeOK, Begin, FfiAssumption
  <2> QED BY <2>1 DEF FfiInv, FfiTypeOK, Begin
<1>7. FfiTypeOK'
      BY <1>5, <1>6 DEF FfiInv, FfiTypeOK, Begin
<1>8. LockedIn'
      BY <1>5 DEF FfiInv, LockedIn, Inside, At, Begin
<1>9. OwnWallet'
  <2>1. \A file \in DOMAIN call'[t].opened :
          call'[t].opened[file] = call'[t].request.wallet_path
        BY <1>2, <1>3, <1>5
  <2> QED BY <2>1, <1>5 DEF FfiInv, OwnWallet, At
<1>10. SignedFromOwnDirectory'
       BY DEF FfiInv, SignedFromOwnDirectory, Begin
<1> QED BY <1>7, <1>8, <1>9, <1>10 DEF FfiInv

LEMMA LockStep ==
    ASSUME FfiAssumption, FfiInv, NEW t \in Threads, lock(t)
    PROVE  FfiInv'
<1>1. \A u \in Threads : ~Inside(u)
      BY DEF lock, FfiInv, LockedIn, FfiAssumption
<1>2. SignedFromOwnDirectory'
      BY DEF FfiInv, SignedFromOwnDirectory, lock
<1>3. CASE poisoned
  <2>1. Return(t, FALSE) /\ UNCHANGED <<WALLET_INIT_LOCK, LEE_WALLET_HOME_DIR>>
        BY <1>3 DEF lock
  <2>2. LockedIn' /\ OwnWallet'
        BY <2>1, ReturnKeeps
  <2>3. FfiTypeOK'
        BY <2>1, ReturnChanges DEF FfiInv, FfiTypeOK, lock
  <2> QED BY <2>2, <2>3, <1>2 DEF FfiInv
<1>4. CASE ~poisoned
  <2>1. Become(t, "set_var") /\ WALLET_INIT_LOCK' = t /\ At(t, "lock")
        BY <1>4 DEF lock
  <2>2. call[t] \in [step: {"lock", "set_var", "open"}, request: Requests, opened: Opening]
        BY <2>1, CallShape DEF FfiInv, At
  <2>3. [call[t] EXCEPT !.step = "set_var"]
          \in [step: {"lock", "set_var", "open"}, request: Requests, opened: Opening]
        BY <2>2
  <2>4. /\ call' \in [Threads -> Calls]
        /\ call'[t] = [call[t] EXCEPT !.step = "set_var"]
        /\ \A u \in Threads \ {t} : call'[u] = call[u]
        BY <2>1, <2>3, BecomeChanges DEF FfiInv, Calls
  <2>5. FfiTypeOK'
        BY <2>1, <2>4 DEF FfiInv, FfiTypeOK, lock
  <2>6. LockedIn'
        BY <1>1, <2>1, <2>2, <2>4 DEF LockedIn, Inside, At
  <2>7. OwnWallet'
        BY <2>1, <2>2, <2>4 DEF FfiInv, OwnWallet, At
  <2> QED BY <2>5, <2>6, <2>7, <1>2 DEF FfiInv
<1> QED BY <1>3, <1>4

LEMMA SetVarStep ==
    ASSUME FfiAssumption, FfiInv, NEW t \in Threads, set_var(t)
    PROVE  FfiInv'
<1>1. call[t] \in [step: {"lock", "set_var", "open"}, request: Requests, opened: Opening]
      BY CallShape DEF FfiInv, set_var, At
<1>2. [call[t] EXCEPT !.step = "open"]
        \in [step: {"lock", "set_var", "open"}, request: Requests, opened: Opening]
      BY <1>1
<1>3. /\ call' \in [Threads -> Calls]
      /\ call'[t] = [call[t] EXCEPT !.step = "open"]
      /\ \A u \in Threads \ {t} : call'[u] = call[u]
      BY <1>2, BecomeChanges DEF FfiInv, Calls, set_var
<1>4. WALLET_INIT_LOCK = t /\ \A u \in Threads \ {t} : ~Inside(u)
      BY DEF set_var, FfiInv, LockedIn, Inside, At
<1>5. LEE_WALLET_HOME_DIR' \in Homes
      BY <1>1 DEF set_var, Requests
<1>6. FfiTypeOK'
      BY <1>3, <1>5 DEF FfiInv, FfiTypeOK, set_var
<1>7. LockedIn'
      BY <1>1, <1>3, <1>4 DEF LockedIn, Inside, At, set_var
<1>8. OwnWallet'
      BY <1>1, <1>3 DEF FfiInv, OwnWallet, At, set_var
<1>9. SignedFromOwnDirectory'
      BY DEF FfiInv, SignedFromOwnDirectory, set_var
<1> QED BY <1>6, <1>7, <1>8, <1>9 DEF FfiInv

LEMMA FetchStep ==
    ASSUME FfiAssumption, FfiInv, NEW t \in Threads, fetch_path(t)
    PROVE  FfiInv'
<1>1. call[t] \in [step: {"lock", "set_var", "open"}, request: Requests, opened: Opening]
      BY CallShape DEF FfiInv, fetch_path, At
<1>2. LEE_WALLET_HOME_DIR = call[t].request.wallet_path
      BY DEF fetch_path, FfiInv, LockedIn
<1>3. PICK file \in Files :
        call' = [call EXCEPT ![t].opened =
                   [f \in DOMAIN @ \cup {file} |-> IF f = file THEN LEE_WALLET_HOME_DIR ELSE @[f]]]
      BY DEF fetch_path
<1> DEFINE w == call[t].opened
           grown == [f \in DOMAIN w \cup {file} |-> IF f = file THEN LEE_WALLET_HOME_DIR ELSE w[f]]
<1>4. grown \in Opening
      BY <1>1, <1>2, OpeningGrows DEF Requests
<1>5. \A f \in DOMAIN grown : grown[f] = call[t].request.wallet_path
  <2>1. \A f \in DOMAIN w : w[f] = call[t].request.wallet_path
        BY DEF FfiInv, OwnWallet, fetch_path, At
  <2> QED BY <2>1, <1>2
<1> HIDE DEF grown
<1>6. [call[t] EXCEPT !.opened = grown]
        \in [step: {"lock", "set_var", "open"}, request: Requests, opened: Opening]
      BY <1>1, <1>4
<1>7. call' = [call EXCEPT ![t] = [call[t] EXCEPT !.opened = grown]]
      BY <1>3, <1>1 DEF FfiInv, FfiTypeOK, grown
<1>8. /\ call' \in [Threads -> Calls]
      /\ call'[t] = [call[t] EXCEPT !.opened = grown]
      /\ \A u \in Threads \ {t} : call'[u] = call[u]
      BY <1>6, <1>7, OneThread DEF FfiInv, Calls
<1>9. /\ call'[t].step = call[t].step
      /\ call'[t].request = call[t].request
      /\ call'[t].opened = grown
      BY <1>1, <1>8
<1>10. FfiTypeOK'
       BY <1>8 DEF FfiInv, FfiTypeOK, fetch_path
<1>11. LockedIn'
       BY <1>8, <1>9 DEF FfiInv, LockedIn, Inside, At, fetch_path
<1>12. OwnWallet'
       BY <1>5, <1>8, <1>9 DEF FfiInv, OwnWallet, At, fetch_path
<1>13. SignedFromOwnDirectory'
       BY DEF FfiInv, SignedFromOwnDirectory, fetch_path
<1> QED BY <1>10, <1>11, <1>12, <1>13 DEF FfiInv

LEMMA NewWalletStep ==
    ASSUME FfiAssumption, FfiInv, NEW t \in Threads, new_update_chain(t)
    PROVE  FfiInv'
<1>1. call[t] \in [step: {"lock", "set_var", "open"}, request: Requests, opened: Opening]
      BY CallShape DEF FfiInv, new_update_chain, At
<1>2. call[t].opened \in [Files -> Homes]
      BY <1>1, CompleteOpening DEF new_update_chain
<1>3. [call[t] EXCEPT !.step = "send"]
        \in [step: {"send"}, request: Requests, opened: [Files -> Homes]]
      BY <1>1, <1>2
<1>4. /\ call' \in [Threads -> Calls]
      /\ call'[t] = [call[t] EXCEPT !.step = "send"]
      /\ \A u \in Threads \ {t} : call'[u] = call[u]
      BY <1>3, BecomeChanges DEF FfiInv, Calls, new_update_chain
<1>5. WALLET_INIT_LOCK = t /\ \A u \in Threads \ {t} : ~Inside(u)
      BY DEF new_update_chain, FfiInv, LockedIn, Inside, At
<1>6. FfiTypeOK'
      BY <1>4 DEF FfiInv, FfiTypeOK, new_update_chain, release
<1>7. LockedIn'
      BY <1>1, <1>4, <1>5 DEF LockedIn, Inside, At
<1>8. OwnWallet'
      BY <1>1, <1>4 DEF FfiInv, OwnWallet, At, new_update_chain
<1>9. SignedFromOwnDirectory'
      BY DEF FfiInv, SignedFromOwnDirectory, new_update_chain
<1> QED BY <1>6, <1>7, <1>8, <1>9 DEF FfiInv

LEMMA InitFailsStep ==
    ASSUME FfiAssumption, FfiInv, NEW t \in Threads, NEW panic \in BOOLEAN, init_fails(t, panic)
    PROVE  FfiInv'
<1>1. WALLET_INIT_LOCK = t /\ \A u \in Threads \ {t} : ~Inside(u)
      BY DEF init_fails, FfiInv, LockedIn, Inside
<1>2. LockedIn' /\ OwnWallet'
      BY <1>1, ReturnKeeps DEF init_fails
<1>3. FfiTypeOK'
  <2>1. poisoned' \in BOOLEAN
        BY DEF init_fails, release
  <2> QED BY <2>1, ReturnChanges DEF FfiInv, FfiTypeOK, init_fails, release
<1>4. SignedFromOwnDirectory'
      BY DEF FfiInv, SignedFromOwnDirectory, init_fails
<1> QED BY <1>2, <1>3, <1>4 DEF FfiInv

LEMMA RefusedStep ==
    ASSUME FfiAssumption, FfiInv, NEW t \in Threads, bad_argument(t) \/ missing_key(t)
    PROVE  FfiInv'
<1>1. Return(t, FALSE) /\ UNCHANGED <<LEE_WALLET_HOME_DIR, WALLET_INIT_LOCK, poisoned, calls, sent>>
      BY DEF bad_argument, missing_key
<1>2. LockedIn' /\ OwnWallet'
      BY <1>1, ReturnKeeps
<1>3. FfiTypeOK'
      BY <1>1, ReturnChanges DEF FfiInv, FfiTypeOK
<1>4. SignedFromOwnDirectory'
      BY <1>1 DEF FfiInv, SignedFromOwnDirectory
<1> QED BY <1>2, <1>3, <1>4 DEF FfiInv

LEMMA SendStep ==
    ASSUME FfiAssumption, FfiInv, NEW t \in Threads, NEW received \in BOOLEAN,
           NEW success \in BOOLEAN, send_pub_tx(t, received, success)
    PROVE  FfiInv'
<1>1. call[t] \in [step: {"send"}, request: Requests, opened: [Files -> Homes]]
      BY CallShape DEF FfiInv, send_pub_tx
<1>2. sent' \subseteq sent \cup {Transaction(t)}
      BY DEF send_pub_tx
<1>3. Transaction(t) \in [by: Threads \X (0 .. MaxCalls), request: Requests,
                          wallet: [Files -> Homes]]
      BY <1>1 DEF Transaction, FfiInv, FfiTypeOK
<1>4. LockedIn' /\ OwnWallet'
      BY ReturnKeeps DEF send_pub_tx
<1>5. FfiTypeOK'
      BY <1>2, <1>3, ReturnChanges DEF FfiInv, FfiTypeOK, send_pub_tx
<1>6. SignedFromOwnDirectory'
  <2> SUFFICES ASSUME NEW tx \in sent', tx = Transaction(t),
                      \E i \in DOMAIN tx.request.op.accounts :
                        tx.request.op.accounts[i] = "distributor"
               PROVE  tx.request.distributor \in signing_keys[tx.request.wallet_path]
      BY <1>2 DEF FfiInv, SignedFromOwnDirectory
  <2>1. tx.request = call[t].request
        BY DEF Transaction
  <2>2. tx.request.op \in Operations
        BY <2>1, <1>1 DEF Requests
  <2>3. tx.request.op.signs
        BY <2>2 DEF Operations, distributionx_init_airdrop_impl, distributionx_fund_impl,
              distributionx_claim_impl, distributionx_claim_private_impl, distributionx_close_impl
  <2>4. call[t].opened["storage"] = call[t].request.wallet_path
        BY <1>1 DEF FfiInv, OwnWallet, At, Files
  <2> QED BY <2>1, <2>3, <2>4 DEF send_pub_tx, has_signing_key
<1> QED BY <1>4, <1>5, <1>6 DEF FfiInv

LEMMA FfiStep == FfiAssumption /\ FfiInv /\ [FfiNext]_ffiVars => FfiInv'
<1> SUFFICES ASSUME FfiAssumption, FfiInv, [FfiNext]_ffiVars PROVE FfiInv'
    OBVIOUS
<1>1. CASE UNCHANGED ffiVars
      BY <1>1 DEF FfiInv, FfiTypeOK, LockedIn, OwnWallet, SignedFromOwnDirectory, Inside, At, ffiVars
<1>2. ASSUME NEW t \in Threads, NEW request \in Requests, ffi_call(t, request)
      PROVE  FfiInv'
      BY <1>2, BeginStep DEF ffi_call
<1>3. ASSUME NEW t \in Threads, NEW request \in Requests, client_call(t, request)
      PROVE  FfiInv'
      BY <1>3, BeginStep DEF client_call
<1>4. ASSUME NEW t \in Threads, Step(t) PROVE FfiInv'
      BY <1>4, LockStep, SetVarStep, FetchStep, NewWalletStep, InitFailsStep, RefusedStep, SendStep
         DEF Step
<1> QED BY <1>1, <1>2, <1>3, <1>4 DEF FfiNext

\* Every state of a process that uses the C interface is well typed: in particular
\* a call never sends before all three files of its wallet are open (init_wallet).
THEOREM FfiTypeCorrect == FfiSpec => []FfiTypeOK
<1>1. FfiSpec => []FfiInv
      BY FfiAssumption, FfiInitInv, FfiStep, PTL DEF FfiSpec
<1>2. FfiInv => FfiTypeOK
      BY DEF FfiInv
<1> QED BY <1>1, <1>2, PTL

\* However many threads call with whatever directories, each wallet is opened from
\* the directory its own call names (init_wallet, WALLET_INIT_LOCK).
THEOREM WalletsAreOwn == FfiSpec => []OwnWallet
<1>1. FfiSpec => []FfiInv
      BY FfiAssumption, FfiInitInv, FfiStep, PTL DEF FfiSpec
<1>2. FfiInv => OwnWallet
      BY DEF FfiInv
<1> QED BY <1>1, <1>2, PTL

\* No transaction that names a distributor is sent without that distributor's key
\* being in the directory the call names (the distributionx_*_impl functions).
THEOREM SignersAreOwn == FfiSpec => []SignedFromOwnDirectory
<1>1. FfiSpec => []FfiInv
      BY FfiAssumption, FfiInitInv, FfiStep, PTL DEF FfiSpec
<1>2. FfiInv => SignedFromOwnDirectory
      BY DEF FfiInv
<1> QED BY <1>1, <1>2, PTL


-----------------------------------------------------------------------------
(* Calls end.  What a call still has to do is counted, each step it takes by
   itself leaves less, and nobody else's step changes it; so the fairness of its
   thread brings it to its end.  That a step can be taken (NoCallStuck) is a
   hypothesis, as no prover here looks into ENABLED.                         *)

Unread(file, wallet) == IF file \in DOMAIN wallet THEN 0 ELSE 1

StepsLeft(c) ==
    IF c.step = "returned" THEN 0
    ELSE IF c.step = "send" THEN 1
    ELSE IF c.step = "open"
      THEN 2 + Unread("config", c.opened) + Unread("storage", c.opened)
             + Unread("statistics", c.opened)
    ELSE IF c.step = "set_var" THEN 6
    ELSE 7

Left(t) == StepsLeft(call[t])

LEMMA FfiInvHolds == FfiSpec => []FfiInv
BY FfiAssumption, FfiInitInv, FfiStep, PTL DEF FfiSpec

LEMMA LeftTyped ==
    ASSUME FfiInv, NEW t \in Threads
    PROVE  /\ Left(t) \in 0 .. 7
           /\ Left(t) = 0 <=> At(t, "returned")
           /\ Left(t) = 7 <=> At(t, "lock")
           /\ Inside(t) <=> Left(t) \in 2 .. 6
<1>1. call[t].step \in {"returned", "lock", "set_var", "open", "send"}
      BY CallShape DEF FfiInv
<1> QED BY <1>1 DEF Left, StepsLeft, Unread, At, Inside

\* Another step of a call, and what it has left then.
LEMMA BecomeLowers ==
    ASSUME FfiInv, NEW t \in Threads, NEW step \in {"set_var", "open", "send"},
           Become(t, step),
           \/ At(t, "lock") /\ step = "set_var"
           \/ At(t, "set_var") /\ step = "open"
           \/ At(t, "open") /\ step = "send"
    PROVE  Left(t)' < Left(t)
<1>1. call[t] \in [step: {"lock", "set_var", "open"}, request: Requests, opened: Opening]
      BY CallShape DEF FfiInv, At
<1>2. call'[t] = [call[t] EXCEPT !.step = step]
      BY DEF FfiInv, FfiTypeOK, Become
<1>3. call'[t].step = step
      BY <1>1, <1>2
<1> QED BY <1>3 DEF Left, StepsLeft, Unread, At

\* Reading one more of the three files.
LEMMA FetchLowers ==
    ASSUME FfiInv, NEW t \in Threads, fetch_path(t)
    PROVE  Left(t)' < Left(t)
<1>1. call[t] \in [step: {"lock", "set_var", "open"}, request: Requests, opened: Opening]
      BY CallShape DEF FfiInv, fetch_path, At
<1>2. PICK file \in Files \ DOMAIN call[t].opened :
        call' = [call EXCEPT ![t].opened =
                   [f \in DOMAIN @ \cup {file} |-> IF f = file THEN LEE_WALLET_HOME_DIR ELSE @[f]]]
      BY DEF fetch_path
<1> DEFINE w == call[t].opened
           grown == [f \in DOMAIN w \cup {file} |-> IF f = file THEN LEE_WALLET_HOME_DIR ELSE w[f]]
<1>3. call'[t] = [call[t] EXCEPT !.opened = grown]
      BY <1>2 DEF FfiInv, FfiTypeOK
<1>4. DOMAIN grown = DOMAIN w \cup {file}
      OBVIOUS
<1> HIDE DEF grown
<1>5. call'[t].step = "open" /\ call'[t].opened = grown
      BY <1>1, <1>3 DEF fetch_path, At
<1>6. /\ Unread("config", grown) <= Unread("config", w)
      /\ Unread("storage", grown) <= Unread("storage", w)
      /\ Unread("statistics", grown) <= Unread("statistics", w)
      BY <1>4 DEF Unread
<1>7. \/ Unread("config", grown) < Unread("config", w)
      \/ Unread("storage", grown) < Unread("storage", w)
      \/ Unread("statistics", grown) < Unread("statistics", w)
      BY <1>2, <1>4 DEF Unread, Files
<1>8. \A name, wallet : Unread(name, wallet) \in {0, 1}
      BY DEF Unread
<1>9. /\ Left(t)' = 2 + Unread("config", grown) + Unread("storage", grown)
                      + Unread("statistics", grown)
      /\ Left(t) = 2 + Unread("config", w) + Unread("storage", w) + Unread("statistics", w)
      BY <1>5 DEF Left, StepsLeft, fetch_path, At
<1>10. PICK a, b, c \in {0, 1} : /\ a = Unread("config", w) /\ b = Unread("storage", w)
                                 /\ c = Unread("statistics", w)
       BY <1>8
<1>11. PICK x, y, z \in {0, 1} : /\ x = Unread("config", grown) /\ y = Unread("storage", grown)
                                 /\ z = Unread("statistics", grown)
       BY <1>8
<1>12. x <= a /\ y <= b /\ z <= c /\ (x < a \/ y < b \/ z < c)
       BY <1>6, <1>7, <1>10, <1>11
<1>13. 2 + x + y + z < 2 + a + b + c
       BY <1>12
<1> QED BY <1>9, <1>10, <1>11, <1>13

\* Each step of a call leaves it less to do.
LEMMA StepLowers ==
    ASSUME FfiInv, NEW t \in Threads, Step(t)
    PROVE  ~At(t, "returned") /\ Left(t)' < Left(t)
<1>1. ~At(t, "returned")
      BY DEF Step, lock, set_var, fetch_path, new_update_chain, init_fails, bad_argument,
             missing_key, send_pub_tx, At
<1>2. ASSUME NEW success \in BOOLEAN, Return(t, success)
      PROVE  Left(t)' < Left(t)
  <2>1. Left(t)' = 0
        BY <1>2, ReturnChanges DEF FfiInv, Left, StepsLeft, At
  <2> QED BY <1>1, <2>1, LeftTyped
<1>3. CASE lock(t)
      BY <1>1, <1>2, <1>3, BecomeLowers DEF lock
<1>4. CASE set_var(t)
      BY <1>1, <1>4, BecomeLowers DEF set_var
<1>5. CASE fetch_path(t)
      BY <1>1, <1>5, FetchLowers
<1>6. CASE new_update_chain(t)
      BY <1>1, <1>6, BecomeLowers DEF new_update_chain
<1>7. CASE bad_argument(t) \/ missing_key(t) \/ \E panic \in BOOLEAN : init_fails(t, panic)
      BY <1>1, <1>2, <1>7 DEF bad_argument, missing_key, init_fails
<1>8. CASE \E received, success \in BOOLEAN : send_pub_tx(t, received, success)
      BY <1>1, <1>2, <1>8 DEF send_pub_tx
<1> QED BY <1>1, <1>3, <1>4, <1>5, <1>6, <1>7, <1>8 DEF Step

\* No other thread changes where a call is.
LEMMA OthersLeaveCall ==
    ASSUME FfiInv, NEW t \in Threads, ~At(t, "returned"), [FfiNext]_ffiVars, ~Step(t)
    PROVE  call'[t] = call[t]
<1>0. call \in [Threads -> Calls]
      BY DEF FfiInv, FfiTypeOK
<1>1. ASSUME NEW u \in Threads, NEW request \in Requests,
             ffi_call(u, request) \/ client_call(u, request)
      PROVE  call'[t] = call[t]
  <2>1. u # t /\ \E c : call' = [call EXCEPT ![u] = c]
        BY <1>1 DEF ffi_call, client_call, Begin
  <2> QED BY <1>0, <2>1
<1>2. ASSUME NEW u \in Threads, Step(u)
      PROVE  call'[t] = call[t]
  <2>1. u # t
        BY <1>2
  <2> QED BY <1>0, <1>2, <2>1 DEF Step, lock, set_var, fetch_path, new_update_chain, init_fails,
             bad_argument, missing_key, send_pub_tx, Become, Return
<1>3. CASE UNCHANGED ffiVars
      BY <1>3 DEF ffiVars
<1> QED BY <1>1, <1>2, <1>3 DEF FfiNext

CallsGoForward ==
    [][\A t \in Threads : ~At(t, "returned") =>
         call'[t] = call[t] \/ Left(t)' < Left(t)]_ffiVars

\* A running call only ever goes forward, whatever other threads do and whichever
\* of its steps fail: it passes the lock once, opens each file once and sends at
\* most one transaction (the distributionx_*_impl functions, init_wallet).
THEOREM CallsOnlyGoForward == FfiSpec => CallsGoForward
<1> DEFINE Forward == \A t \in Threads : ~At(t, "returned") =>
                        call'[t] = call[t] \/ Left(t)' < Left(t)
<1>1. FfiInv /\ [FfiNext]_ffiVars => [Forward]_ffiVars
      BY StepLowers, OthersLeaveCall
<1> QED BY <1>1, FfiInvHolds, PTL DEF FfiSpec, CallsGoForward

\* The lock is held by a thread inside init_wallet or by nobody: a call that
\* returns, by a panic or otherwise, does not take it along.
HolderIsInside ==
    WALLET_INIT_LOCK # Nothing => \E t \in Threads : WALLET_INIT_LOCK = t /\ Inside(t)

LEMMA HolderStep ==
    ASSUME FfiAssumption, FfiInv, HolderIsInside, [FfiNext]_ffiVars
    PROVE  HolderIsInside'
<1>0. call \in [Threads -> Calls]
      BY DEF FfiInv, FfiTypeOK
<1>1. ASSUME NEW t \in Threads, Step(t)
      PROVE  HolderIsInside'
  <2>1. CASE lock(t) /\ ~poisoned
    <3>1. WALLET_INIT_LOCK' = t /\ Become(t, "set_var") /\ At(t, "lock")
          BY <2>1 DEF lock
    <3>2. call[t] \in [step: {"lock", "set_var", "open"}, request: Requests, opened: Opening]
          BY <3>1, CallShape DEF FfiInv, At
    <3>3. call'[t].step = "set_var"
          BY <1>0, <3>1, <3>2 DEF Become
    <3> QED BY <3>1, <3>3 DEF HolderIsInside, Inside
  <2>2. CASE lock(t) /\ poisoned
        BY <2>2 DEF lock, HolderIsInside, FfiAssumption
  <2>3. CASE set_var(t)
    <3>1. call[t] \in [step: {"lock", "set_var", "open"}, request: Requests, opened: Opening]
          BY <2>3, CallShape DEF FfiInv, At, set_var
    <3>2. call'[t].step = "open" /\ \A u \in Threads \ {t} : call'[u] = call[u]
          BY <1>0, <2>3, <3>1 DEF Become, set_var
    <3> QED BY <2>3, <3>2 DEF HolderIsInside, Inside, set_var
  <2>4. CASE fetch_path(t)
    <3>1. call[t] \in [step: {"lock", "set_var", "open"}, request: Requests, opened: Opening]
          BY <2>4, CallShape DEF FfiInv, At, fetch_path
    <3>2. \A u \in Threads : call'[u].step = call[u].step
          BY <1>0, <2>4, <3>1 DEF fetch_path
    <3> QED BY <2>4, <3>2 DEF HolderIsInside, Inside, fetch_path
  <2>5. CASE new_update_chain(t) \/ \E panic \in BOOLEAN : init_fails(t, panic)
        BY <2>5 DEF HolderIsInside, new_update_chain, init_fails, release
  <2>6. CASE \/ bad_argument(t) \/ missing_key(t)
             \/ \E received, success \in BOOLEAN : send_pub_tx(t, received, success)
    <3>1. At(t, "send") /\ UNCHANGED WALLET_INIT_LOCK
          BY <2>6 DEF bad_argument, missing_key, send_pub_tx
    <3>2. \A u \in Threads \ {t} : call'[u] = call[u]
          BY <1>0, <2>6 DEF bad_argument, missing_key, send_pub_tx, Return
    <3> QED BY <3>1, <3>2 DEF HolderIsInside, Inside, At
  <2> QED BY <1>1, <2>1, <2>2, <2>3, <2>4, <2>5, <2>6 DEF Step
<1>2. ASSUME NEW t \in Threads, NEW request \in Requests,
             ffi_call(t, request) \/ client_call(t, request)
      PROVE  HolderIsInside'
  <2>1. /\ At(t, "returned") /\ UNCHANGED WALLET_INIT_LOCK
        /\ \E c : call' = [call EXCEPT ![t] = c]
        BY <1>2 DEF ffi_call, client_call, Begin
  <2>2. \A u \in Threads \ {t} : call'[u] = call[u]
        BY <1>0, <2>1
  <2> QED BY <2>1, <2>2 DEF HolderIsInside, Inside, At
<1>3. CASE UNCHANGED ffiVars
      BY <1>3 DEF HolderIsInside, Inside, ffiVars
<1> QED BY <1>1, <1>2, <1>3 DEF FfiNext

\* A poisoned lock strands nobody: the thread that panicked has let go of it
\* (ffi_call catches the panic after the guard is dropped).
THEOREM LockIsHeldInside == FfiSpec => []HolderIsInside
<1>1. FfiInit => HolderIsInside
      BY DEF FfiInit, HolderIsInside
<1>2. FfiInv /\ HolderIsInside /\ [FfiNext]_ffiVars => HolderIsInside'
      BY FfiAssumption, HolderStep
<1> QED BY <1>1, <1>2, FfiInvHolds, PTL DEF FfiSpec

\* The lock is not handed from thread to thread: it is free in between.
LEMMA LockIsFreeBetween ==
    ASSUME FfiAssumption, FfiInv, [FfiNext]_ffiVars, NEW t \in Threads, WALLET_INIT_LOCK = t
    PROVE  WALLET_INIT_LOCK' \in {t, Nothing}
BY DEF FfiAssumption, FfiNext, ffiVars, ffi_call, client_call, Begin, Step, lock, set_var,
       fetch_path, new_update_chain, init_fails, release, bad_argument, missing_key, send_pub_tx

\* One stage: with the fairness of its thread, a call past the lock with at most n
\* steps left comes to have at most m, one fewer.
Drops(t, n, m) == Left(t) <= n ~> Left(t) <= m

LEMMA StageEnds ==
    ASSUME NEW t \in Threads, NEW n \in 1 .. 6, NEW m \in 0 .. 5, m + 1 = n
    PROVE  FairFfiSpec /\ []NoCallStuck => Drops(t, n, m)
<1>a. FfiInv => Left(t) \in 0 .. 7
      BY LeftTyped
<1>b. FfiInv' => (Left(t) \in 0 .. 7)'
      BY <1>a, PTL
<1>1. FairFfiSpec => RunsOn(t)
      BY DEF FairFfiSpec
<1>2. FfiInv /\ NoCallStuck /\ Left(t) <= n /\ ~ Left(t) <= m => ENABLED <<Step(t)>>_ffiVars
  <2> SUFFICES ASSUME FfiInv, NoCallStuck, Left(t) <= n, ~ Left(t) <= m
               PROVE  ENABLED <<Step(t)>>_ffiVars
      OBVIOUS
  <2>1. ~At(t, "returned") /\ ~At(t, "lock")
        BY LeftTyped
  <2> QED BY <2>1 DEF NoCallStuck
<1>3. FfiInv /\ FfiInv' /\ [FfiNext]_ffiVars /\ Left(t) <= n /\ ~ Left(t) <= m
        => (Left(t) <= n)'
  <2> SUFFICES ASSUME FfiInv, FfiInv', [FfiNext]_ffiVars, Left(t) <= n, ~ Left(t) <= m
               PROVE  Left(t)' <= n
      OBVIOUS
  <2>1. Left(t) \in 0 .. 7 /\ Left(t)' \in 0 .. 7 /\ ~At(t, "returned")
        BY <1>a, <1>b, LeftTyped
  <2>2. Left(t)' = Left(t) \/ Left(t)' < Left(t)
        BY <2>1, StepLowers, OthersLeaveCall DEF Left
  <2> QED BY <2>1, <2>2
<1>4. FfiInv /\ FfiInv' /\ <<Step(t)>>_ffiVars /\ Left(t) <= n => (Left(t) <= m)'
  <2> SUFFICES ASSUME FfiInv, FfiInv', Step(t), Left(t) <= n
               PROVE  Left(t)' <= m
      OBVIOUS
  <2>1. Left(t) \in 0 .. 7 /\ Left(t)' \in 0 .. 7 /\ Left(t)' < Left(t)
        BY <1>a, <1>b, StepLowers
  <2> QED BY <2>1
<1>5. FairFfiSpec => [][FfiNext]_ffiVars /\ []FfiInv
      BY FfiInvHolds, PTL DEF FairFfiSpec, FfiSpec
<1> QED BY <1>1, <1>2, <1>3, <1>4, <1>5, PTL DEF RunsOn, Drops

\* A call past the lock returns.
PastLockReturns(t) == Left(t) <= 6 ~> At(t, "returned")

LEMMA PastLockEnds ==
    ASSUME NEW t \in Threads
    PROVE  FairFfiSpec /\ []NoCallStuck => PastLockReturns(t)
<1> DEFINE Live == FairFfiSpec /\ []NoCallStuck
<1>6. Live => Drops(t, 6, 5)
      BY StageEnds
<1>5. Live => Drops(t, 5, 4)
      BY StageEnds
<1>4. Live => Drops(t, 4, 3)
      BY StageEnds
<1>3. Live => Drops(t, 3, 2)
      BY StageEnds
<1>2. Live => Drops(t, 2, 1)
      BY StageEnds
<1>1. Live => Drops(t, 1, 0)
      BY StageEnds
<1>7. FfiInv => (Left(t) <= 0 => At(t, "returned"))
      BY LeftTyped
<1>8. Live => []FfiInv
      BY FfiInvHolds, PTL DEF FairFfiSpec
<1> QED BY <1>1, <1>2, <1>3, <1>4, <1>5, <1>6, <1>7, <1>8, PTL DEF Drops, PastLockReturns

\* A call that has passed the lock, or needs none, returns, whatever the other
\* threads do and however many calls they make (the distributionx_*_impl functions,
\* DistributionxClient).
THEOREM CallsPastTheLockReturn ==
    FairFfiSpec /\ []NoCallStuck
      => \A t \in Threads : (~At(t, "returned") /\ ~At(t, "lock")) ~> At(t, "returned")
<1> SUFFICES ASSUME NEW t \in Threads
             PROVE  FairFfiSpec /\ []NoCallStuck
                      => ((~At(t, "returned") /\ ~At(t, "lock")) ~> At(t, "returned"))
    OBVIOUS
<1>1. FairFfiSpec /\ []NoCallStuck => PastLockReturns(t)
      BY PastLockEnds
<1>2. FfiInv /\ ~At(t, "lock") => Left(t) <= 6
      BY LeftTyped
<1>3. FairFfiSpec => []FfiInv
      BY FfiInvHolds, PTL DEF FairFfiSpec
<1> QED BY <1>1, <1>2, <1>3, PTL DEF PastLockReturns

\* A thread that holds the lock gives it back.
GivesBack(t) == WALLET_INIT_LOCK = t => <>(WALLET_INIT_LOCK = Nothing)

LEMMA HolderGivesBack ==
    ASSUME NEW t \in Threads
    PROVE  FairFfiSpec /\ []NoCallStuck => []GivesBack(t)
<1>1. FairFfiSpec /\ []NoCallStuck => PastLockReturns(t)
      BY PastLockEnds
<1>2. FfiInv /\ HolderIsInside /\ WALLET_INIT_LOCK = t
        => Left(t) <= 6 /\ ~At(t, "returned")
  <2> SUFFICES ASSUME FfiInv, HolderIsInside, WALLET_INIT_LOCK = t
               PROVE  Left(t) <= 6 /\ ~At(t, "returned")
      OBVIOUS
  <2>1. Inside(t)
        BY FfiAssumption DEF HolderIsInside, FfiAssumption
  <2> QED BY <2>1, LeftTyped
<1>3. FfiInv /\ [FfiNext]_ffiVars /\ WALLET_INIT_LOCK = t
        => (WALLET_INIT_LOCK = t \/ WALLET_INIT_LOCK = Nothing)'
      BY FfiAssumption, LockIsFreeBetween
<1>4. FairFfiSpec => []FfiInv /\ []HolderIsInside /\ [][FfiNext]_ffiVars
      BY FfiInvHolds, LockIsHeldInside, PTL DEF FairFfiSpec, FfiSpec
<1> QED BY <1>1, <1>2, <1>3, <1>4, PTL DEF PastLockReturns, GivesBack

\* The lock is free again and again: no thread keeps it, however its call ends
\* (ffi_call, init_wallet).
THEOREM LockIsGivenBack ==
    FairFfiSpec /\ []NoCallStuck => []<>(WALLET_INIT_LOCK = Nothing)
<1>1. FairFfiSpec /\ []NoCallStuck => \A t \in Threads : []GivesBack(t)
      BY HolderGivesBack
<1>2. (\A t \in Threads : []GivesBack(t)) => [](\A t \in Threads : GivesBack(t))
      OBVIOUS
<1>3. (\A t \in Threads : GivesBack(t))
        => (WALLET_INIT_LOCK \in Threads => <>(WALLET_INIT_LOCK = Nothing))
      BY DEF GivesBack
<1>4. FfiInv => WALLET_INIT_LOCK \in Threads \/ WALLET_INIT_LOCK = Nothing
      BY DEF FfiInv, FfiTypeOK
<1>5. FairFfiSpec => []FfiInv
      BY FfiInvHolds, PTL DEF FairFfiSpec
<1> QED BY <1>1, <1>2, <1>3, <1>4, <1>5, PTL

\* A lock that serves each thread that waits for it.  The standard library's does
\* not promise this: without it, threads that call without end might keep another
\* one waiting.
Served(t) == SF_ffiVars(Step(t))
FairLockSpec == FfiSpec /\ \A t \in Threads : Served(t)

\* Every call returns where the lock is fair, however many calls each thread makes
\* (ffi_call, init_wallet).
THEOREM CallsReturnIfTheLockIsFair == FairLockSpec /\ []NoCallStuck => EveryCallReturns
<1>1. FairLockSpec => FairFfiSpec
  <2>1. ASSUME NEW t \in Threads PROVE Served(t) => RunsOn(t)
        BY PTL DEF Served, RunsOn
  <2> QED BY <2>1 DEF FairLockSpec, FairFfiSpec
<1> SUFFICES ASSUME NEW t \in Threads
             PROVE  FairLockSpec /\ []NoCallStuck => (~At(t, "returned") ~> At(t, "returned"))
    BY DEF EveryCallReturns
<1>2. FairFfiSpec /\ []NoCallStuck => PastLockReturns(t)
      BY PastLockEnds
<1>3. FairLockSpec => Served(t)
      BY DEF FairLockSpec
<1>4. FfiInv /\ NoCallStuck /\ At(t, "lock") /\ WALLET_INIT_LOCK = Nothing
        => ENABLED <<Step(t)>>_ffiVars
  <2> SUFFICES ASSUME NoCallStuck, At(t, "lock"), WALLET_INIT_LOCK = Nothing
               PROVE  ENABLED <<Step(t)>>_ffiVars
      OBVIOUS
  <2>1. ~At(t, "returned") /\ ~ \E u \in Threads : WALLET_INIT_LOCK = u
        BY FfiAssumption DEF At, FfiAssumption
  <2> QED BY <2>1 DEF NoCallStuck
<1>5. FfiInv /\ FfiInv' /\ <<Step(t)>>_ffiVars /\ At(t, "lock") => (~At(t, "lock"))'
  <2>1. FfiInv => (Left(t) \in 0 .. 7 /\ (Left(t) = 7 <=> At(t, "lock")))
        BY LeftTyped
  <2>2. FfiInv' => (Left(t) \in 0 .. 7 /\ (Left(t) = 7 <=> At(t, "lock")))'
        BY <2>1, PTL
  <2>3. FfiInv /\ Step(t) => Left(t)' < Left(t)
        BY StepLowers
  <2> QED BY <2>1, <2>2, <2>3
<1>6. FfiInv /\ ~At(t, "lock") => Left(t) <= 6
      BY LeftTyped
<1>7. FairFfiSpec => []FfiInv
      BY FfiInvHolds, PTL DEF FairFfiSpec
<1> QED BY <1>1, <1>2, <1>3, <1>4, <1>5, <1>6, <1>7, LockIsGivenBack, PTL
       DEF Served, PastLockReturns

=============================================================================
