------------------------------ MODULE MCWallet ------------------------------
(***************************************************************************)
(* Wallet for TLC: home chain "A", counterparty "B" with a voucher for one *)
(* token of "A" outstanding from an earlier transfer.                      *)
(***************************************************************************)
EXTENDS Wallet

Withdrawal(source, amount, timeoutHeight, timeoutTime, valid) ==
    [ source |-> source, origin |-> "A", amount |-> amount, valid |-> valid,
      timeoutHeight |-> timeoutHeight, timeoutTime |-> timeoutTime ]

Never == 99

\* Of the one note: a transfer that may time out at a time between two headers,
\* or one that may time out by height and whose receiver does not parse.  Of the
\* voucher: its return, that may time out by height.
MCWithdrawals ==
    { Withdrawal("A", 2, Never, 5, TRUE),
      Withdrawal("A", 2, 2, Never, FALSE),
      Withdrawal("B", 1, 2, Never, TRUE) }

\* Enough blocks for a header above every timeout to be verified.
MCMaxHeight == [c \in {"A", "B"} |-> 4]

MCGenesisNotes == <<[asset |-> "A", amount |-> 2]>>

MCGenesisFunds ==
    [c \in {"A", "B"} |-> [o \in {"A", "B"} |->
        IF o = "A" THEN (IF c = "A" THEN 2 ELSE 1) ELSE 0]]

=============================================================================
