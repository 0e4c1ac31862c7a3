------------------------ MODULE MCBdxTransferSession ------------------------
(***************************************************************************)
(* Instances of BdxTransferSession for TLC: one transfer with every fault, *)
(* where the counter wraps and a definite length of one byte is overrun by *)
(* the second block, and two transfers with the same sessions.             *)
(***************************************************************************)
EXTENDS BdxTransferSession

\* TransferInitData::TransferCtlFlags holds one mode.
OneMode == {{"SenderDrive"}, {"ReceiverDrive"}}
BothModes == {{"SenderDrive", "ReceiverDrive"}}

Other == {"other"}

FaultsOrAgain ==
    {[blocks |-> <<3>>, lengths |-> {0, 1}, lossy |-> TRUE, shortage |-> TRUE],
     [blocks |-> <<1, 1>>, lengths |-> {0}, lossy |-> FALSE, shortage |-> FALSE]}
=============================================================================
