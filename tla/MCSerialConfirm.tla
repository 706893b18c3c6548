--------------------------- MODULE MCSerialConfirm ---------------------------
(* SerialTransport with an MCU that answers only what was written to it on the  *)
(* present connection.                                                        *)
EXTENDS MCSerialTransport

VARIABLE sent   \* the commands written since the port was opened

\* The pending command is marked successful.
Confirms == current # None /\ current.success = "None" /\ current'.success = "True"

ConfirmInit == Init /\ sent = {}

ConfirmNext ==
    /\ Next
    /\ Read /\ Confirms => current.cmd \in sent
    /\ sent' = CASE conn' # conn /\ conn' = "up"         -> {}
                 [] current' # None /\ pc' # pc
                    /\ \E a \in Actor : pc'[a] = "wait"   -> sent \cup {current'.cmd}
                 [] OTHER                                -> sent

ConfirmSpec == ConfirmInit /\ [][ConfirmNext]_<<vars, sent>>
============================================================================
