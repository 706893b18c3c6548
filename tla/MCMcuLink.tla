----------------------------- MODULE MCMcuLink -----------------------------
(* Small instances of McuLink for TLC.                                      *)
EXTENDS McuLink

CONSTANTS d1, n1

MCPayload == {d1}
MCNonce == {n1}

\* Everything the dispatch table knows, and one command it does not.
AllCommands == StatusCode \cup {"CMD_LINK_SYNC", "CMD_LINK_RESET", "CMD_GET_CAPABILITIES",
                                "CMD_XOFF", "CMD_XON", "CMD_DIGITAL_WRITE",
                                "CMD_DIGITAL_READ", "CMD_MAILBOX_READ_RESP",
                                "CMD_DIGITAL_READ_RESP"}

\* What the daemon sends: flow control is one way, from the MCU.
DaemonCommands == AllCommands \ {"CMD_XOFF", "CMD_XON"}
============================================================================
