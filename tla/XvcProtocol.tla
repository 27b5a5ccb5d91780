---------------------------- MODULE XvcProtocol ----------------------------
(***************************************************************************)
(* What the parser of mem/versal/src/xvcserver.c tells apart in the bytes  *)
(* of a client.  A request is a record:                                    *)
(*   cmd   the command name                                                *)
(*   name  bytes up to and including the ':'                               *)
(*   hdr   bytes after which the parser knows the length of the message    *)
(*   len   bytes of the whole message                                      *)
(*   out   bytes of the reply, without the status byte                     *)
(*   opts  configure only: the comma separated options                     *)
(* The byte counts are scaled down; only their order matters.              *)
(***************************************************************************)
EXTENDS Integers, Sequences

CONSTANTS Requests,  \* the requests a client may send
          Handlers   \* the optional callbacks that are not NULL

Commands == {"getinfo", "capabilities", "configure", "error", "lock",
             "unlock", "shift", "settck", "rshift", "state", "mrd", "mwr",
             "unknown"}

OptionalHandlers == {"lock", "unlock", "rshift", "state", "mrd", "mwr",
                     "flush"}

\* One option of a configure message: "locking", "status" or anything else;
\* enable is 1 for '+', 0 for '-' and -1 when the sign is missing.
Options == [opt : {"locking", "status", "other"}, enable : {-1, 0, 1}]

RequestType == [cmd : Commands, name : Nat \ {0}, hdr : Nat \ {0},
                len : Nat \ {0}, out : Nat, opts : Seq(Options)]

ASSUME RequestsAssumption ==
    /\ Requests \subseteq RequestType
    /\ \A r \in Requests : r.name <= r.hdr /\ r.hdr <= r.len
\* A text, a length and a text, a period: these replies are never empty.
ASSUME RepliesAssumption ==
    \A r \in Requests :
        r.cmd \in {"getinfo", "capabilities", "error", "settck"} => r.out > 0
ASSUME HandlersAssumption == Handlers \subseteq OptionalHandlers

\* The commands whose work is done by a callback.
Calling == {"lock", "unlock", "shift", "settck", "rshift", "state", "mrd",
            "mwr"}

\* A message whose name matches no branch of the parser: an unknown name, 30
\* bytes without ':', or a command whose callback is NULL.
Recognised(r) ==
    /\ r.cmd # "unknown"
    /\ r.cmd \in {"rshift", "state", "mrd", "mwr"} => r.cmd \in Handlers

\* What the client receives for one request.  status is "none" when the reply
\* carries no status byte; ran says that the callback was called.
Replies == [cmd : Commands, ran : BOOLEAN, status : {"none", "ok", "err"}]

=============================================================================
