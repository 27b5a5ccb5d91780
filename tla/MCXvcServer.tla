----------------------------- MODULE MCXvcServer -----------------------------
(***************************************************************************)
(* Instances of XvcServer.  A short name is one byte, a length field one   *)
(* byte, a vector one or two bytes.                                        *)
(***************************************************************************)
EXTENDS XvcServer

Msg(cmd, name, hdr, len, out) ==
    [cmd |-> cmd, name |-> name, hdr |-> hdr, len |-> len, out |-> out,
     opts |-> <<>>]
Conf(len, options) == [Msg("configure", 1, 2, len, 0) EXCEPT !.opts = options]
Opt(o, e) == [opt |-> o, enable |-> e]

GetInfo == Msg("getinfo", 1, 1, 1, 2)
Collect == Msg("error", 1, 1, 1, 1)
Lock    == Msg("lock", 1, 1, 1, 0)
Unlock  == Msg("unlock", 1, 1, 1, 0)
Shift   == Msg("shift", 1, 2, 3, 1)
NoShift == Msg("shift", 1, 2, 2, 0)
SetTck  == Msg("settck", 1, 2, 2, 1)
RShift  == Msg("rshift", 2, 3, 4, 1)
State   == Msg("state", 1, 1, 1, 1)
Mrd     == Msg("mrd", 1, 2, 2, 1)
Mwr     == Msg("mwr", 1, 2, 3, 0)
Garbage == Msg("unknown", 2, 2, 2, 0)

BothOn   == Conf(3, <<Opt("locking", 1), Opt("status", 1)>>)
\* The first option takes effect, the second is refused, the third is not read.
HalfBad  == Conf(3, <<Opt("locking", 1), Opt("other", 1), Opt("status", 1)>>)
\* As long as the buffer; its option has neither + nor -.
FullConf == Conf(4, <<Opt("status", -1)>>)

\* An empty shift adds nothing to the batch that would have to be sent.
SessionRequests == {BothOn, HalfBad, Lock, Unlock, Collect, Shift, NoShift}
FrameRequests == {GetInfo, Shift, SetTck, RShift, State, Mrd, Mwr, Lock, FullConf, Garbage}
TinyRequests == {GetInfo}

AllHandlers == {"lock", "unlock", "rshift", "state", "mrd", "mwr", "flush"}
\* The table of mem/versal/src/xvc_mem.c.
MemHandlers == {"mrd", "mwr"}
=============================================================================
