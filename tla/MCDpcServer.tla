----------------------------- MODULE MCDpcServer -----------------------------
(***************************************************************************)
(* An instance of DpcServer: numbers of base 2, words of one byte, so that *)
(* every message is short and the numbers above 1 still have two digits.   *)
(***************************************************************************)
EXTENDS DpcServer

Msg(cmd, nums, body) == [cmd |-> cmd, name |-> 1, nums |-> nums, body |-> body,
                         bad |-> FALSE]

MCRequests ==
    {Msg("getinfo", <<>>, 0),
     Msg("error", <<>>, 0),
     Msg("edpc", <<2>>, 0),
     Msg("idpc", <<0, 1>>, 1),
     \* More words than a packet may have, and as long as the buffer.
     Msg("idpc", <<0, 2>>, 2),
     \* Its option is refused.  It fills the buffer.
     [Msg("configure", <<3>>, 3) EXCEPT !.bad = TRUE],
     [Msg("unknown", <<>>, 0) EXCEPT !.name = 2]}
=============================================================================
