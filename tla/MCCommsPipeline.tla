--------------------------- MODULE MCCommsPipeline ---------------------------
(* Instances of CommsPipeline for TLC: what the ground may send. *)
EXTENDS CommsPipeline

Frame(k, c) == [kind |-> k, cmds |-> c]
Data(c)     == Frame("data", c)

\* To connect: as planned, or with the noise of the link.
Conn  == {Frame("conn", <<>>)}
Noisy == {Frame("conn", <<>>), Frame("corrupt", <<>>)}

\* Afterwards.
OneAnswer == {Data(<<"ping">>), Data(<<"refused", "ping">>)}
AllKinds  == {Data(<<"ping", "ping">>), Data(<<"telem", "ping">>), Data(<<"tagged">>),
              Frame("disc", <<"ping">>), Frame("ack", <<>>), Frame("conn", <<>>),
              Frame("corrupt", <<>>)}
=============================================================================
