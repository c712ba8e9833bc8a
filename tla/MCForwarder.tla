----------------------------- MODULE MCForwarder -----------------------------
EXTENDS Forwarder
CONSTANTS lsa, addr, eth1, up, x, y, mark
Names == {lsa, addr}
OneName == {lsa}
HopNames == {lsa}
Nics == {eth1}
Nonces2 == {x, y}
=============================================================================
