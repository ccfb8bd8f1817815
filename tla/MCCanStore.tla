----------------------------- MODULE MCCanStore -----------------------------
EXTENDS CanStore

MCChannels == <<"logging", "shutdown">>
MCDefault == [c \in {"logging", "shutdown"} |-> IF c = "logging" THEN 1 ELSE 2]

=============================================================================
