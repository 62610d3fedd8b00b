----------------------------- MODULE ApplianceMC ----------------------------
(* An instance of Appliance for TLC: a watched engine, one or two roles that *)
(* are not, with and without smoke tests and fatal failures.                 *)
EXTENDS Appliance

SomeConfigs ==
  {c \in Config : /\ c.watched => c.enabled = <<"generation">>
                  /\ c.enabled = <<"embedding">> => ~c.smoke
                  /\ c.fatal \in {{}, {"generation"}}}
=============================================================================
