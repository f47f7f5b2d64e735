-------------------------- MODULE MCVisitorAccess --------------------------
(* A visitor of a protected site for model checking: a rule with WeCom for everybody,  *)
(* and one with a password or WeCom for somebody else.                                  *)
EXTENDS VisitorAccess

CONSTANTS visitor, other

Setting(ips, password, wecom, allowed) ==
  [ips |-> ips, password |-> password, wecom |-> wecom, allowed |-> allowed]

Rules == {Setting("none", FALSE, TRUE, {}), Setting("others", TRUE, TRUE, {other})}
=============================================================================
