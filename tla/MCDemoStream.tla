---------------------------- MODULE MCDemoStream ----------------------------
EXTENDS DemoStream

(* Requests with up to six bytes after the URL, and short ones that end early. *)
Requests ==
  {<<"x", "s", "s">> \o t : t \in UNION {[1..n -> {"x", "r", "n"}] : n \in 0..6}}
    \union UNION {[1..n -> {"x", "s", "r", "n"}] : n \in 0..3}
=============================================================================
