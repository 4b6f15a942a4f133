------------------------------- MODULE MCPipe -------------------------------
(* Instances of Pipe: two forwarders, the types of the events, and one type *)
(* no forwarder is configured for.                                          *)
EXTENDS Pipe

TwoForwarders == <<"tracing", "log">>
OneForwarder == <<"tracing">>

\* tracing, log, meter, tracing, ...
MixedTypes ==
  [e \in Events |-> CASE e % 3 = 1 -> "tracing"
                      [] e % 3 = 2 -> "log"
                      [] OTHER -> "meter"]
OneType == [e \in Events |-> "tracing"]
=============================================================================
