------------------------------ MODULE MCMcpGateway -----------------------------
(* A small instance of McpGateway for TLC: one alert, a session that is set *)
(* up through either surface, and tools called alone and in a batch.        *)
EXTENDS McpGateway, TLC

CONSTANTS a1

Subscribe(uri) == [method |-> "subscribe", uri |-> uri]
Unsubscribe(uri) == [method |-> "unsubscribe", uri |-> uri]
Tool1(tool) == [method |-> "call", tool |-> tool, alert |-> a1]

Main(credential, named, batch) ==
  [surface |-> "main", credential |-> credential, named |-> named, batch |-> batch]

App(named, batch) ==
  [surface |-> "app", credential |-> "none", named |-> named, batch |-> batch]

SomePostings ==
  {Main("viewerToken", "none", <<[method |-> "initialize"]>>),
   Main("viewerToken", "this", <<[method |-> "initialized"], Subscribe("alerts://current")>>),
   Main("viewerToken", "this", <<Unsubscribe("alerts://current"), Tool1("read_alert")>>),
   Main("operatorToken", "this", <<Tool1("dismiss_alert")>>),
   App("none", <<[method |-> "initialize"], [method |-> "initialized"]>>),
   App("this", <<Tool1("dismiss_alert"), Subscribe("alerts://current")>>)}

HandlerSymmetry == Permutations(Handler)
=============================================================================
