------------------------------ MODULE MCTarget ------------------------------
(***************************************************************************)
(* Two replicas of deployment "web", each with a successor of the same     *)
(* name of which the deployment selects only the first, and a pod that is  *)
(* itself named "web".                                                     *)
(***************************************************************************)
EXTENDS Target

CONSTANTS a, a2, b, b2, w

MCPods == {a, a2, b, b2, w}

Asks(name, created, appUser, podUser, annotation) ==
  [name |-> name, created |-> created, containers |-> <<"app", "proxy">>,
   user |-> [app |-> appUser, proxy |-> 7], group |-> [app |-> Unset, proxy |-> 7],
   podUser |-> podUser, podGroup |-> 3, annotation |-> annotation]

MCManifest == [p \in MCPods |->
  CASE p = a  -> Asks("web-0", 1, Unset, Unset, "")
    [] p = a2 -> Asks("web-0", 2, Unset, Unset, "")
    [] p = b  -> Asks("web-1", 1, 4, 5, "")
    [] p = b2 -> Asks("web-1", 3, Unset, 8, "")
    [] p = w  -> Asks("web", 1, 4, Unset, "proxy")]

\* a's PID 1 was started setuid, w's app has left the user it was started as.
MCStatus == [p \in MCPods |->
  [app |-> CASE p = a -> <<1, 0>> [] p = a2 -> <<2, 2>> [] p = b -> <<4, 4>>
             [] p = b2 -> <<8, 8>> [] p = w -> <<6, 6>>,
   proxy |-> <<7, 7>>]]

MCSelected == [web |-> {a, a2, b}]

Request(typed, type, name, command) ==
  [typed |-> typed, type |-> type, name |-> name, image |-> "busybox", container |-> "",
   override |-> Unset, command |-> command, terminal |-> FALSE]

MCRequests ==
  {Request(FALSE, "", "web", "env"), Request(FALSE, "", "", "env"),
   [Request(FALSE, "", "web", "env") EXCEPT !.image = ""],
   Request(TRUE, "po", "web", "env"), Request(TRUE, "pod", "web-0", "debug"),
   Request(TRUE, "deploy", "web", "env"), Request(TRUE, "service", "web", "env"),
   [Request(TRUE, "deployments", "web", "debug") EXCEPT !.terminal = TRUE, !.container = "app"],
   [Request(TRUE, "po", "web", "env") EXCEPT !.container = "ghost"],
   [Request(TRUE, "po", "web", "env") EXCEPT !.container = "app"],
   [Request(TRUE, "deploy", "web", "env") EXCEPT !.override = 9]}
=============================================================================
