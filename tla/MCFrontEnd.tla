----------------------------- MODULE MCFrontEnd -----------------------------
(* The instance of module FrontEnd that TLC checks: a session over TCP is about  *)
(* contacts and settings, one over Tox about groups and friend requests.       *)
EXTENDS FrontEnd

MCTyped(supported) ==
  IF supported
  THEN GroupRequests \cup Lists \cup Answers \cup {"requests"}
  ELSE Settings \cup {"add", "remove", "select", "send", "info", "connect", "save", "say", "accept"}
=============================================================================
