------------------------------ MODULE MCActors ------------------------------
EXTENDS Actors

MCPrograms == {"hello", "calculator", "counter", "request", "door", "rocket", "divider",
               "monitor", "shop", "fan out", "flow", "ping pong", "delegation", "game room",
               "distribution", "genserver", "supervisor", "chat"}
=============================================================================
