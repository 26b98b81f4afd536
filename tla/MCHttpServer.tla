---------------------------- MODULE MCHttpServer ----------------------------
(* Two processes; one peer sends a GET and a POST whose last byte never comes, *)
(* the other posts a body.                                                     *)
EXTENDS HttpServer

CONSTANTS a, b

Get == <<"GET", "SP", "URL", "SP", "VER", "CRLF", "HDR", "CRLF",
         "HDR", "CRLF", "CRLF">>
Post == <<"POST", "SP", "URL", "SP", "VER", "CRLF", "CLEN", "CRLF", "CRLF",
          "BYTE", "BYTE">>

MCPeers == {a, b}
MCBodyLen == [c \in MCPeers |-> 2]
MCStream == [c \in MCPeers |-> IF c = a THEN Get \o Post ELSE Post]
MCCuts == [c \in MCPeers |-> IF c = a THEN {6, 8, 11, 21} ELSE {11}]

\* The hypothesis of RepliesFollowRequests.
ASSUME PeersSendRequests
=============================================================================
