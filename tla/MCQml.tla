-------------------------------- MODULE MCQml --------------------------------
EXTENDS QmlWebSocketServer
AddressOf(h) == CASE h = "::0001" -> "::1" [] h = "" -> "0.0.0.0" [] OTHER -> h
=============================================================================
