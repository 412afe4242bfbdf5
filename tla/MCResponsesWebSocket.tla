------------------------ MODULE MCResponsesWebSocket ------------------------
(* One WebSocket whose retries cover statuses of every scope.               *)
EXTENDS ResponsesWebSocket

MCRetries == {"key", "service"}
=============================================================================
