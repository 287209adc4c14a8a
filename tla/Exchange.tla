------------------------------ MODULE Exchange ------------------------------
(* How one HTTP exchange with a model provider may fail, and what each      *)
(* failure tells the caller. SocketHttpTransport produces these failures    *)
(* and ModelGateway decides on them.                                        *)

Failure(code, retryable) == [code |-> code, retryable |-> retryable]

\* The stages of perform_exchange and finish_exchange, in their order.
Stages == {"request", "resolve", "connect", "tunnel", "tls", "write", "header", "body"}
NextStage ==
    [request |-> "resolve", resolve |-> "connect", connect |-> "tunnel", tunnel |-> "tls",
     tls |-> "write", write |-> "header", header |-> "body"]

\* Bytes of the model request have left the process.
Wrote(stage) == stage \in {"write", "header", "body"}

\* The stages that wait on the socket and so notice cancellation and deadlines.
Waiting(stage) == stage \in {"connect", "tunnel", "tls", "write", "header", "body"}

\* What may go wrong in each stage by itself: the request or its target is
\* refused, the name, the address, the proxy or TLS fails, the connection breaks
\* while writing, and the answer is missing, broken or too large.
RequestFailures == {Failure("EndpointPolicyDenied", FALSE)}
ResolveFailures ==
    {Failure("TransportFailed", TRUE), Failure("ModelDeadlineExceeded", TRUE),
     Failure("EndpointPolicyDenied", FALSE), Failure("CapabilityMismatch", FALSE)}
ConnectFailures == {Failure("TransportFailed", TRUE)}
TunnelFailures ==
    {Failure("TransportFailed", TRUE), Failure("TransportFailed", FALSE),
     Failure("AuthenticationFailed", FALSE), Failure("ProtocolViolation", FALSE)}
TlsFailures ==
    {Failure("CapabilityMismatch", FALSE), Failure("TransportFailed", TRUE),
     Failure("TransportFailed", FALSE)}
WriteFailures == {Failure("TransportFailed", TRUE), Failure("TransportFailed", FALSE)}
HeaderFailures ==
    {Failure("AmbiguousCompletion", FALSE), Failure("TransportFailed", TRUE),
     Failure("ResponseTooLarge", FALSE), Failure("ProtocolViolation", FALSE),
     Failure("EndpointPolicyDenied", FALSE)}
BodyFailures ==
    {Failure("TransportFailed", TRUE), Failure("ResponseTooLarge", FALSE),
     Failure("ProtocolViolation", FALSE)}

StageFailures(stage) ==
    CASE stage = "request" -> RequestFailures
      [] stage = "resolve" -> ResolveFailures
      [] stage = "connect" -> ConnectFailures
      [] stage = "tunnel" -> TunnelFailures
      [] stage = "tls" -> TlsFailures
      [] stage = "write" -> WriteFailures
      [] stage = "header" -> HeaderFailures
      [] stage = "body" -> BodyFailures

Cancelled == Failure("ModelCancelled", FALSE)

\* A stage that ran out of its own budget is a transient stall; one that was
\* clamped by the budget of the whole exchange is not.
StageDeadline == Failure("ModelDeadlineExceeded", TRUE)
TotalDeadline == Failure("ModelDeadlineExceeded", FALSE)

\* Answers of the provider that are not a response (map_http_error_status).
StatusFailures ==
    {Failure("AuthenticationFailed", FALSE), Failure("ProviderPermissionDenied", FALSE),
     Failure("InvalidModelRequest", FALSE), Failure("ResponseTooLarge", FALSE),
     Failure("TransportFailed", TRUE), Failure("RateLimited", TRUE),
     Failure("ProviderOverloaded", TRUE), Failure("ProtocolViolation", FALSE)}

\* A stream that ends without its terminal event, breaks its protocol, or
\* carries an error event of the provider.
StreamFailures ==
    {Failure("AmbiguousCompletion", FALSE), Failure("ProtocolViolation", FALSE),
     Failure("ProviderOverloaded", TRUE), Failure("RateLimited", TRUE),
     Failure("ModelDeadlineExceeded", TRUE), Failure("TransportFailed", TRUE),
     Failure("TransportFailed", FALSE)}
=============================================================================
