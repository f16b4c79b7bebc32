--------------------------- MODULE CommandRegistry ---------------------------
(***************************************************************************)
(* Which fields of a command cross the wire.  A client turns a command     *)
(* into the params of a request by the registry's toParams; the server     *)
(* checks the params against the command's schema and reads it again by    *)
(* fromParams.  Here a command is the set of the names of its fields.      *)
(*   domain/protocol/{command-registry,wire-*,protocol-helpers}.ts         *)
(***************************************************************************)
EXTENDS TLC

\* The schemas: what params must and what they may hold, nothing else.
Params(must, may) == [must |-> must, may |-> may]
MessageParams == Params({"target", "message"}, {"instructions"})

MessageSchemas ==
  [send      |-> Params({"content"}, {"instructions", "origin", "kind", "sentAt", "replyTo", "delivery"}),
   interrupt |-> Params({"payload"}, {}),
   subscribe |-> Params({"event"}, {})]
StatusSchemas ==
  [member_status              |-> Params({"member"}, {}),
   member_status_target       |-> Params({"target"}, {}),
   member_last_message_target |-> Params({"target"}, {}),
   presence_hint              |-> Params({"member", "state", "instanceId"}, {})]
DeliverySchemas == [member_follow_up |-> MessageParams, member_redirect |-> MessageParams]
InterruptSchema == [member_interrupt |-> MessageParams]
DurableSchemas ==
  [member_inbox_send |-> MessageParams, crew_broadcast |-> Params({"message"}, {"instructions"})]
RequestSchemas ==
  [member_request       |-> Params({"requestId", "payload", "timeoutSeconds"}, {"guestAuth"}),
   member_request_start |-> Params({"target", "message", "timeoutSeconds", "maxWaitSeconds"},
                                   {"crew", "instructions"}),
   member_request_list  |-> Params({}, {"direction"}),
   member_request_wait  |-> Params({"requestId"}, {}),
   member_response      |-> Params({"requestId", "message"}, {"instructions"})]
GuestSchemas ==
  [guest_join  |-> Params({"guestIdentity", "guestName", "callbackEndpoint"}, {}),
   guest_leave |-> Params({"guestIdentity", "crewId", "callbackEndpoint"}, {}),
   guest_send  |-> Params({"crewId", "guestIdentity", "callbackEndpoint", "capability", "target", "content"},
                          {"kind", "instructions"})]
IdleWaitSchema == [member_idle_wait |-> Params({"member"}, {"timeoutSeconds", "forwarded"})]
Schemas == MessageSchemas @@ StatusSchemas @@ DeliverySchemas @@ InterruptSchema @@ DurableSchemas
           @@ RequestSchemas @@ GuestSchemas @@ IdleWaitSchema

\* toParams: the fields of a command that it writes.
DeliveryFields == {"target", "message", "instructions"}
MessagesCarry ==
  [send      |-> {"content", "instructions", "origin", "kind", "sentAt", "replyTo", "delivery"},
   interrupt |-> {"payload"}]
StatusCarry ==
  [member_status              |-> {"member"},
   member_status_target       |-> {"target"},
   member_last_message_target |-> {"target"}]
RequestsCarry ==
  [member_request       |-> {"requestId", "payload", "timeoutSeconds"},
   member_request_start |-> {"target", "message", "instructions", "timeoutSeconds", "maxWaitSeconds"},
   member_request_list  |-> {"direction"},
   member_request_wait  |-> {"requestId"},
   member_response      |-> {"requestId", "message", "instructions"}]
DeliveriesCarry ==
  [member_interrupt  |-> DeliveryFields,
   member_follow_up  |-> DeliveryFields,
   member_redirect   |-> DeliveryFields,
   member_inbox_send |-> DeliveryFields,
   crew_broadcast    |-> {"message", "instructions"}]
GuestsCarry ==
  [guest_join  |-> {"guestIdentity", "guestName", "callbackEndpoint"},
   guest_send  |-> {"crewId", "guestIdentity", "callbackEndpoint", "capability", "target", "content",
                    "kind", "instructions"},
   guest_leave |-> {"guestIdentity", "crewId", "callbackEndpoint"}]
RestCarry ==
  [member_idle_wait |-> {"member", "timeoutSeconds", "forwarded"},
   subscribe        |-> {"event"},
   presence_hint    |-> {"member", "state", "instanceId"}]
Carry == MessagesCarry @@ StatusCarry @@ RequestsCarry @@ DeliveriesCarry @@ GuestsCarry @@ RestCarry

\* toParams writes a default for these when the command leaves them out.
Defaulted(type) == CASE type = "send"                -> {"delivery"}
                     [] type = "member_request_list" -> {"direction"}
                     [] OTHER                        -> {}

\* commandToRequest: what the server receives of a command with these fields.
Received(type, fields) == (fields \cap Carry[type]) \cup Defaulted(type)

\* Value.Check in fromParams, as far as the presence of fields goes.
Complete(type, fields) == /\ Schemas[type].must \subseteq fields
                          /\ fields \subseteq Schemas[type].must \cup Schemas[type].may

\* The fields that a command may hold and that never arrive.
LostFields(type) == (Schemas[type].must \cup Schemas[type].may) \ Carry[type]

\* Every command that is complete when it is written is complete when it is read,
\* and every field arrives but two, which only a Guest's Ask needs.
ASSUME RegistryAssumption ==
  /\ \A type \in DOMAIN Schemas : \A some \in SUBSET Schemas[type].may :
       Complete(type, Received(type, Schemas[type].must \cup some))
  /\ {type \in DOMAIN Schemas : LostFields(type) # {}} = {"member_request", "member_request_start"}
  /\ LostFields("member_request") = {"guestAuth"}
  /\ LostFields("member_request_start") = {"crew"}
=============================================================================
