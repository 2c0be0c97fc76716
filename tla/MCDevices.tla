------------------------------ MODULE MCDevices ------------------------------
(* Instances of the devices: two users, and what their clients send.        *)
EXTENDS DevicesRefinement, TLC

CONSTANTS u1, u2

App(id) == [has |-> {"app", "ios"}, length |-> "usual", uuids |-> 1,
            idForm |-> "upper", id |-> id, text |-> "3.0.0"]

Phone(id) ==
    [ua |-> App(id), deviceId |-> id, idForm |-> "upper",
     deviceModel |-> "iPhone14,2", modelForm |-> "valid",
     systemVersion |-> "iOS 17.2", systemOs |-> "iOS",
     platform |-> "", clientHints |-> "no", screen |-> "", timezone |-> "",
     language |-> ""]

MCCaller == <<u1, u2>>

(* The example of an attack in the documents of the device detection. *)
Curl ==
    [Phone("zeros") EXCEPT
        !.ua = [has |-> {"curl"}, length |-> "below20", uuids |-> 0,
                idForm |-> "", id |-> "", text |-> "curl/7.68.0"],
        !.idForm = "zeros", !.deviceModel = "FakeDevice", !.modelForm = "invalid",
        !.systemVersion = "", !.systemOs = ""]

PhoneAndCurl == {Phone("id1"), Curl}

(* Two phones of one model and OS version, each with its installation id.   *)
MCClients == {Phone("id1"), Phone("id2")}
=============================================================================
