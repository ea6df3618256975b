----------------------------- MODULE CurlConfig -----------------------------
(***************************************************************************)
(* The configuration classes (src/include/webthread/*_config.hpp) and      *)
(* curl_config (src/src/thread.cpp): a user calls setters in any order and *)
(* constructs a client; its connection turns the values into texts once,   *)
(* and gives them to a curl handle each time it registers one.             *)
(*                                                                         *)
(* A text is a sequence of tokens.  A host, a port, a name of an interface *)
(* is one token, which holds no separator: an IPv6 address is written in   *)
(* brackets.  None stands for port 0, an empty text and an absent value.   *)
(***************************************************************************)
EXTENDS Naturals, Sequences, SequencesExt, HttpText

CONSTANTS
    Host, Port,     \* hosts and ports
    Path,           \* paths of a WebSocket's URL, as the user gives them
    MaxCalls        \* bound: calls of setters

ASSUME CallsAssumption == MaxCalls \in Nat

None == ""
ASSUME TokenAssumption == (Host \cup Port) \cap {None, ":", "!"} = {}
ASSUME PathAssumption  == Path \subseteq Seq(STRING)

Text(token) == IF token = None THEN <<>> ELSE <<token>>

VARIABLES
    class,      \* the configuration class: "http", "https", "ws" or "wss"
    config,     \* the user's configuration object
    calls,      \* history: the setters called on it
    texts,      \* what the connection keeps of it, none before it is constructed
    madeOf,     \* history: the calls made when it was constructed
    options     \* the options of the curl handle, none without a handle

vars == <<class, config, calls, texts, madeOf, options>>
none == [set |-> "none"]

-----------------------------------------------------------------------------
(* The configuration classes.                                              *)

http_config  == {"interface", "keepAlive"}
ws_config    == http_config \cup {"connectTimeout", "tickTimeout", "urlPath"}
https_config == http_config \cup {"real", "authority", "certificate"}
wss_config   == ws_config \cup https_config
Setters == [http |-> http_config, ws |-> ws_config, https |-> https_config, wss |-> wss_config]
Secure  == class \in {"https", "wss"}
Session == class \in {"ws", "wss"}

Defaults == [keepAlive |-> 60, connectTimeout |-> 1000, tickTimeout |-> 0]

NewConfig(peerHost, peerPort) ==
    [host |-> peerHost, port |-> peerPort, realHost |-> None, realPort |-> None,
     ifName |-> None, ifHost |-> None, keepAlive |-> Defaults.keepAlive,
     authority |-> None, certificate |-> None, type |-> "pem",
     connectTimeout |-> Defaults.connectTimeout, tickTimeout |-> Defaults.tickTimeout,
     urlPath |-> <<>>]

Init ==
    /\ class \in DOMAIN Setters
    /\ \E h \in Host, p \in Port \cup {None} : config = NewConfig(h, p)
    /\ calls = <<>> /\ madeOf = <<>>
    /\ texts = none /\ options = none

\* A setter is called, before or after a client was constructed.
Calls(call, changed) ==
    /\ call.set \in Setters[class] /\ Len(calls) < MaxCalls
    /\ calls' = Append(calls, call)
    /\ config' = changed
    /\ UNCHANGED <<class, texts, madeOf, options>>

with_peer_real_address(peerIp, peerPort) ==
    Calls([set |-> "real", host |-> peerIp, port |-> peerPort],
          [config EXCEPT !.realHost = peerIp, !.realPort = peerPort])

\* Either may be the default interface, None.
with_interface(name, host) ==
    Calls([set |-> "interface", name |-> name, host |-> host],
          [config EXCEPT !.ifName = name, !.ifHost = host])

with_keep_alive_delay(delay) ==
    Calls([set |-> "keepAlive", delay |-> delay], [config EXCEPT !.keepAlive = delay])

\* Each of the two makes a new ssl_certificate.
with_certificate_authority(info) ==
    Calls([set |-> "authority", info |-> info],
          [config EXCEPT !.authority = info, !.certificate = None, !.type = "pem"])

with_ssl_certificate(certificate, type) ==
    Calls([set |-> "certificate", certificate |-> certificate, type |-> type],
          [config EXCEPT !.authority = None, !.certificate = certificate, !.type = type])

with_connect_timeout(timeout) ==
    Calls([set |-> "connectTimeout", to |-> timeout], [config EXCEPT !.connectTimeout = timeout])

with_tick_timeout(timeout) ==
    Calls([set |-> "tickTimeout", to |-> timeout], [config EXCEPT !.tickTimeout = timeout])

with_url_path(path) ==
    Calls([set |-> "urlPath", to |-> path], [config EXCEPT !.urlPath = path])

-----------------------------------------------------------------------------
(* curl_config and the constructors of the connections.                    *)

PortText(port) == IF port = None THEN <<>> ELSE <<":", port>>
UrlText == <<class, "://", config.host>> \o PortText(config.port)

\* Mutant of ConnectToText: a port that is not given takes its colon with it.
ConnectToShort ==
    IF ~Secure \/ config.realHost = None THEN <<>>
    ELSE <<config.host>> \o PortText(config.port)
         \o <<":", config.realHost>> \o PortText(config.realPort)

\* A field of the text, its colon and what comes behind.
Field(field, behind) == field \o <<":">> \o behind

ConnectToText ==
    IF ~Secure \/ config.realHost = None THEN <<>>
    ELSE Field(<<config.host>>,
               Field(Text(config.port), Field(<<config.realHost>>, Text(config.realPort))))

InterfaceText ==
    CASE config.ifName # None /\ config.ifHost # None ->
            <<"ifhost", "!", config.ifName, "!", config.ifHost>>
      [] config.ifName # None /\ config.ifHost = None -> <<"if", "!", config.ifName>>
      [] config.ifName = None /\ config.ifHost # None -> <<"host", "!", config.ifHost>>
      [] OTHER -> <<>>

\* The texts are copies: the connection keeps no view of the configuration.
curl_config ==
    [url |-> UrlText, connectTo |-> ConnectToText, interface |-> InterfaceText,
     keepAlive |-> config.keepAlive,
     authority |-> config.authority, certificate |-> config.certificate, type |-> config.type]

\* A WebSocket also keeps its timeouts and its path.
Construct ==
    /\ texts = none
    /\ texts' = [config |-> curl_config, connectTimeout |-> config.connectTimeout,
                 tickTimeout |-> config.tickTimeout, path |-> UrlPath(config.urlPath)]
    /\ madeOf' = calls
    /\ UNCHANGED <<class, config, calls, options>>

convert_ssl_certificate_type == [der |-> "DER", p12 |-> "P12", pem |-> "PEM"]

setup_address ==
    [url |-> texts.config.url, connectTo |-> texts.config.connectTo,
     interface |-> texts.config.interface]

setup_tls ==
    [authority   |-> texts.config.authority,
     certificate |-> texts.config.certificate,
     type        |-> IF texts.config.certificate = None THEN None
                     ELSE convert_ssl_certificate_type[texts.config.type]]

\* The options of a WebSocket's handle.
SessionOptions ==
    IF Session THEN [target |-> texts.path, timeout |-> texts.connectTimeout] ELSE none

\* A new handle is given its options.  When one is refused there is none.
register_handle ==
    /\ texts # none /\ options = none
    /\ options' = [address |-> setup_address, keepAlive |-> texts.config.keepAlive,
                   tls |-> setup_tls, session |-> SessionOptions]
    /\ UNCHANGED <<class, config, calls, texts, madeOf>>

unregister_handle ==
    /\ options # none
    /\ options' = none
    /\ UNCHANGED <<class, config, calls, texts, madeOf>>

Next ==
    \/ \E h \in Host, p \in Port \cup {None} : with_peer_real_address(h, p)
    \/ \E n \in {None, "net0"}, h \in {None} \cup Host : with_interface(n, h)
    \/ \E delay \in {1, 2} : with_keep_alive_delay(delay)
    \/ with_certificate_authority("authority")
    \/ \E type \in {"der", "p12", "pem"} : with_ssl_certificate("certificate", type)
    \/ with_connect_timeout(1) \/ with_tick_timeout(1)
    \/ \E path \in Path : with_url_path(path)
    \/ Construct \/ register_handle \/ unregister_handle

Spec == Init /\ [][Next]_vars

-----------------------------------------------------------------------------
(* How curl reads the texts.                                               *)

\* A text up to its first separator, and what comes after that.
FirstEnd(text, separator) ==
    Min({i \in 1 .. Len(text) : text[i] = separator} \cup {Len(text) + 1})
Upto(text, separator)   == SubSeq(text, 1, FirstEnd(text, separator) - 1)
Behind(text, separator) == SubSeq(text, FirstEnd(text, separator) + 1, Len(text))

\* CURLOPT_CONNECT_TO: HOST:PORT:CONNECT-TO-HOST:CONNECT-TO-PORT, for the URL's
\* host and port; an empty port to match matches any, an empty one to connect
\* to is that of the URL.
ConnectsTo(address) ==
    LET url     == SubSeq(address.url, 3, Len(address.url))
        host    == Upto(url, ":")
        port    == Upto(Behind(url, ":"), ":")
        ports   == Behind(address.connectTo, ":")
        hosts   == Behind(ports, ":")
        newHost == Upto(hosts, ":")
        newPort == Upto(Behind(hosts, ":"), ":")
    IN  IF Upto(address.connectTo, ":") = host /\ Upto(ports, ":") \in {<<>>, port}
                                               /\ newHost # <<>>
        THEN [host |-> newHost, port |-> IF newPort = <<>> THEN port ELSE newPort]
        ELSE [host |-> host, port |-> port]

\* CURLOPT_INTERFACE: if!NAME, host!HOST or ifhost!NAME!HOST.
BindsTo(interface) ==
    LET kind  == Upto(interface, "!")
        names == Behind(interface, "!")
    IN  [name |-> IF kind \in {<<"if">>, <<"ifhost">>} THEN Upto(names, "!") ELSE <<>>,
         host |-> CASE kind = <<"ifhost">> -> Behind(names, "!")
                    [] kind = <<"host">>   -> names
                    [] OTHER               -> <<>>]

-----------------------------------------------------------------------------
(* Properties.                                                             *)

\* The last of the calls made that is of one of some setters, or what holds
\* without one.
LastCall(made, setters, default) ==
    LET those == {i \in 1 .. Len(made) : made[i].set \in setters}
    IN  IF those = {} THEN default ELSE made[Max(those)]

\* Whatever the order of the setters, and whatever is set after the client was
\* constructed: curl connects to the address set last, or else to the peer, and
\* the URL always names the peer; it binds to the interface set last and probes
\* with the delay set last; and it is given the authority or the certificate,
\* whichever was set last, as setting the one takes back the other.  A WebSocket
\* asks for its path, below the root, within its timeout.
OptionsAsSet ==
    options # none =>
        LET own  == [host |-> config.host, port |-> config.port]
            peer == LastCall(madeOf, {"real"}, own)
            from == LastCall(madeOf, {"interface"}, [name |-> None, host |-> None])
            tls  == LastCall(madeOf, {"authority", "certificate"}, none)
        IN  /\ options.address.url = <<class, "://", own.host>> \o PortText(own.port)
            /\ ConnectsTo(options.address) =
                  [host |-> <<peer.host>>,
                   port |-> Text(IF peer.port = None THEN own.port ELSE peer.port)]
            /\ BindsTo(options.address.interface) =
                  [name |-> Text(from.name), host |-> Text(from.host)]
            /\ options.keepAlive = LastCall(madeOf, {"keepAlive"}, [delay |-> 60]).delay
            /\ options.tls =
                  [authority   |-> IF tls.set = "authority" THEN tls.info ELSE None,
                   certificate |-> IF tls.set = "certificate" THEN tls.certificate ELSE None,
                   type        |-> IF tls.set # "certificate" THEN None
                                   ELSE CASE tls.type = "der" -> "DER"
                                          [] tls.type = "p12" -> "P12"
                                          [] tls.type = "pem" -> "PEM"]
            /\ Session =>
                  LET path == LastCall(madeOf, {"urlPath"}, [to |-> <<>>]).to
                  IN  /\ options.session.timeout = LastCall(madeOf, {"connectTimeout"}, [to |-> 1000]).to
                      /\ options.session.target \in {path, <<"/">> \o path}
                      /\ Head(options.session.target) = "/"
                      /\ texts.tickTimeout = LastCall(madeOf, {"tickTimeout"}, [to |-> 0]).to
=============================================================================
