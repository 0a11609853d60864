------------------------- MODULE CrawlerConfiguration -------------------------
(***************************************************************************)
(* From the calls of an application to the version message of a connection *)
(* (crawler/src/builder.rs, crawler/src/crawler.rs, the configuration of   *)
(* the connection crate): the application makes user agents, builders and  *)
(* crawlers, in any order and as many as it likes, and each crawl() hands  *)
(* its settings on to the session and to the connections.                  *)
(*                                                                         *)
(* The values an application holds are sets.  A method that takes self by  *)
(* value moves it, or a clone of it: the builder it is called on is gone,  *)
(* or stays.  An Option is a set with at most one element.  The network is *)
(* left out: it is passed on as it is.  A Duration is a number of seconds. *)
(***************************************************************************)
EXTENDS UserAgent

CONSTANTS
  Components,      \* the <<name, version>> pairs given to from_name_version()
  Default          \* the pair of them of default_user_agent()

VARIABLES
  agents,          \* the values of type UserAgent the application holds
  builders,        \* the values of type CrawlerBuilder it holds
  crawlers,        \* the crawlers it has made
  sessions,        \* what crawl() gave to its sessions
  versions         \* the version messages of the sessions' connections

vars == <<agents, builders, crawlers, sessions, versions>>

DEFAULT_PROTOCOL_VERSION == {70016}
DEFAULT_MAX_CONCURRENT_TASKS == 8
DEFAULT_PEER_TIMEOUT == 20
MIN_PROTOCOL_VERSION == 70001

TransportPolicy == {"V2Preferred", "V2Required"}

Option(S) == {{}} \cup {{x} : x \in S}

\* The fields of a CrawlerBuilder, which are those of a Crawler too.
Settings ==
  [user_agent : Option(String), transport_policy : TransportPolicy,
   protocol_version : Option(Nat), max_concurrent_tasks : Nat, peer_timeout : Nat]

default_user_agent == from_name_version(Default[1], Default[2])

Init ==
  /\ agents = {}
  /\ builders = {}
  /\ crawlers = {}
  /\ sessions = {}
  /\ versions = {}

\* UserAgent::new(), FromStr and from_name_version().
NewAgent(s) ==
  /\ validate_bitcoin_core_format(s) = "Ok"
  /\ agents' = agents \cup {s}
  /\ UNCHANGED <<builders, crawlers, sessions, versions>>

AgentFromNameVersion(name, version) ==
  /\ agents' = agents \cup {from_name_version(name, version)}
  /\ UNCHANGED <<builders, crawlers, sessions, versions>>

\* CrawlerBuilder::new()
NewBuilder ==
  /\ builders' = builders \cup
       {[user_agent |-> {}, transport_policy |-> "V2Preferred",
         protocol_version |-> DEFAULT_PROTOCOL_VERSION,
         max_concurrent_tasks |-> DEFAULT_MAX_CONCURRENT_TASKS,
         peer_timeout |-> DEFAULT_PEER_TIMEOUT]}
  /\ UNCHANGED <<agents, crawlers, sessions, versions>>

\* The setters that cannot fail.
With(b) ==
  /\ \E made \in {[b EXCEPT !.transport_policy = p] : p \in TransportPolicy}
            \cup {[b EXCEPT !.protocol_version = {v}] : v \in Nat}
            \cup {[b EXCEPT !.max_concurrent_tasks = n] : n \in Nat}
            \cup {[b EXCEPT !.peer_timeout = t] : t \in Nat} :
       builders' \in {builders \cup {made}, (builders \ {b}) \cup {made}}
  /\ UNCHANGED <<agents, crawlers, sessions, versions>>

\* with_user_agent(): an error consumes the builder.
WithUserAgent(b, s) ==
  /\ \/ /\ validate_bitcoin_core_format(s) = "Ok"
        /\ LET made == [b EXCEPT !.user_agent = {s}]
           IN  builders' \in {builders \cup {made}, (builders \ {b}) \cup {made}}
     \/ /\ validate_bitcoin_core_format(s) \in UserAgentError
        /\ builders' \in {builders, builders \ {b}}
  /\ UNCHANGED <<agents, crawlers, sessions, versions>>

Build(b) ==
  /\ crawlers' = crawlers \cup {b}
  /\ builders' \in {builders, builders \ {b}}
  /\ UNCHANGED <<agents, sessions, versions>>

\* Crawler::new(), with a user agent the application holds or without one.
NewCrawler(c) ==
  /\ c.user_agent \subseteq agents
  /\ crawlers' = crawlers \cup {c}
  /\ UNCHANGED <<agents, builders, sessions, versions>>

\* crawl(): the settings of the session, and of its connector.
session_config(c) ==
  [max_concurrent_tasks |-> c.max_concurrent_tasks, peer_timeout |-> c.peer_timeout]

non_listening(c) ==
  [protocol_version |-> c.protocol_version, user_agent |-> c.user_agent,
   transport_policy |-> c.transport_policy]

Crawl(c) ==
  /\ sessions' = sessions \cup {[config |-> session_config(c), connector |-> non_listening(c)]}
  /\ UNCHANGED <<agents, builders, crawlers, versions>>

\* A connection of the session: what create_version_message() takes from the
\* configuration, which PeerConnector::connect() clones for it.
unwrap_or(option, default) == IF option = {} THEN default ELSE CHOOSE x \in option : TRUE

create_version_message(config) ==
  [version |-> unwrap_or(config.protocol_version, MIN_PROTOCOL_VERSION),
   user_agent |-> unwrap_or(config.user_agent, default_user_agent)]

Connect(session) ==
  /\ versions' = versions \cup {create_version_message(session.connector)}
  /\ UNCHANGED <<agents, builders, crawlers, sessions>>

Next ==
  \/ \E s \in String : NewAgent(s)
  \/ \E p \in Components : AgentFromNameVersion(p[1], p[2])
  \/ NewBuilder
  \/ \E b \in builders : With(b) \/ (\E s \in String : WithUserAgent(b, s)) \/ Build(b)
  \/ \E c \in Settings : NewCrawler(c)
  \/ \E c \in crawlers : Crawl(c)
  \/ \E session \in sessions : Connect(session)

Spec == Init /\ [][Next]_vars

(***************************************************************************)
(* Properties.                                                             *)
(***************************************************************************)
\* The documentation has it that a UserAgent is "validated" and that
\* from_name_version() "creates the string in the correct format", but it
\* validates nothing.  A user agent that is not of the format "/name:version/"
\* reaches the network in one way only: the application itself called
\* from_name_version() with an empty name or version or with a colon in one, and
\* gave what it got to Crawler::new().  with_user_agent(), the clones of a builder,
\* build(), crawl() and the default of the connection crate make none.
MalformedIsSelfMade ==
  \A m \in versions :
    \/ WellFormed(m.user_agent)
    \/ \E p \in Components :
         /\ ~Proper(p[1], p[2])
         /\ m.user_agent = from_name_version(p[1], p[2])
         /\ m.user_agent \in agents

\* A crawler that comes from a builder advertises a user agent of the format,
\* whatever strings with_user_agent() was called with before build().
BuildersAreClean == \A b \in builders : \A s \in b.user_agent : WellFormed(s)
=============================================================================
