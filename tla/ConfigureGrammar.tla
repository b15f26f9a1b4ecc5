-------------------------- MODULE ConfigureGrammar --------------------------
(***************************************************************************)
(* The two allowlists of the apply package, kept in different files: the   *)
(* set commands it accepts (src/apply/parser.go) and the roots it may      *)
(* reset (src/apply/policy.go).  A command is its sequence of tokens; the  *)
(* tokens that carry values are known by the class they belong to.         *)
(***************************************************************************)
EXTENDS Sequences, Integers

CONSTANTS Ipv4Addr, Ipv4Prefix,   \* tokens netip parses to an IPv4 address, prefix
          PositiveInt,            \* tokens strconv.Atoi makes a positive integer
          Port                    \* those up to 65535

ASSUME GrammarAssumption == Port \subseteq PositiveInt

\* A line of desired commands after trimming: what kind of line it is, and its
\* tokens when tokenizeCommand finds no fault.
LineKinds == {"blank", "comment", "metachar", "unclosed", "command"}

ForbiddenOperations ==
  {"configure", "commit", "save", "discard", "exit", "delete", "show", "run", "sudo"}

InterfacesPath(t) ==
  \/ t[3] = "bridge"
  \/ t[3] = "ethernet" /\ Len(t) >= 6 /\ t[4] # "" /\ t[5] = "description"

DHCPPath(t) ==
  /\ Len(t) >= 8
  /\ t[4] = "shared-network-name" /\ t[5] # "" /\ t[6] = "subnet"
  /\ t[7] \in Ipv4Prefix
  /\ \/ t[8] \in {"lease", "subnet-id"} /\ Len(t) = 9 /\ t[9] \in PositiveInt
     \/ /\ t[8] = "option" /\ Len(t) = 10
        /\ t[9] \in {"default-router", "name-server"} /\ t[10] \in Ipv4Addr
     \/ /\ t[8] = "range" /\ Len(t) = 11
        /\ t[9] = "0" /\ t[10] \in {"start", "stop"} /\ t[11] \in Ipv4Addr

\* Mutant: any dns subsystem, where the reset root is dns forwarding.
DNSPathAny(t) ==
  /\ Len(t) = 6
  /\ \/ t[5] = "allow-from" /\ t[6] \in Ipv4Prefix
     \/ t[5] = "cache-size" /\ t[6] = "0"
     \/ t[5] = "listen-address" /\ t[6] \in Ipv4Addr

DNSPath(t) ==
  /\ Len(t) = 6 /\ t[4] = "forwarding"
  /\ \/ t[5] = "allow-from" /\ t[6] \in Ipv4Prefix
     \/ t[5] = "cache-size" /\ t[6] = "0"
     \/ t[5] = "listen-address" /\ t[6] \in Ipv4Addr

SSHPath(t) == Len(t) = 5 /\ t[4] = "port" /\ t[5] \in Port

ServicePath(t) ==
  \/ t[3] = "dhcp-server" /\ DHCPPath(t)
  \/ t[3] = "dns" /\ DNSPath(t)
  \/ t[3] = "ssh" /\ SSHPath(t)

SetPath(t) ==
  /\ Len(t) >= 4
  /\ \/ t[2] = "interfaces" /\ InterfacesPath(t)
     \/ t[2] = "nat" /\ t[3] = "source"
     \/ t[2] = "service" /\ ServicePath(t)

\* The verdict of parseCommands on one line that is not blank.
AcceptedCommand(t) ==
  /\ t[1] \notin ForbiddenOperations
  /\ t[1] = "set"
  /\ SetPath(t)
AcceptedLine(line) == line.kind = "command" /\ AcceptedCommand(line.tokens)

\* Reset roots, as the words of their normalised form.
DefaultRoots ==
  << <<"interfaces", "bridge">>, <<"nat", "source">>, <<"service", "dhcp-server">>,
     <<"service", "dns", "forwarding">>, <<"service", "ssh">> >>
AllowedRoots == {DefaultRoots[k] : k \in DOMAIN DefaultRoots}
                  \cup {<<"interfaces", "bridge", "br0">>}

\* Deleting root removes what command t sets.
Covers(root, t) ==
  /\ Len(t) > Len(root)
  /\ \A k \in 1 .. Len(root) : t[k + 1] = root[k]

\* One of the roots removes it.
Resets(roots, t) == \E d \in DOMAIN roots : Covers(roots[d], t)

EthernetDescription(t) ==
  Len(t) >= 6 /\ t[2] = "interfaces" /\ t[3] = "ethernet" /\ t[5] = "description"
=============================================================================
