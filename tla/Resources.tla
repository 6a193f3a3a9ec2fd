------------------------------ MODULE Resources ------------------------------
(***************************************************************************)
(* What a path, a URL or a name becomes in a resource (resources.py).  A   *)
(* resource is the sequence of its segments.  A path is the sequence of    *)
(* its names between slashes or backslashes: an absolute one begins with   *)
(* an empty name.                                                          *)
(***************************************************************************)
EXTENDS MappingResult, SequencesExt

CONSTANTS
  Absent,         \* an argument that is missing, empty or not a string
  Nul,            \* a text or a name with a NUL in it
  Lower,          \* the names of paths in lower case
  EnvNames,       \* ".env" and the names that begin with ".env."
  AppNames,       \* the names with "secret" or "credential" in them
  HostOf,         \* the hosts of the URLs that have one
  InvalidUrls,    \* the URLs urlparse raises on, such as "http://[x"
  InternalHosts,  \* localhost, .local and private, loopback and link-local addresses
  Identifier      \* texts with the characters an identifier may not have replaced

NoResource == <<>>
NoName == "no name"

-----------------------------------------------------------------------------
(* Paths. *)

IsAbsolute(path) == Len(path) > 1 /\ path[1] = ""

\* posixpath.normpath of a path made relative, name by name.
FoldName(done, name) ==
  CASE name \in {"", "."} -> done
    [] name = ".." /\ done # <<>> /\ Last(done) # ".." -> Front(done)
    [] OTHER -> Append(done, name)

Folded(path) == FoldLeft(FoldName, <<>>, path)

\* Mutant: a path that folds to ".." alone is let through.
NormalizePathBare(path) ==
  LET folded == Folded(path)
  IN IF Nul \in ToSet(path) \/ folded = <<>> \/ (folded[1] = ".." /\ Len(folded) > 1)
       THEN NoResource ELSE folded

\* Nothing for a path that leaves its tree, or is its root.
NormalizePath(path) ==
  LET folded == Folded(path)
  IN IF Nul \in ToSet(path) \/ folded = <<>> \/ folded[1] = ".." THEN NoResource ELSE folded

\* The kinds of secrets, the first that fits.
SecretKind(names) ==
  LET lower == [i \in DOMAIN names |-> Lower[names[i]]]
      says == ToSet(lower)
      base == Last(lower)
      kinds ==
        <<<<base \in EnvNames, "env">>,
          <<".ssh" \in says \/ base \in {"id_rsa", "id_ed25519", "known_hosts"}, "ssh">>,
          <<".aws" \in says, "aws">>,
          <<{".config", "gcloud"} \subseteq says, "gcp">>,
          <<base = "application_default_credentials.json", "gcp">>,
          <<".azure" \in says, "azure">>,
          <<base \in {".netrc", "_netrc"}, "netrc">>,
          <<base \in {".npmrc", ".pypirc"}, "package-registry">>,
          <<".kube" \in says /\ base = "config", "kube">>,
          <<base \in {".git-credentials", ".gitconfig"}, "git">>,
          <<base \in AppNames, "app">>>>
      first == SelectInSeq(kinds, LAMBDA kind : kind[1])
  IN IF first = 0 THEN NoName ELSE kinds[first][2]

SecretKinds ==
  {"env", "ssh", "aws", "gcp", "azure", "netrc", "package-registry", "kube", "git", "app"}

IsSecret(resource) == resource[1] = "secret"

RepoOrSecretResource(path) ==
  LET names == NormalizePath(path)
  IN CASE names = NoResource -> NoResource
       [] names # NoResource /\ SecretKind(names) # NoName -> <<"secret", SecretKind(names)>>
       [] OTHER -> <<IF IsAbsolute(path) THEN "fs" ELSE "repo">> \o names

-----------------------------------------------------------------------------
(* URLs and names. *)

\* Mutant: the scope of the resource that sorts first.
CommonScopeOfFirst(hosts) == IF hosts \subseteq InternalHosts THEN "internal" ELSE "external"

CommonScope(hosts) ==
  CASE hosts \subseteq InternalHosts -> "internal"
    [] hosts \cap InternalHosts = {} -> "external"
    [] OTHER -> "mixed"

NetworkResource(urls) ==
  LET hosts == {HostOf[url] : url \in ToSet(urls)}
      first == HostOf[urls[1]]
  IN IF urls = <<>> \/ ~(ToSet(urls) \subseteq DOMAIN HostOf) THEN NoResource
     ELSE <<"net", CommonScope(hosts), IF hosts = {first} THEN first ELSE "multiple">>

\* urlparse raises at the first URL without a host; nothing catches it.
UrlparseRaises(urls) ==
  \E i \in DOMAIN urls :
    urls[i] \in InvalidUrls /\ \A j \in 1..i - 1 : urls[j] \in DOMAIN HostOf

\* A text with nothing left of it has no identifier of its own.
SafeIdentifier(text, default) ==
  CASE text = Nul -> NoName
    [] text # Nul /\ text \in DOMAIN Identifier -> Identifier[text]
    [] OTHER -> default
=============================================================================
