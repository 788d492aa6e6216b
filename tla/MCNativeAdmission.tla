-------------------------- MODULE MCNativeAdmission --------------------------
(* Four builds: b1 is released and is the library of the working tree, b2  *)
(* a rebuild of it with another report, b3 other bytes with the report of  *)
(* b1, b4 a build that lacks a symbol of the loader.                       *)
EXTENDS NativeAdmission

MCPlatform == [name |-> "linux-amd64", target |-> "x86_64-linux", dynamic |-> "libtalon.so", static |-> "libtalon.a"]

Capability(name, version) == [name |-> name, version |-> version, status |-> "available", limits |-> "absent"]

BuildOf(source) ==
  LET b == [version |-> 1, wellFormed |-> TRUE, source |-> source, dirty |-> "clean",
            target |-> MCPlatform.target, header |-> "h1", profile |-> "talon-native-c",
            symbols |-> <<"talon_build_manifest", "talon_open", "talon_close", "talon_execute", "talon_kv_read_v1">>,
            features |-> <<<<"native_build_manifest", 1>>, <<"native_error_codes", 1>>, <<"sql_tlv", 1>>,
                           <<"native_conditional_transaction", 2>>,
                           <<"conditional_transaction_command_digest", 1>>, <<"native_kv_read", 1>>>>,
            capabilities |-> <<Capability("native_conditional_transaction_v2", 2), Capability("native_kv_read", 1)>>,
            binding |-> <<>>]
  IN  [b EXCEPT !.binding = computeBuildBinding(b)]

MCReport == [b \in Builds |-> BuildOf(IF b = "b2" THEN "s2" ELSE "s1")]

MCExports ==
  [b \in Builds |-> Elements(MCReport[b].symbols) \ IF b = "b4" THEN {"talon_execute"} ELSE {}]

Members(bytes) ==
  <<[path |-> "libtalon.so", bytes |-> bytes], [path |-> "talon.h", bytes |-> "h1"],
    [path |-> "LICENSE.core", bytes |-> "l"], [path |-> "NOTICE", bytes |-> "n"]>>

ReleaseManifest ==
  [schema |-> "1.0", channel |-> "enterprise-core", release |-> "r1", source |-> "s1", clean |-> TRUE,
   abi |-> [profile |-> "talon-native-c", version |-> 1, header |-> "h1"], symbols |-> MCReport["b1"].symbols,
   target |-> MCPlatform.target, platform |-> MCPlatform.name, kind |-> "talon-core-native-runtime",
   archive |-> Members("b1"),
   files |-> [i \in 1 .. 4 |-> [path |-> Members("b1")[i].path, sha |-> Members("b1")[i].bytes, wellFormed |-> TRUE]],
   materials |-> [sbom |-> "x", licenses |-> "y", license |-> "l", notice |-> "n"],
   key |-> "k1", gate |-> "gated"]

MCSigned == {<<"k1", ReleaseManifest>>}

MCDisk ==
  [manifest |-> ReleaseManifest, signature |-> <<"k1", ReleaseManifest>>, archive |-> Members("b1"),
   materials |-> ReleaseManifest.materials, library |-> "b1", header |-> "h1", self |-> MCReport["b1"]]

MCRewrites ==
  {<<"archive", Members("b3")>>, <<"library", "b2">>, <<"library", "b3">>, <<"library", "b4">>,
   <<"header", "h2">>, <<"manifest", [ReleaseManifest EXCEPT !.gate = "available"]>>}

Release(required) ==
  [op |-> "open", form |-> "release", mixed |-> FALSE,
   policy |-> [wellFormed |-> TRUE, bundle |-> "dir", runtimeOnly |-> TRUE, key |-> "k1", release |-> "r1",
               source |-> "s1", abi |-> ReleaseManifest.abi, required |-> required]]

Development(op, mixed) ==
  [op |-> op, form |-> "development", mixed |-> mixed,
   policy |-> [wellFormed |-> TRUE, paths |-> <<"libtalon.so", "talon.h", "core-build-manifest.json">>,
               library |-> "b1", header |-> "h1", self |-> MCReport["b1"], required |-> <<<<"native_kv_read", 1>>>>]]

MCCalls ==
  {Release(<<"native_kv_read">>), Release(<<"native_sql_context">>), Development("open", FALSE),
   Development("open", TRUE), Development("attest", FALSE), Development("prepare", FALSE)}
=============================================================================
