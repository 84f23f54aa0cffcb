---- MODULE MCStreamCodec ----
(* Values of each type, most of them an end of its range, with bytes in base 4. *)
EXTENDS StreamCodec
Samples ==
  {<<"u8", 3>>, <<"u16", 6>>, <<"u32", 255>>, <<"i8", -2>>, <<"i16", 7>>, <<"i32", -128>>,
   <<"i32", 100>>, <<"float", 77>>, <<"double", 65534>>, <<"bool", 1>>,
   <<"string", <<1, 1>>>>, <<"string", <<>>>>, <<"char*", <<1>>>>,
   <<"string", <<1, 2>>>>, <<"u64", 65535>>, <<"i64", -3>>}
====
