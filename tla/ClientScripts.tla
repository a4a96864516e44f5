--------------------------- MODULE ClientScripts ---------------------------
(***************************************************************************)
(* The functions of the client side: CWP_client_X(a, c) is what            *)
(* CWP_client_X does on the socket and to the t_cwp of the client; a holds *)
(* the arguments of the call, and what the function has read so far; c is  *)
(* the t_cwp.  CWP_client_Output_file_set, User_structure_set and _get and *)
(* the interpolation functions do not use the socket.                      *)
(***************************************************************************)
EXTENDS SocketSteps

\* Names most functions begin with.
InCoupling == WriteNames(<<"local_code_name", "cpl_id">>)
InField    == WriteNames(<<"local_code_name", "cpl_id", "field_id">>)
InGlobal   == WriteNames(<<"local_code_name", "cpl_id", "global_data_id">>)
InPart     == WriteNames(<<"local_code_name", "cpl_id", "part_data_id">>)

-----------------------------------------------------------------------------
(* Connection and codes. *)

\* Both sides send their byte order, and the client its verbose flag.
CWP_client_connect(a, c) ==
  Barrier \o Write("endianess", Integer, Opaque) \o Read("endianess", Integer)
    \o Write("flags", Integer, c.verbose)

CWP_client_Init(a, c) ==
  CWP_client_connect(a, c) \o Request("Init", c)
    \o WriteInts(a, <<"n_code">>) \o WriteNames(<<"code_name">>)
    \o Write("is_active_rank", Integer * N(a, "n_code"), Opaque) \o Launched(c)

\* The server leaves its loop on CWP_MSG_DIE.
CWP_client_disconnect(a, c) == Barrier \o Write("message", Message, "DIE")

\* Two statuses only, and then the connection is closed.
CWP_client_Finalize(a, c) ==
  Request("Finalize", c) \o NextStatus(c)
    \o Keep([c EXCEPT !.char_param_value = NULL]) \o CWP_client_disconnect(a, c)

CWP_client_Properties_dump(a, c) ==
  Request("Properties_dump", c) \o NextStatus(c)
    \o ReadInts(<<"size">>) \o Read("properties", N(a, "size"))

CWP_client_State_update(a, c) ==
  Request("State_update", c) \o WriteNames(<<"local_code_name">>)
    \o WriteInts(a, <<"state">>) \o Launched(c)

CWP_client_State_get(a, c) ==
  Request("State_get", c) \o WriteNames(<<"code_name">>) \o Launched(c)
    \o ReadInts(<<"state">>)

CWP_client_Time_step_beg(a, c) ==
  Request("Time_step_beg", c) \o WriteNames(<<"local_code_name">>)
    \o Write("current_time", Double, Opaque) \o Launched(c)

CWP_client_Time_step_end(a, c) ==
  Request("Time_step_end", c) \o WriteNames(<<"local_code_name">>) \o Launched(c)

CWP_client_Codes_nb_get(a, c) ==
  Request("Codes_nb_get", c) \o NextStatus(c) \o ReadInts(<<"nb_codes">>)

CWP_client_Codes_list_get(a, c) ==
  Request("Codes_list_get", c) \o NextStatus(c)
    \o ReadInts(<<"nb_codes">>) \o ReadList("code_name", N(a, "nb_codes"))

CWP_client_Loc_codes_nb_get(a, c) ==
  Request("Loc_codes_nb_get", c) \o NextStatus(c) \o ReadInts(<<"nb_codes">>)

CWP_client_Loc_codes_list_get(a, c) ==
  Request("Loc_codes_list_get", c) \o NextStatus(c)
    \o ReadInts(<<"nb_codes">>) \o ReadList("code_name", N(a, "nb_codes"))

-----------------------------------------------------------------------------
(* Control parameters. *)

CWP_client_Param_lock(a, c) ==
  Request("Param_lock", c) \o WriteNames(<<"code_name">>) \o Launched(c)

CWP_client_Param_unlock(a, c) ==
  Request("Param_unlock", c) \o WriteNames(<<"code_name">>) \o Launched(c)

OfParam(a) ==
  WriteNames(<<"code_name", "param_name">>) \o WriteInts(a, <<"data_type">>)

SizeOf == [CWP_DOUBLE |-> Double, CWP_INT |-> Integer, CWP_CHAR |-> Name]

CWP_client_Param_add(a, c) ==
  Request("Param_add", c) \o OfParam(a)
    \o Write("value", SizeOf[a.data_type], a.value) \o Launched(c)

CWP_client_Param_set(a, c) ==
  Request("Param_set", c) \o OfParam(a)
    \o Write("value", SizeOf[a.data_type], a.value) \o Launched(c)

CWP_client_Param_del(a, c) ==
  Request("Param_del", c) \o OfParam(a) \o Launched(c)

\* A string is inserted in a map, which keeps the one it has, and what the map
\* holds is what the caller gets.
Stored(c, s) == IF c.char_param_value = NULL THEN s ELSE c.char_param_value

CWP_client_Param_get(a, c) ==
  Request("Param_get", c) \o OfParam(a) \o Launched(c)
    \o Read("value", SizeOf[a.data_type])
    \o (IF a.data_type = "CWP_CHAR"
        THEN Keep([c EXCEPT !.char_param_value = Stored(c, Val(a, "value"))])
        ELSE <<>>)

CWP_client_Param_is(a, c) ==
  Request("Param_is", c) \o OfParam(a) \o Launched(c) \o ReadInts(<<"is_param">>)

CWP_client_Param_n_get(a, c) ==
  Request("Param_n_get", c) \o WriteNames(<<"code_name">>)
    \o WriteInts(a, <<"data_type">>) \o Launched(c) \o ReadInts(<<"n_param">>)

CWP_client_Param_list_get(a, c) ==
  Request("Param_list_get", c) \o WriteNames(<<"code_name">>)
    \o WriteInts(a, <<"data_type">>) \o Launched(c)
    \o ReadInts(<<"n_param_names">>) \o ReadList("param_name", N(a, "n_param_names"))

CWP_client_Param_reduce(a, c) ==
  Request("Param_reduce", c) \o WriteInts(a, <<"op">>) \o WriteNames(<<"param_name">>)
    \o WriteInts(a, <<"data_type", "nCode">>) \o WriteList("code_name", a.nCode)
    \o Launched(c) \o Read("res", SizeOf[a.data_type])

-----------------------------------------------------------------------------
(* Couplings, their meshes and the weights of their interpolation. *)

CWP_client_Cpl_create(a, c) ==
  Request("Cpl_create", c)
    \o WriteNames(<<"local_code_name", "cpl_id", "coupled_code_name">>)
    \o WriteInts(a, <<"entities_dim", "comm_type", "spatial_interp", "n_part",
                      "displacement", "recv_freq_type">>)
    \o Launched(c)
    \o Keep([c EXCEPT !.coupling =
                NewCoupling(a.n_part, a.displacement = "DEFORMABLE")])

CWP_client_Cpl_barrier(a, c) == Request("Cpl_barrier", c) \o InCoupling \o Launched(c)

CWP_client_Cpl_del(a, c) ==
  Request("Cpl_del", c) \o InCoupling \o Launched(c)
    \o Keep([c EXCEPT !.coupling = NULL])

CWP_client_Cpl_spatial_interp_algo_get(a, c) ==
  Request("Cpl_spatial_interp_algo_get", c) \o InCoupling \o Launched(c)
    \o ReadInts(<<"spatial_interp_algo">>)

CWP_client_Visu_set(a, c) ==
  Request("Visu_set", c) \o InCoupling \o WriteInts(a, <<"freq", "format">>)
    \o WriteNames(<<"format_option">>) \o Launched(c)

CWP_client_Spatial_interp_property_set(a, c) ==
  Request("Spatial_interp_property_set", c) \o InCoupling
    \o WriteNames(<<"property_name">>) \o WriteInts(a, <<"property_type">>)
    \o WriteNames(<<"property_value">>) \o Launched(c)

\* The coordinates of a deformable mesh are sent again, part by part, with the
\* sizes that this side keeps.
Coordinates(cpl, j) ==
  Write("vtx_coord", 3 * Double * cpl.n_vtx[j], Opaque)
    \o (IF cpl.usr_coord = NULL THEN <<>>
        ELSE Write("usr_coord", 3 * Double * cpl.n_user_vtx[j], Opaque))

CWP_client_Spatial_interp_weights_compute(a, c) ==
  Request("Spatial_interp_weights_compute", c) \o InCoupling
    \o (IF c.coupling.deformable
        THEN EachPart(c.coupling.n_part, LAMBDA j : Coordinates(c.coupling, j))
        ELSE <<>>)
    \o Launched(c)

\* Coordinates are kept for a deformable mesh, sizes always.
CWP_client_User_tgt_pts_set(a, c) ==
  Request("User_tgt_pts_set", c) \o InCoupling \o WriteInts(a, <<"i_part", "n_pts">>)
    \o Write("coord", 3 * Double * a.n_pts, Opaque)
    \o LET cpl == c.coupling IN
       Keep([c EXCEPT
         !.coupling.usr_coord =
           IF cpl.deformable THEN Put(@, cpl.n_part, Unset, a.i_part, "set") ELSE @,
         !.coupling.n_user_vtx = Put(@, cpl.n_part, 0, a.i_part, a.n_pts)])
    \o WriteNumbers(a, a.n_pts) \o Launched(c)

CWP_client_Mesh_interf_vtx_set(a, c) ==
  Request("Mesh_interf_vtx_set", c) \o InCoupling \o WriteInts(a, <<"i_part", "n_pts">>)
    \o Write("coord", 3 * Double * a.n_pts, Opaque)
    \o LET cpl == c.coupling IN
       Keep([c EXCEPT
         !.coupling.vtx_coord =
           IF cpl.deformable THEN Put(@, cpl.n_part, Unset, a.i_part, "set") ELSE @,
         !.coupling.n_vtx = Put(@, cpl.n_part, 0, a.i_part, a.n_pts)])
    \o WriteNumbers(a, a.n_pts) \o Launched(c)

CWP_client_Mesh_interf_finalize(a, c) ==
  Request("Mesh_interf_finalize", c) \o InCoupling \o Launched(c)

CWP_client_Mesh_interf_del(a, c) ==
  Request("Mesh_interf_del", c) \o InCoupling \o Launched(c)
    \o Keep([c EXCEPT
         !.coupling.vtx_coord = IF c.coupling.deformable THEN NULL ELSE @,
         !.coupling.usr_coord = IF c.coupling.deformable THEN NULL ELSE @,
         !.coupling.n_vtx = NULL, !.coupling.n_user_vtx = NULL,
         !.coupling.n_elt = NULL])

-----------------------------------------------------------------------------
(* Blocks of elements. *)

\* The number of vertices of an element.
n_vtx_get == [NODE |-> 1, EDGE2 |-> 2, FACE_TRIA3 |-> 3, FACE_QUAD4 |-> 4,
              CELL_TETRA4 |-> 4, CELL_HEXA8 |-> 8, CELL_PRISM6 |-> 6, CELL_PYRAM5 |-> 5]
ho_n_vtx_get(block_type, order) ==
  LET n == order + 1 IN
  CASE block_type = "EDGEHO"        -> n
    [] block_type = "FACE_TRIAHO"   -> (n * (n + 1)) \div 2
    [] block_type = "FACE_QUADHO"   -> n * n
    [] block_type = "CELL_TETRAHO"  -> (n * (n + 1) * (n + 2)) \div 6
    [] block_type = "CELL_PYRAMHO"  -> (n * (n + 1) * (2 * n + 1)) \div 6
    [] block_type = "CELL_PRISMHO"  -> (n * n * (n + 1)) \div 2
    [] block_type = "CELL_HEXAHO"   -> n * n * n
    [] OTHER                        -> n_vtx_get[block_type]

\* n_elt[i_part] becomes n, the other parts having 0 elements at first.
Elements(a, c, n) == [c EXCEPT !.coupling.n_elt = Put(@, c.coupling.n_part, 0, a.i_part, n)]

\* Faulty variant: the last block replaces the others.
LastElements(a, c, n) == Elements(a, c, n)

AddElements(a, c, n) ==
  Elements(a, c, n + (IF c.coupling.n_elt = NULL THEN 0 ELSE c.coupling.n_elt[a.i_part]))

CWP_client_Mesh_interf_block_add(a, c) ==
  Request("Mesh_interf_block_add", c) \o InCoupling \o WriteInts(a, <<"block_type">>)
    \o Launched(c) \o ReadInts(<<"block_id">>)

CWP_client_std_block_type_get(a, c) ==
  Request("std_block_type_get", c) \o InCoupling \o WriteInts(a, <<"block_id">>)
    \o Launched(c) \o ReadInts(<<"block_type">>)

\* The server answers with the type of the block in the middle of the call.
CWP_client_Mesh_interf_block_std_set(a, c) ==
  LET n_vtx_elt == IF "block_type" \in DOMAIN a THEN n_vtx_get[a.block_type] ELSE 0 IN
  Request("Mesh_interf_block_std_set", c) \o InCoupling
    \o WriteInts(a, <<"i_part", "block_id", "n_elts">>) \o ReadInts(<<"block_type">>)
    \o Write("n_vtx_elt", Integer, n_vtx_elt) \o Write("connec", Integer * a.n_elts * n_vtx_elt, Opaque)
    \o WriteNumbers(a, a.n_elts) \o Launched(c) \o Keep(AddElements(a, c, a.n_elts))

CWP_client_Mesh_interf_block_std_get(a, c) ==
  Request("Mesh_interf_block_std_get", c) \o InCoupling
    \o WriteInts(a, <<"i_part", "block_id">>) \o Launched(c)
    \o ReadInts(<<"n_elts", "n_vtx_elt">>)
    \o Read("connec", Integer * N(a, "n_elts") * N(a, "n_vtx_elt"))
    \o ReadNumbers(a, N(a, "n_elts"))

CWP_client_Mesh_interf_block_ho_set(a, c) ==
  LET n_vtx_elt == IF "block_type" \in DOMAIN a
                   THEN ho_n_vtx_get(a.block_type, a.order) ELSE 0 IN
  Request("Mesh_interf_block_ho_set", c) \o InCoupling
    \o WriteInts(a, <<"i_part", "block_id", "n_elts", "order">>)
    \o ReadInts(<<"block_type">>)
    \o Write("n_vtx_elt", Integer, n_vtx_elt) \o Write("connec", Integer * a.n_elts * n_vtx_elt, Opaque)
    \o WriteNumbers(a, a.n_elts) \o Launched(c) \o Keep(AddElements(a, c, a.n_elts))

CWP_client_Mesh_interf_block_ho_get(a, c) ==
  Request("Mesh_interf_block_ho_get", c) \o InCoupling
    \o WriteInts(a, <<"i_part", "block_id">>) \o Launched(c)
    \o ReadInts(<<"n_elts", "order", "n_vtx_elt">>)
    \o Read("connec", Integer * N(a, "n_elts") * N(a, "n_vtx_elt"))
    \o ReadNumbers(a, N(a, "n_elts"))

CWP_client_Mesh_interf_ho_ordering_from_IJK_set(a, c) ==
  Request("Mesh_interf_ho_ordering_from_IJK_set", c) \o InCoupling
    \o WriteInts(a, <<"block_type", "order", "n_nodes">>)
    \o Write("size", Integer, a.n_nodes * a.elt_dim)
    \o Write("ijk_grid", Integer * a.n_nodes * a.elt_dim, Opaque) \o Launched(c)

CWP_client_Mesh_interf_f_poly_block_set(a, c) ==
  Request("Mesh_interf_f_poly_block_set", c) \o InCoupling
    \o WriteInts(a, <<"i_part", "block_id", "n_elts">>)
    \o WriteConnec(a, "connec_idx", "connec", a.n_elts)
    \o WriteNumbers(a, a.n_elts) \o Launched(c) \o Keep(Elements(a, c, a.n_elts))

CWP_client_Mesh_interf_f_poly_block_get(a, c) ==
  Request("Mesh_interf_f_poly_block_get", c) \o InCoupling
    \o WriteInts(a, <<"i_part", "block_id">>) \o Launched(c)
    \o ReadInts(<<"n_elts">>) \o ReadConnec(a, "connec_idx", "connec", N(a, "n_elts"))
    \o ReadNumbers(a, N(a, "n_elts"))

CWP_client_Mesh_interf_c_poly_block_set(a, c) ==
  Request("Mesh_interf_c_poly_block_set", c) \o InCoupling
    \o WriteInts(a, <<"i_part", "block_id", "n_elts", "n_faces">>)
    \o WriteConnec(a, "connec_faces_idx", "connec_faces", a.n_faces)
    \o WriteConnec(a, "connec_cells_idx", "connec_cells", a.n_elts)
    \o WriteNumbers(a, a.n_elts) \o Launched(c) \o Keep(Elements(a, c, a.n_elts))

CWP_client_Mesh_interf_c_poly_block_get(a, c) ==
  Request("Mesh_interf_c_poly_block_get", c) \o InCoupling
    \o WriteInts(a, <<"i_part", "block_id">>) \o Launched(c)
    \o ReadInts(<<"n_elts", "n_faces">>)
    \o ReadConnec(a, "connec_faces_idx", "connec_faces", N(a, "n_faces"))
    \o ReadConnec(a, "connec_cells_idx", "connec_cells", N(a, "n_elts"))
    \o ReadNumbers(a, N(a, "n_elts"))

CWP_client_Mesh_interf_from_cellface_set(a, c) ==
  Request("Mesh_interf_from_cellface_set", c) \o InCoupling
    \o WriteInts(a, <<"i_part", "n_cells">>)
    \o WriteConnec(a, "cell_face_idx", "cell_face", a.n_cells)
    \o WriteInts(a, <<"n_faces">>) \o WriteConnec(a, "face_vtx_idx", "face_vtx", a.n_faces)
    \o WriteNumbers(a, a.n_cells) \o Launched(c) \o Keep(Elements(a, c, a.n_cells))

CWP_client_Mesh_interf_from_faceedge_set(a, c) ==
  Request("Mesh_interf_from_faceedge_set", c) \o InCoupling
    \o WriteInts(a, <<"i_part", "n_faces">>)
    \o WriteConnec(a, "face_edge_idx", "face_edge", a.n_faces)
    \o WriteInts(a, <<"n_edges">>) \o Write("edge_vtx", Integer * 2 * a.n_edges, Opaque)
    \o WriteNumbers(a, a.n_faces) \o Launched(c) \o Keep(Elements(a, c, a.n_faces))

-----------------------------------------------------------------------------
(* Fields. *)

CWP_client_Field_create(a, c) ==
  LET parts == Parts(c.coupling.n_part) IN
  Request("Field_create", c) \o InField
    \o WriteInts(a, <<"data_type", "storage", "n_component", "target_location",
                      "exch_type", "visu_status">>)
    \o Keep([c EXCEPT !.coupling.field =
         [location |-> a.target_location, n_component |-> a.n_component,
          map_type |-> Unset, data |-> [j \in parts |-> NULL],
          n_entities |-> [j \in parts |-> -1]]])
    \o Launched(c)

\* The sizes of the mesh at the location of the field.
EntitiesOf(cpl) ==
  CASE cpl.field.location = "NODE"        -> cpl.n_vtx
    [] cpl.field.location = "USER"        -> cpl.n_user_vtx
    [] cpl.field.location = "CELL_CENTER" -> cpl.n_elt

\* One array for each part, whichever of the two maps it is for, and the sizes
\* of all parts.
CWP_client_Field_data_set(a, c) ==
  LET cpl  == c.coupling
      size == cpl.field.n_component * EntitiesOf(cpl)[a.i_part]
  IN Request("Field_data_set", c) \o InField \o WriteInts(a, <<"i_part", "map_type">>)
       \o Keep([c EXCEPT !.coupling.field.map_type = a.map_type,
                         !.coupling.field.data[a.i_part] = a.map_type,
                         !.coupling.field.n_entities = EntitiesOf(cpl)])
       \o Write("size", Integer, size)
       \o (IF a.map_type = "SOURCE" THEN Write("data", Double * size, "SOURCE") ELSE <<>>)
       \o Launched(c)

CWP_client_Field_issend(a, c) ==
  LET f == c.coupling.field
      Data(j) == Write("data", Double * f.n_component * f.n_entities[j], f.data[j])
  IN Request("Field_issend", c) \o InField
       \o EachPart(c.coupling.n_part, Data) \o Launched(c)

CWP_client_Field_irecv(a, c) == Request("Field_irecv", c) \o InField \o Launched(c)

CWP_client_Field_wait_issend(a, c) ==
  Request("Field_wait_issend", c) \o InField \o Launched(c)

\* The number of computed targets of every part, then the data of the parts.
CWP_client_Field_wait_irecv(a, c) ==
  LET cpl == c.coupling
      f   == cpl.field
      Computed(j) == IF "n_computed_tgts" \in DOMAIN a THEN a.n_computed_tgts[j] ELSE 0
      Data(j) == IF f.n_entities[j] = -1 THEN <<>>
                 ELSE Read("data", Double * Computed(j) * f.n_component)
  IN Request("Field_wait_irecv", c) \o InField
       \o Write("map_type", Integer, f.map_type) \o Write("n_part", Integer, cpl.n_part)
       \o Write("n_component", Integer, f.n_component)
       \o Write("n_entities", Integer * cpl.n_part, f.n_entities) \o Launched(c)
       \o Read("n_computed_tgts", Integer * cpl.n_part) \o EachPart(cpl.n_part, Data)

CWP_client_Field_del(a, c) ==
  Request("Field_del", c) \o InField \o Launched(c) \o Keep([c EXCEPT !.coupling.field = NULL])

CWP_client_Field_dof_location_get(a, c) ==
  Request("Field_dof_location_get", c) \o InField \o Launched(c)
    \o ReadInts(<<"dof_location">>)

CWP_client_Field_storage_get(a, c) ==
  Request("Field_storage_get", c) \o InField \o Launched(c) \o ReadInts(<<"storage">>)

CWP_client_Field_n_components_get(a, c) ==
  Request("Field_n_components_get", c) \o InField \o Launched(c)
    \o ReadInts(<<"n_components">>)

CWP_client_Field_n_dof_get(a, c) ==
  Request("Field_n_dof_get", c) \o InField \o WriteInts(a, <<"i_part">>) \o Launched(c)
    \o ReadInts(<<"n_dof">>)

CWP_client_Computed_tgts_bcast_enable(a, c) ==
  Request("Computed_tgts_bcast_enable", c) \o InField \o Launched(c)

CWP_client_Involved_srcs_bcast_enable(a, c) ==
  Request("Involved_srcs_bcast_enable", c) \o InField \o Launched(c)

CWP_client_N_uncomputed_tgts_get(a, c) ==
  Request("N_uncomputed_tgts_get", c) \o InField \o WriteInts(a, <<"i_part">>)
    \o Launched(c) \o ReadInts(<<"nb_tgts">>)

CWP_client_Uncomputed_tgts_get(a, c) ==
  Request("Uncomputed_tgts_get", c) \o InField \o WriteInts(a, <<"i_part">>)
    \o Launched(c) \o ReadInts(<<"nb_tgts">>) \o Read("tgts", Integer * N(a, "nb_tgts"))

CWP_client_N_computed_tgts_get(a, c) ==
  Request("N_computed_tgts_get", c) \o InField \o WriteInts(a, <<"i_part">>)
    \o Launched(c) \o ReadInts(<<"nb_tgts">>)

CWP_client_Computed_tgts_get(a, c) ==
  Request("Computed_tgts_get", c) \o InField \o WriteInts(a, <<"i_part">>)
    \o Launched(c) \o ReadInts(<<"nb_tgts">>) \o Read("tgts", Integer * N(a, "nb_tgts"))

CWP_client_N_involved_srcs_get(a, c) ==
  Request("N_involved_srcs_get", c) \o InField \o WriteInts(a, <<"i_part">>)
    \o Launched(c) \o ReadInts(<<"nb_srcs">>)

CWP_client_Involved_srcs_get(a, c) ==
  Request("Involved_srcs_get", c) \o InField \o WriteInts(a, <<"i_part">>)
    \o Launched(c) \o ReadInts(<<"nb_srcs">>) \o Read("srcs", Integer * N(a, "nb_srcs"))

-----------------------------------------------------------------------------
(* Global data, and data defined on partitions. *)

\* The sizes of the data: those of the entity, the stride and the number.
DataSizes(s_entity, stride, n_entity) ==
  Write("s_entity", Size_t, s_entity) \o Write("stride", Integer, stride)
    \o Write("n_entity", Integer, n_entity)

CWP_client_Global_data_issend(a, c) ==
  Request("Global_data_issend", c) \o InGlobal
    \o DataSizes(a.s_entity, a.stride, a.n_entity)
    \o Write("send_data", a.s_entity * a.stride * a.n_entity, Opaque) \o Launched(c)

CWP_client_Global_data_irecv(a, c) ==
  Request("Global_data_irecv", c) \o InGlobal
    \o DataSizes(a.s_entity, a.stride, a.n_entity) \o Launched(c)
    \o Keep([c EXCEPT !.coupling.global_data = a.s_entity * a.stride * a.n_entity])

CWP_client_Global_data_wait_issend(a, c) ==
  Request("Global_data_wait_issend", c) \o InGlobal \o Launched(c)

CWP_client_Global_data_wait_irecv(a, c) ==
  Request("Global_data_wait_irecv", c) \o InGlobal \o Launched(c)
    \o Read("recv_data", c.coupling.global_data)

\* The identifier is new: insert leaves one that exists as it is.
CWP_client_Part_data_create(a, c) ==
  Request("Part_data_create", c) \o InPart \o WriteInts(a, <<"exch_type", "n_part">>)
    \o Write("n_elt", Integer * a.n_part, a.n_elt)
    \o EachPart(a.n_part, LAMBDA i : Write("gnum_elt", Gnum * a.n_elt[i], Opaque))
    \o Launched(c)
    \o Keep(IF c.coupling.part_data # NULL THEN c
            ELSE [c EXCEPT !.coupling.part_data =
                    [n_part |-> a.n_part, n_elt |-> a.n_elt, s_unit |-> NULL]])

CWP_client_Part_data_issend(a, c) ==
  LET p == c.coupling.part_data
      Data(i) == Write("send_data", a.s_data * a.n_components * p.n_elt[i], Opaque)
  IN Request("Part_data_issend", c) \o InPart \o WriteInts(a, <<"exch_id">>)
       \o Write("s_data", Size_t, a.s_data) \o WriteInts(a, <<"n_components">>)
       \o EachPart(p.n_part, Data) \o Launched(c)

\* The size of a unit of the first exchange under this exch_id.
Unit(p, s_unit) == [p EXCEPT !.s_unit = IF @ = NULL THEN s_unit ELSE @]

CWP_client_Part_data_irecv(a, c) ==
  Request("Part_data_irecv", c) \o InPart \o WriteInts(a, <<"exch_id">>)
    \o Write("s_data", Size_t, a.s_data) \o WriteInts(a, <<"n_components">>)
    \o Launched(c)
    \o Keep([c EXCEPT !.coupling.part_data = Unit(@, a.s_data * a.n_components)])

CWP_client_Part_data_wait_issend(a, c) ==
  Request("Part_data_wait_issend", c) \o InPart \o WriteInts(a, <<"exch_id">>) \o Launched(c)

CWP_client_Part_data_wait_irecv(a, c) ==
  LET p == c.coupling.part_data
      unit == IF p.s_unit = NULL THEN 0 ELSE p.s_unit
  IN Request("Part_data_wait_irecv", c) \o InPart \o WriteInts(a, <<"exch_id">>)
       \o Launched(c) \o EachPart(p.n_part, LAMBDA i : Read("data", unit * p.n_elt[i]))
       \o Keep([c EXCEPT !.coupling.part_data.s_unit = NULL])

CWP_client_Part_data_del(a, c) ==
  Request("Part_data_del", c) \o InPart \o Launched(c)
    \o Keep([c EXCEPT !.coupling.part_data = NULL])

-----------------------------------------------------------------------------
\* What the call of function fn does.
Script(fn, a, c) ==
  CASE fn = "Init" -> CWP_client_Init(a, c)
    [] fn = "Finalize" -> CWP_client_Finalize(a, c)
    [] fn = "Properties_dump" -> CWP_client_Properties_dump(a, c)
    [] fn = "State_update" -> CWP_client_State_update(a, c)
    [] fn = "State_get" -> CWP_client_State_get(a, c)
    [] fn = "Time_step_beg" -> CWP_client_Time_step_beg(a, c)
    [] fn = "Time_step_end" -> CWP_client_Time_step_end(a, c)
    [] fn = "Codes_nb_get" -> CWP_client_Codes_nb_get(a, c)
    [] fn = "Codes_list_get" -> CWP_client_Codes_list_get(a, c)
    [] fn = "Loc_codes_nb_get" -> CWP_client_Loc_codes_nb_get(a, c)
    [] fn = "Loc_codes_list_get" -> CWP_client_Loc_codes_list_get(a, c)
    [] fn = "Param_lock" -> CWP_client_Param_lock(a, c)
    [] fn = "Param_unlock" -> CWP_client_Param_unlock(a, c)
    [] fn = "Param_add" -> CWP_client_Param_add(a, c)
    [] fn = "Param_set" -> CWP_client_Param_set(a, c)
    [] fn = "Param_del" -> CWP_client_Param_del(a, c)
    [] fn = "Param_get" -> CWP_client_Param_get(a, c)
    [] fn = "Param_is" -> CWP_client_Param_is(a, c)
    [] fn = "Param_n_get" -> CWP_client_Param_n_get(a, c)
    [] fn = "Param_list_get" -> CWP_client_Param_list_get(a, c)
    [] fn = "Param_reduce" -> CWP_client_Param_reduce(a, c)
    [] fn = "Cpl_create" -> CWP_client_Cpl_create(a, c)
    [] fn = "Cpl_barrier" -> CWP_client_Cpl_barrier(a, c)
    [] fn = "Cpl_del" -> CWP_client_Cpl_del(a, c)
    [] fn = "Cpl_spatial_interp_algo_get" -> CWP_client_Cpl_spatial_interp_algo_get(a, c)
    [] fn = "Visu_set" -> CWP_client_Visu_set(a, c)
    [] fn = "Spatial_interp_property_set" -> CWP_client_Spatial_interp_property_set(a, c)
    [] fn = "Spatial_interp_weights_compute" -> CWP_client_Spatial_interp_weights_compute(a, c)
    [] fn = "User_tgt_pts_set" -> CWP_client_User_tgt_pts_set(a, c)
    [] fn = "Mesh_interf_vtx_set" -> CWP_client_Mesh_interf_vtx_set(a, c)
    [] fn = "Mesh_interf_finalize" -> CWP_client_Mesh_interf_finalize(a, c)
    [] fn = "Mesh_interf_del" -> CWP_client_Mesh_interf_del(a, c)
    [] fn = "Mesh_interf_block_add" -> CWP_client_Mesh_interf_block_add(a, c)
    [] fn = "std_block_type_get" -> CWP_client_std_block_type_get(a, c)
    [] fn = "Mesh_interf_block_std_set" -> CWP_client_Mesh_interf_block_std_set(a, c)
    [] fn = "Mesh_interf_block_std_get" -> CWP_client_Mesh_interf_block_std_get(a, c)
    [] fn = "Mesh_interf_block_ho_set" -> CWP_client_Mesh_interf_block_ho_set(a, c)
    [] fn = "Mesh_interf_block_ho_get" -> CWP_client_Mesh_interf_block_ho_get(a, c)
    [] fn = "Mesh_interf_ho_ordering_from_IJK_set" -> CWP_client_Mesh_interf_ho_ordering_from_IJK_set(a, c)
    [] fn = "Mesh_interf_f_poly_block_set" -> CWP_client_Mesh_interf_f_poly_block_set(a, c)
    [] fn = "Mesh_interf_f_poly_block_get" -> CWP_client_Mesh_interf_f_poly_block_get(a, c)
    [] fn = "Mesh_interf_c_poly_block_set" -> CWP_client_Mesh_interf_c_poly_block_set(a, c)
    [] fn = "Mesh_interf_c_poly_block_get" -> CWP_client_Mesh_interf_c_poly_block_get(a, c)
    [] fn = "Mesh_interf_from_cellface_set" -> CWP_client_Mesh_interf_from_cellface_set(a, c)
    [] fn = "Mesh_interf_from_faceedge_set" -> CWP_client_Mesh_interf_from_faceedge_set(a, c)
    [] fn = "Field_create" -> CWP_client_Field_create(a, c)
    [] fn = "Field_data_set" -> CWP_client_Field_data_set(a, c)
    [] fn = "Field_issend" -> CWP_client_Field_issend(a, c)
    [] fn = "Field_irecv" -> CWP_client_Field_irecv(a, c)
    [] fn = "Field_wait_issend" -> CWP_client_Field_wait_issend(a, c)
    [] fn = "Field_wait_irecv" -> CWP_client_Field_wait_irecv(a, c)
    [] fn = "Field_del" -> CWP_client_Field_del(a, c)
    [] fn = "Field_dof_location_get" -> CWP_client_Field_dof_location_get(a, c)
    [] fn = "Field_storage_get" -> CWP_client_Field_storage_get(a, c)
    [] fn = "Field_n_components_get" -> CWP_client_Field_n_components_get(a, c)
    [] fn = "Field_n_dof_get" -> CWP_client_Field_n_dof_get(a, c)
    [] fn = "Computed_tgts_bcast_enable" -> CWP_client_Computed_tgts_bcast_enable(a, c)
    [] fn = "Involved_srcs_bcast_enable" -> CWP_client_Involved_srcs_bcast_enable(a, c)
    [] fn = "N_uncomputed_tgts_get" -> CWP_client_N_uncomputed_tgts_get(a, c)
    [] fn = "Uncomputed_tgts_get" -> CWP_client_Uncomputed_tgts_get(a, c)
    [] fn = "N_computed_tgts_get" -> CWP_client_N_computed_tgts_get(a, c)
    [] fn = "Computed_tgts_get" -> CWP_client_Computed_tgts_get(a, c)
    [] fn = "N_involved_srcs_get" -> CWP_client_N_involved_srcs_get(a, c)
    [] fn = "Involved_srcs_get" -> CWP_client_Involved_srcs_get(a, c)
    [] fn = "Global_data_issend" -> CWP_client_Global_data_issend(a, c)
    [] fn = "Global_data_irecv" -> CWP_client_Global_data_irecv(a, c)
    [] fn = "Global_data_wait_issend" -> CWP_client_Global_data_wait_issend(a, c)
    [] fn = "Global_data_wait_irecv" -> CWP_client_Global_data_wait_irecv(a, c)
    [] fn = "Part_data_create" -> CWP_client_Part_data_create(a, c)
    [] fn = "Part_data_issend" -> CWP_client_Part_data_issend(a, c)
    [] fn = "Part_data_irecv" -> CWP_client_Part_data_irecv(a, c)
    [] fn = "Part_data_wait_issend" -> CWP_client_Part_data_wait_issend(a, c)
    [] fn = "Part_data_wait_irecv" -> CWP_client_Part_data_wait_irecv(a, c)
    [] fn = "Part_data_del" -> CWP_client_Part_data_del(a, c)
=============================================================================
